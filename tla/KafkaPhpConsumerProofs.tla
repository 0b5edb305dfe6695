----------------------- MODULE KafkaPhpConsumerProofs -----------------------
(***************************************************************************)
(* What the PHP build of the consumer guarantees for every set of           *)
(* partitions, messages and addresses, whether or not partitions share      *)
(* keys, and whichever messages the script commits.                         *)
(***************************************************************************)
EXTENDS KafkaPhpConsumer, KafkaConsumerProofs

USE ConstantsAssumption, PhpAssumption

-----------------------------------------------------------------------------
(* The inductive invariant *)

\* Where the calls can be.  Only the script's thread runs: stop() and
\* commitOffset() return before consume() is called again.
CallsInv ==
    /\ appPc \notin {"pauseFind", "pauseApply"}
    /\ pollPc \in {"idle", "poll", "tick"}
    /\ startFlag <=> appPc = "run"
    /\ pollPc = "poll" => appPc = "run" /\ got = <<>>
    /\ pollPc # "idle" => appPc \in {"ready", "run", "stopped"} /\ ucommit = None
    /\ ucommit # None => appPc = "run" /\ mode = "user" /\ ~restarted
    /\ pollPc = "tick" => mode # "auto"
    /\ crashed => restarted

\* Nothing lives before start() nor once stop() has cleared the lists, and a
\* consumer that was stopped gets no message any more.
NothingLeft == Live = {} /\ DOMAIN waitCommit = {} /\ held = {}

GoneInv ==
    /\ appPc \in {"ready", "closing", "stopped"} \/ restarted => NothingLeft
    /\ appPc \in {"ready", "stopped"} \/ restarted => ~hasAssigned
    /\ appPc \in StopPast => DOMAIN waitCommit = {}
    /\ mode = "auto" => Live = {} /\ DOMAIN waitCommit = {}
    /\ mode # "user" => held = {} /\ \A k \in Keys : waitDestroy[k] = <<>>

\* The maps, also when partitions share a key.  The lists that stop() leaves
\* filled are stale once the consumer is started again.
FiledInv ==
    /\ WaitInv
    /\ ~restarted => ListInv
    /\ held \cap Live \subseteq Listed
    /\ ucommit # None => ucommit \in Waiting /\ ucommit \notin held
    /\ Live \subseteq Waiting \cup Listed

\* While no list holds messages of two partitions, no message is destroyed that
\* the script may still commit.
AlikeInv ==
    ~mixed =>
        /\ ~ListsMix(waitDestroy, heap)
        /\ held \subseteq Live
        /\ ucommit # None =>
              \A i \in DOMAIN waitDestroy[Key(ucommit)] :
                 waitDestroy[Key(ucommit)][i] = ucommit =>
                    \A j \in 1 .. i : waitDestroy[Key(ucommit)][j] \notin held
        /\ ~restarted => ~misuse

\* Nothing that waits, and in automatic mode nothing that librdkafka would commit,
\* is ahead of what consume() returned.
ReturnedInv ==
    /\ \A p \in Partitions : committed[p] <= Returned(p)
    /\ \A k \in DOMAIN waitCommit :
          heap[waitCommit[k]].off + 1 <= Returned(heap[waitCommit[k]].part)
    /\ mode = "auto" => \A p \in assigned : pos[p] <= Returned(p)

QuietInv == PauseCoversAssignment /\ PausedStaysQuiet

PhpInv == /\ PhpTypeOK /\ CallsInv /\ GoneInv /\ FiledInv /\ AlikeInv
          /\ ReturnedInv /\ OwedIsWaiting /\ QuietInv

\* Stands for the variables the maps are about.
mapVars == <<mode, ucommit, waitCommit, waitDestroy, heap, held, misuse, mixed>>

-----------------------------------------------------------------------------
(* What the steps do *)

\* A round of commits outside commitOffset().
Round(face) ==
    /\ CommitUnlessAuto(face) /\ Settle(face) /\ ucommit = None
    /\ UNCHANGED <<mode, ucommit, waitDestroy, held, mixed, displaced, restarted,
                   pos, done, got>>
    /\ assigned' \subseteq assigned
    /\ appPc \in Ending => appPc' \in Ending
    /\ appPc' = "stopped" => appPc \in {"closing", "stopped"}
    /\ appPc' \in StopPast => appPc \in {"closing", "stopped"} \/ face = TRUE
    /\ appPc' \in Ending => appPc \in Ending \/ mode # "user"

\* A step that leaves the maps alone.
Calm ==
    /\ UNCHANGED mapVars
    /\ restarted => restarted'
    /\ appPc \in Ending => appPc' \in Ending \/ restarted'
    /\ UNCHANGED <<owed, displaced>>
    /\ appPc' = "stopped" => appPc \in {"closing", "stopped"}

\* The rounds of commits.
LEMMA Rounds ==
    ASSUME PhpInv, ConsumeTick \/ PhpRevoke \/ PhpStopCommit \/ (PhpStopClose /\ hasAssigned)
    PROVE  \E face \in BOOLEAN : Round(face)
<1> USE DEF pauseVars, waitVars, brokerVars, userVars, threadVars, Ending, StopPast
<1>0. CallsInv
  BY DEF PhpInv
<1>1. CASE ConsumeTick
  <2>1. CommitUnlessAuto(FALSE)
    BY <1>0, <1>1 DEF ConsumeTick, CallsInv, CommitUnlessAuto
  <2>2. Round(FALSE)
    BY <1>0, <1>1, <2>1 DEF ConsumeTick, CallsInv, Round
  <2> QED
    BY <2>2
<1>2. CASE PhpRevoke
  <2>1. Round(TRUE)
    BY <1>0, <1>2 DEF PhpRevoke, Revoke, RevokeCallback, CallsInv, Round
  <2> QED
    BY <2>1
<1>3. CASE PhpStopCommit
  <2>1. Round(TRUE)
    BY <1>0, <1>3 DEF PhpStopCommit, CallsInv, Round
  <2> QED
    BY <2>1
<1>4. CASE PhpStopClose /\ hasAssigned
  <2>1. Round(TRUE)
    BY <1>0, <1>4 DEF PhpStopClose, StopClose, RevokeCallback, CallsInv, Round
  <2> QED
    BY <2>1
<1> QED
  BY <1>1, <1>2, <1>3, <1>4

\* A step of the group: librdkafka commits, or another member works on a partition
\* that is not this consumer's.
GroupStep(p) ==
    (AutoCommit(p) \/ OtherProcesses(p) \/ OtherCommits(p)) /\ UNCHANGED phpVars

\* The steps that leave the maps alone.
CalmStep ==
    \/ Consume \/ PollNullHandle \/ ConsumeNothing
    \/ \E p \in Partitions : ConsumeEmpty(p)
    \/ \E S \in SUBSET Partitions : PhpAssign(S)
    \/ PhpRebalanceError \/ Process \/ PhpStart \/ PhpStop
    \/ PhpStopClose /\ ~hasAssigned
    \/ \E ts \in PauseSets : Pause(ts) \/ Resume(ts)
    \/ \E p \in Partitions : GroupStep(p)
    \/ TimePasses /\ UNCHANGED phpVars
    \/ UNCHANGED allVars

LEMMA CalmSteps == PhpInv /\ CalmStep => Calm
<1> USE DEF pauseVars, waitVars, brokerVars, userVars, threadVars, phpVars, mapVars, Ending
<1> SUFFICES ASSUME PhpInv, CalmStep PROVE Calm
  OBVIOUS
<1>0. CallsInv
  BY DEF PhpInv
<1>1. CASE Consume \/ PollNullHandle \/ ConsumeNothing
  BY <1>1 DEF Consume, PollNullHandle, ConsumeNothing, vars, Calm
<1>2. ASSUME NEW p \in Partitions, ConsumeEmpty(p) PROVE Calm
  BY <1>2 DEF ConsumeEmpty, Calm
<1>3. ASSUME NEW S \in SUBSET Partitions, PhpAssign(S) PROVE Calm
  BY <1>3 DEF PhpAssign, Assign, Calm
<1>4. CASE PhpRebalanceError \/ Process
  BY <1>4 DEF PhpRebalanceError, RebalanceError, Process, Calm
<1>5. CASE PhpStart
  BY <1>0, <1>5 DEF PhpStart, Script, Calm
<1>6. CASE PhpStop
  BY <1>6 DEF PhpStop, Stop, Script, Calm
<1>7. CASE PhpStopClose /\ ~hasAssigned
  BY <1>7 DEF PhpStopClose, StopClose, Calm
<1>8. ASSUME NEW ts \in PauseSets, Pause(ts) \/ Resume(ts) PROVE Calm
  BY <1>8 DEF Pause, Resume, Calm
<1>9. ASSUME NEW p \in Partitions, GroupStep(p) PROVE Calm
  BY <1>9 DEF GroupStep, AutoCommit, OtherProcesses, OtherCommits, Calm
<1>10. CASE (TimePasses /\ UNCHANGED phpVars) \/ UNCHANGED allVars
  BY <1>10 DEF TimePasses, allVars, vars, Calm
<1> QED
  BY <1>1, <1>2, <1>3, <1>4, <1>5, <1>6, <1>7, <1>8, <1>9, <1>10 DEF CalmStep

\* Every step is of one of six kinds.
LEMMA Kinds ==
    ASSUME [PhpNext]_allVars
    PROVE  \/ CalmStep
           \/ ConsumeTick \/ PhpRevoke \/ PhpStopCommit \/ (PhpStopClose /\ hasAssigned)
           \/ \E p \in Partitions, o \in Obj : ConsumeMessage(p, o)
           \/ \E o \in Obj : PhpCommit(o)
           \/ PhpCommitEnd
           \/ PhpStopClear
BY DEF PhpNext, ConsumeCall, OtherCalls, CalmStep, GroupStep, Ended

-----------------------------------------------------------------------------
(* Type correctness *)

\* A list gets one more message.
LEMMA AppendLists ==
    ASSUME TypeOK, NEW k0 \in Keys, NEW o \in Obj,
           waitDestroy' = [waitDestroy EXCEPT ![k0] = Append(@, o)]
    PROVE  /\ waitDestroy' \in [Keys -> Seq(Obj)]
           /\ \A k \in Keys : \A i \in DOMAIN waitDestroy'[k] :
                 \/ i \in DOMAIN waitDestroy[k] /\ waitDestroy'[k][i] = waitDestroy[k][i]
                 \/ k = k0 /\ i = Len(waitDestroy[k0]) + 1 /\ waitDestroy'[k][i] = o
           /\ \A k \in Keys : \A i \in DOMAIN waitDestroy[k] :
                 i \in DOMAIN waitDestroy'[k] /\ waitDestroy'[k][i] = waitDestroy[k][i]
           /\ Listed' = Listed \cup {o}
<1>1. waitDestroy \in [Keys -> Seq(Obj)]
  BY DEF TypeOK
<1>2. /\ waitDestroy'[k0] = Append(waitDestroy[k0], o)
      /\ \A k \in Keys : k # k0 => waitDestroy'[k] = waitDestroy[k]
  BY <1>1
<1>3. waitDestroy' \in [Keys -> Seq(Obj)]
  BY <1>1
<1>4. /\ DOMAIN waitDestroy'[k0] = 1 .. Len(waitDestroy[k0]) + 1
      /\ DOMAIN waitDestroy[k0] = 1 .. Len(waitDestroy[k0])
      /\ Len(waitDestroy[k0]) \in Nat
      /\ waitDestroy'[k0][Len(waitDestroy[k0]) + 1] = o
      /\ \A i \in DOMAIN waitDestroy[k0] : waitDestroy'[k0][i] = waitDestroy[k0][i]
  BY <1>1, <1>2
<1>5. ASSUME NEW k \in Keys, NEW i \in DOMAIN waitDestroy'[k]
      PROVE  \/ i \in DOMAIN waitDestroy[k] /\ waitDestroy'[k][i] = waitDestroy[k][i]
             \/ k = k0 /\ i = Len(waitDestroy[k0]) + 1 /\ waitDestroy'[k][i] = o
  BY <1>2, <1>4
<1>6. ASSUME NEW k \in Keys, NEW i \in DOMAIN waitDestroy[k]
      PROVE  i \in DOMAIN waitDestroy'[k] /\ waitDestroy'[k][i] = waitDestroy[k][i]
  BY <1>2, <1>4
<1>7. \A x : x \in Listed' <=> \E k \in Keys : \E i \in DOMAIN waitDestroy'[k] : waitDestroy'[k][i] = x
  BY DEF Listed, Range
<1>8. o \in Listed'
  BY <1>4, <1>7
<1>9. Listed' = Listed \cup {o}
  BY <1>5, <1>6, <1>7, <1>8, ListedMember
<1> QED
  BY <1>3, <1>5, <1>6, <1>9

\* What consume() takes from librdkafka.
LEMMA Polled ==
    ASSUME TypeOK, NEW p \in Partitions, NEW o \in Obj, o \notin Live,
           NEW h, h = [x \in Live \cup {o} |->
                          IF x = o THEN [part |-> p, off |-> pos[p]] ELSE heap[x]]
    PROVE  /\ DOMAIN h = Live \cup {o} /\ o \in DOMAIN h /\ Live \subseteq DOMAIN h
           /\ h \in [DOMAIN h -> Message] /\ DOMAIN h \subseteq Obj
           /\ \A x \in Live : h[x] = heap[x]
           /\ h[o].part = p /\ h[o].off = pos[p]
BY DEF TypeOK, Live, Message

LEMMA ConsumeMessageTypes ==
    ASSUME PhpTypeOK, WaitInv, NEW p \in Partitions, NEW o \in Obj, ConsumeMessage(p, o)
    PROVE  PhpTypeOK'
<1> USE DEF pauseVars
<1> DEFINE h == [x \in Live \cup {o} |->
                     IF x = o THEN [part |-> p, off |-> pos[p]] ELSE heap[x]]
<1>0. TypeOK
  BY DEF PhpTypeOK
<1>1. /\ DOMAIN h = Live \cup {o} /\ o \in DOMAIN h /\ Live \subseteq DOMAIN h
      /\ h \in [DOMAIN h -> Message] /\ DOMAIN h \subseteq Obj
      /\ \A x \in Live : h[x] = heap[x]
  <2>1. o \notin Live
    BY DEF ConsumeMessage, PollHandle
  <2>2. h = [x \in Live \cup {o} |->
                IF x = o THEN [part |-> p, off |-> pos[p]] ELSE heap[x]]
    OBVIOUS
  <2> HIDE DEF h
  <2> QED
    BY <1>0, <2>1, <2>2, Polled
<1>2. /\ Keep(p, o, h) /\ pos' = [pos EXCEPT ![p] = @ + 1]
      /\ pollPc' = AfterPoll
      /\ UNCHANGED <<mode, startFlag, appPc, cur, ucommit, pauseVars, due,
                     assigned, committed, done, quiet, restarted, crashed,
                     orderly>>
      /\ pos[p] \in Nat
      /\ mixed' \in BOOLEAN
  BY <1>0 DEF ConsumeMessage, TypeOK, PhpTypeOK
<1> HIDE DEF h
<1>3. pos' \in [Partitions -> Nat] /\ pollPc' \in {"idle", "tick"} /\ <<p, pos[p]>> \in Partitions \X Nat
  BY <1>0, <1>2 DEF TypeOK, AfterPoll
<1>a. /\ owed' \in [Partitions -> Nat] /\ displaced' \subseteq Partitions
      /\ got' \in {<<>>} \cup (Partitions \X Nat)
  <2>1. CASE mode = "internal"
    <3>1. pos[p] + 1 \in Nat
      BY <1>2
    <3>2. /\ owed' = [owed EXCEPT ![p] = pos[p] + 1]
          /\ displaced' \subseteq displaced \cup Partitions
          /\ got' = <<p, pos[p]>>
      BY <1>2, <2>1 DEF Keep, Register
    <3> QED
      BY <1>3, <3>1, <3>2 DEF PhpTypeOK
  <2>2. CASE mode # "internal"
    BY <1>2, <1>3, <2>2 DEF Keep, PhpTypeOK
  <2> QED
    BY <2>1, <2>2
<1>b. /\ DOMAIN heap' \subseteq Obj
      /\ heap' \in [DOMAIN heap' -> Message]
      /\ misuse' \in BOOLEAN
      /\ DOMAIN waitCommit' \subseteq Keys
      /\ waitCommit' \in [DOMAIN waitCommit' -> Obj]
      /\ waitDestroy' \in [Keys -> Seq(Obj)]
      /\ held' \subseteq Obj
  <2>1. CASE mode = "auto"
    BY <1>0, <1>2, <2>1 DEF Keep, TypeOK, Live
  <2>2. CASE mode = "internal"
    <3>1. AddWaitCommitOffset(o, h) /\ UNCHANGED <<waitDestroy, held>>
      BY <1>2, <2>2 DEF Keep
    <3>2. /\ DOMAIN heap' \subseteq Obj
          /\ heap' \in [DOMAIN heap' -> Message]
          /\ misuse' \in BOOLEAN
          /\ DOMAIN waitCommit' \subseteq Keys
          /\ waitCommit' \in [DOMAIN waitCommit' -> Obj]
      BY <1>0, <1>1, <3>1, AddWaitTypes
    <3> QED
      BY <1>0, <3>1, <3>2 DEF TypeOK
  <2>3. CASE mode = "user"
    <3>1. /\ heap' = h /\ held' = held \cup {o} /\ UNCHANGED <<waitCommit, misuse>>
          /\ waitDestroy' = [waitDestroy EXCEPT ![KeyOf[p]] = Append(@, o)]
      BY <1>2, <2>3 DEF Keep
    <3>2. waitDestroy' \in [Keys -> Seq(Obj)]
      BY <1>0, <3>1, AppendLists
    <3> QED
      BY <1>0, <1>1, <3>1, <3>2 DEF TypeOK
  <2> QED
    BY <1>0, <2>1, <2>2, <2>3 DEF TypeOK
<1>4. TypeOK'
  BY <1>0, <1>2, <1>3, <1>b DEF TypeOK, Live
<1> QED
  BY <1>2, <1>4, <1>a DEF PhpTypeOK

LEMMA PhpCommitTypes ==
    ASSUME PhpTypeOK, NEW o \in Obj, PhpCommit(o)
    PROVE  PhpTypeOK'
<1> USE DEF pauseVars, brokerVars
<1>0. TypeOK
  BY DEF PhpTypeOK
<1>1. /\ UserCommit(o) /\ UNCHANGED <<got, quiet, restarted, crashed, mixed, orderly>>
      /\ UNCHANGED <<mode, startFlag, pollPc, appPc, cur, pauseVars, due, brokerVars>>
  BY DEF PhpCommit, UserCommit
<1>2. CASE o \in Live
  <2>1. heap[o].part \in Partitions /\ heap[o].off \in Nat
    BY <1>0, <1>2 DEF TypeOK, Live, Message
  <2>2. heap[o].off + 1 \in Nat
    BY <2>1
  <2>3. Register(heap[o].part, heap[o].off + 1)
    BY <1>2 DEF PhpCommit
  <2>4. owed' \in [Partitions -> Nat] /\ displaced' \subseteq Partitions
    BY <2>1, <2>2, <2>3 DEF Register, PhpTypeOK
  <2>5. /\ AddWaitCommitOffset(o, heap)
        /\ Processed(heap[o].part, heap[o].off + 1)
        /\ held' \subseteq held /\ ucommit' = o /\ waitDestroy' = waitDestroy
    BY <1>1, <1>2 DEF UserCommit, ReadDestroyed
  <2>6. /\ DOMAIN heap' \subseteq Obj
        /\ heap' \in [DOMAIN heap' -> Message]
        /\ misuse' \in BOOLEAN
        /\ DOMAIN waitCommit' \subseteq Keys
        /\ waitCommit' \in [DOMAIN waitCommit' -> Obj]
    BY <1>0, <1>2, <2>5, AddWaitTypes DEF TypeOK, Live
  <2>7. done' \in [Partitions -> Nat]
    BY <1>0, <2>1, <2>2, <2>5 DEF TypeOK, Processed
  <2>8. TypeOK'
    BY <1>0, <1>1, <2>5, <2>6, <2>7 DEF TypeOK, Live
  <2> QED
    BY <1>1, <2>4, <2>8 DEF PhpTypeOK
<1>3. CASE o \notin Live
  <2>1. ReadDestroyed /\ held' \subseteq held /\ UNCHANGED <<owed, displaced>>
    BY <1>1, <1>3 DEF UserCommit, PhpCommit
  <2>2. TypeOK'
    BY <1>0, <1>1, <2>1 DEF ReadDestroyed, TypeOK, Live
  <2> QED
    BY <1>1, <2>1, <2>2 DEF PhpTypeOK
<1> QED
  BY <1>2, <1>3

LEMMA CalmTypes ==
    ASSUME PhpTypeOK, CalmStep
    PROVE  PhpTypeOK'
<1> USE DEF pauseVars, waitVars, brokerVars, userVars, threadVars, phpVars, PhpTypeOK
<1>0. TypeOK
  OBVIOUS
<1>1. CASE Consume \/ ConsumeNothing
  <2>1. /\ pollPc' \in {"idle", "poll", "tick"}
        /\ UNCHANGED <<mode, startFlag, appPc, cur, ucommit, pauseVars, waitVars,
                       heap, brokerVars, userVars, misuse, phpVars>>
    BY <1>1 DEF Consume, ConsumeNothing, AfterPoll
  <2> QED
    BY <1>0, <2>1 DEF TypeOK, Live
<1>2. CASE PollNullHandle
  BY <1>0, <1>2 DEF PollNullHandle, vars, TypeOK, Live
<1>3. ASSUME NEW p \in Partitions, ConsumeEmpty(p) PROVE PhpTypeOK'
  <2>1. pos[p] \in Nat /\ pos[p] + 1 \in Nat
    BY <1>0 DEF TypeOK
  <2>2. /\ pollPc' \in {"idle", "tick"} /\ pos' \in [Partitions -> Nat]
        /\ done' \in [Partitions -> Nat]
    BY <1>0, <1>3, <2>1 DEF ConsumeEmpty, AfterPoll, Processed, TypeOK
  <2>3. UNCHANGED <<mode, startFlag, appPc, cur, ucommit, pauseVars, waitVars,
                    heap, assigned, committed, held, misuse, phpVars>>
    BY <1>3 DEF ConsumeEmpty
  <2> QED
    BY <1>0, <2>2, <2>3 DEF TypeOK, Live
<1>4. ASSUME NEW S \in SUBSET Partitions, PhpAssign(S) PROVE PhpTypeOK'
  BY <1>0, <1>4 DEF PhpAssign, Assign, TypeOK, Live
<1>5. CASE PhpRebalanceError
  <2>1. /\ assigned' = {} /\ hasAssigned' = FALSE /\ paused' = {} /\ quiet' = {}
        /\ UNCHANGED <<mode, threadVars, pauseReq, tps, waitVars, heap, pos, committed,
                       userVars, misuse, got, owed, restarted, crashed, displaced, mixed>>
        /\ orderly' = (orderly /\ DOMAIN waitCommit = {})
    BY <1>5 DEF PhpRebalanceError, RebalanceError
  <2>2. TypeOK'
    <3>1. /\ assigned' \subseteq Partitions /\ paused' \subseteq Partitions
          /\ hasAssigned' \in BOOLEAN
          /\ UNCHANGED <<mode, threadVars, pauseReq, tps, waitVars, heap, pos, committed,
                         userVars, misuse>>
      BY <2>1
    <3> QED
      BY <1>0, <3>1 DEF TypeOK, Live
  <2>3. orderly' \in BOOLEAN
    BY <2>1
  <2> QED
    BY <2>1, <2>2, <2>3
<1>6. CASE Process
  <2>1. got[1] \in Partitions /\ got[2] \in Nat
    BY <1>6 DEF Process
  <2>2. got[2] + 1 \in Nat
    BY <2>1
  <2>3. done' \in [Partitions -> Nat]
    BY <1>0, <1>6, <2>1, <2>2 DEF Process, Processed, TypeOK
  <2>4. /\ got' = <<>>
        /\ UNCHANGED <<mode, threadVars, pauseVars, waitVars, heap, brokerVars, held,
                   misuse, owed, quiet, restarted, crashed, displaced, mixed, orderly>>
    BY <1>6 DEF Process
  <2> QED
    BY <1>0, <2>3, <2>4 DEF TypeOK, Live
<1>7. CASE PhpStart
  BY <1>0, <1>7 DEF PhpStart, TypeOK, Live
<1>8. CASE PhpStop
  <2>1. CASE Stop /\ UNCHANGED phpVars
    <3>1. /\ startFlag' = FALSE /\ tps' = {} /\ appPc' = "joining"
          /\ UNCHANGED <<mode, pollPc, cur, ucommit, pauseReq, hasAssigned, paused, waitVars,
                         heap, brokerVars, userVars, misuse>>
      BY <2>1 DEF Stop
    <3>2. TypeOK'
      BY <1>0, <3>1 DEF TypeOK, Live
    <3> QED
      BY <2>1, <3>2
  <2>2. CASE ~Stop
    <3>1. /\ appPc' = "closing"
          /\ UNCHANGED <<mode, startFlag, pollPc, cur, ucommit, pauseVars, waitVars,
                         heap, brokerVars, userVars, misuse, phpVars>>
      BY <1>8, <2>2 DEF PhpStop
    <3>2. TypeOK'
      BY <1>0, <3>1 DEF TypeOK, Live
    <3> QED
      BY <3>1, <3>2
  <2> QED
    BY <1>8, <2>1, <2>2 DEF PhpStop
<1>9. CASE PhpStopClose /\ ~hasAssigned
  <2>1. /\ appPc' = "stopped" /\ quiet' = {}
        /\ UNCHANGED <<mode, startFlag, pollPc, cur, ucommit, pauseVars, waitVars,
                       heap, brokerVars, userVars, misuse, got, owed, restarted,
                       crashed, displaced, mixed, orderly>>
    BY <1>9 DEF PhpStopClose, StopClose
  <2> QED
    BY <1>0, <2>1 DEF TypeOK, Live
<1>10. ASSUME NEW ts \in PauseSets, Pause(ts) \/ Resume(ts) PROVE PhpTypeOK'
  <2>1. paused' \subseteq Partitions /\ quiet' \subseteq Topics
    BY <1>0, <1>10 DEF Pause, Resume, TypeOK
  <2>2. UNCHANGED <<mode, threadVars, pauseReq, tps, hasAssigned, waitVars, heap,
                   brokerVars, userVars, misuse, got, owed, restarted, crashed, displaced, mixed, orderly>>
    BY <1>10 DEF Pause, Resume
  <2> QED
    BY <1>0, <2>1, <2>2 DEF TypeOK, Live
<1>11. ASSUME NEW p \in Partitions, GroupStep(p) PROVE PhpTypeOK'
  <2>1. committed' \in [Partitions -> Nat] /\ done' \in [Partitions -> Nat]
    <3>1. committed \in [Partitions -> Nat] /\ done \in [Partitions -> Nat] /\ pos[p] \in Nat
      BY <1>0 DEF TypeOK
    <3>2. CASE AutoCommit(p)
      BY <3>1, <3>2 DEF AutoCommit
    <3>3. CASE OtherProcesses(p)
      BY <3>1, <3>3 DEF OtherProcesses
    <3>4. CASE OtherCommits(p)
      BY <3>1, <3>4 DEF OtherCommits
    <3> QED
      BY <1>11, <3>2, <3>3, <3>4 DEF GroupStep
  <2>2. UNCHANGED <<mode, threadVars, pauseVars, waitVars, heap, assigned, pos,
                    held, misuse, phpVars>>
    BY <1>11 DEF GroupStep, AutoCommit, OtherProcesses, OtherCommits
  <2> QED
    BY <1>0, <1>11, <2>1, <2>2 DEF TypeOK, Live
<1>12. CASE TimePasses /\ UNCHANGED phpVars
  BY <1>0, <1>12 DEF TimePasses, TypeOK, Live
<1>13. CASE UNCHANGED allVars
  BY <1>0, <1>13 DEF allVars, vars, TypeOK, Live
<1> QED
  BY <1>1, <1>2, <1>3, <1>4, <1>5, <1>6, <1>7, <1>8, <1>9, <1>10, <1>11, <1>12, <1>13
     DEF CalmStep

LEMMA RoundTypes ==
    ASSUME PhpTypeOK, CallsInv,
           ConsumeTick \/ PhpRevoke \/ PhpStopCommit \/ (PhpStopClose /\ hasAssigned)
    PROVE  PhpTypeOK'
<1> USE DEF pauseVars, waitVars, brokerVars, userVars, threadVars, PhpTypeOK
<1>0. TypeOK
  OBVIOUS
<1>1. ASSUME NEW face, Settle(face) PROVE owed' \in [Partitions -> Nat]
  BY <1>1 DEF Settle
<1>2. \E face \in BOOLEAN : CommitUnlessAuto(face) /\ Settle(face)
  <2>1. CASE ConsumeTick
    <3>1. CommitUnlessAuto(FALSE) /\ Settle(FALSE)
      BY <2>1 DEF ConsumeTick, CallsInv, CommitUnlessAuto
    <3> QED
      BY <3>1
  <2>2. CASE PhpRevoke \/ PhpStopCommit \/ (PhpStopClose /\ hasAssigned)
    <3>1. CommitUnlessAuto(TRUE) /\ Settle(TRUE)
      BY <2>2 DEF PhpRevoke, Revoke, RevokeCallback, PhpStopCommit, PhpStopClose, StopClose
    <3> QED
      BY <3>1
  <2> QED
    BY <2>1, <2>2
<1>3. PICK face \in BOOLEAN : CommitUnlessAuto(face) /\ Settle(face)
  BY <1>2
<1>4. owed' \in [Partitions -> Nat]
  BY <1>1, <1>3
<1>5. /\ committed' \in [Partitions -> Nat]
      /\ DOMAIN heap' \subseteq Obj
      /\ heap' \in [DOMAIN heap' -> Message]
      /\ misuse' \in BOOLEAN
      /\ DOMAIN waitCommit' \subseteq Keys
      /\ waitCommit' \in [DOMAIN waitCommit' -> Obj]
      /\ due' \in BOOLEAN
  BY <1>0, <1>3, CommitTypes
<1>6. CASE ConsumeTick
  BY <1>0, <1>4, <1>5, <1>6 DEF ConsumeTick, TypeOK, Live
<1>7. CASE PhpRevoke
  BY <1>0, <1>4, <1>5, <1>7 DEF PhpRevoke, Revoke, RevokeCallback, TypeOK, Live
<1>8. CASE PhpStopCommit
  BY <1>0, <1>4, <1>5, <1>8 DEF PhpStopCommit, TypeOK, Live
<1>9. CASE PhpStopClose /\ hasAssigned
  BY <1>0, <1>4, <1>5, <1>9 DEF PhpStopClose, StopClose, RevokeCallback, TypeOK, Live
<1> QED
  BY <1>6, <1>7, <1>8, <1>9

LEMMA UserTypes ==
    ASSUME PhpTypeOK, FiledInv, PhpCommitEnd \/ PhpStopClear
    PROVE  PhpTypeOK'
<1> USE DEF pauseVars, waitVars, brokerVars, userVars, phpVars, PhpTypeOK
<1>0. TypeOK
  OBVIOUS
<1>1. CASE PhpCommitEnd
  <2>1. ucommit \in Live
    BY <1>1, WaitingMember DEF PhpCommitEnd, UserCommitEnd, FiledInv, WaitInv
  <2>2. /\ RemoveWaitDestroyMsgs(ucommit) /\ ucommit' = None /\ UNCHANGED <<waitCommit, done>>
        /\ UNCHANGED <<mode, startFlag, pollPc, appPc, cur, pauseVars, due, brokerVars, held>>
        /\ UNCHANGED phpVars
    BY <1>1, <2>1 DEF PhpCommitEnd, UserCommitEnd
  <2>3. /\ DOMAIN heap' \subseteq Obj
        /\ heap' \in [DOMAIN heap' -> Message]
        /\ misuse' \in BOOLEAN
        /\ waitDestroy' \in [Keys -> Seq(Obj)]
    BY <1>0, <2>1, <2>2, RemoveTypes
  <2> QED
    BY <1>0, <2>2, <2>3 DEF TypeOK, Live
<1>2. CASE PhpStopClear
  <2>1. /\ heap' = Restrict(heap, Live \ Listed)
        /\ misuse' \in BOOLEAN /\ held' = {} /\ appPc' = "closing"
        /\ UNCHANGED <<mode, startFlag, pollPc, cur, ucommit, pauseVars, waitVars,
                       brokerVars, done, phpVars>>
    BY <1>0, <1>2 DEF PhpStopClear, StopClear, ClearWaitDestroyMsgs, TypeOK
  <2>2. DOMAIN heap' \subseteq Obj /\ heap' \in [DOMAIN heap' -> Message]
    BY <1>0, <2>1 DEF TypeOK, Live, Restrict
  <2>3. TypeOK'
    BY <1>0, <2>1, <2>2 DEF TypeOK, Live
  <2> QED
    BY <2>1, <2>3
<1> QED
  BY <1>1, <1>2

LEMMA PhpTypesStep ==
    ASSUME PhpInv, [PhpNext]_allVars
    PROVE  PhpTypeOK'
<1>0. PhpTypeOK /\ CallsInv /\ FiledInv /\ WaitInv
  BY DEF PhpInv, FiledInv
<1>1. ASSUME NEW p \in Partitions, NEW o \in Obj, ConsumeMessage(p, o) PROVE PhpTypeOK'
  BY <1>0, <1>1, ConsumeMessageTypes
<1>2. ASSUME NEW o \in Obj, PhpCommit(o) PROVE PhpTypeOK'
  BY <1>0, <1>2, PhpCommitTypes
<1> QED
  BY <1>0, <1>1, <1>2, Kinds, CalmTypes, RoundTypes, UserTypes

-----------------------------------------------------------------------------
(* Where the calls can be *)

LEMMA CallsStep ==
    ASSUME PhpTypeOK, CallsInv, GoneInv, [PhpNext]_allVars
    PROVE  CallsInv'
<1> USE DEF pauseVars, waitVars, brokerVars, userVars, threadVars, phpVars, CallsInv
<1>1. CASE Consume
  BY <1>1 DEF Consume, Script
<1>2. CASE PollNullHandle
  BY <1>2 DEF PollNullHandle, vars
<1>3. CASE ConsumeNothing
  BY <1>3 DEF ConsumeNothing, PollHandle, AfterPoll
<1>4. CASE ConsumeTick
  BY <1>4 DEF ConsumeTick
<1>5. ASSUME NEW p \in Partitions, ConsumeEmpty(p) PROVE CallsInv'
  BY <1>5 DEF ConsumeEmpty, PollHandle, AfterPoll
<1>6. ASSUME NEW p \in Partitions, NEW o \in Obj, ConsumeMessage(p, o) PROVE CallsInv'
  <2>1. /\ UNCHANGED <<mode, startFlag, appPc, ucommit, restarted, crashed>>
        /\ pollPc = "poll" /\ pollPc' = AfterPoll
    BY <1>6 DEF ConsumeMessage, PollHandle
  <2> QED
    BY <2>1 DEF AfterPoll
<1>7. ASSUME NEW S \in SUBSET Partitions, PhpAssign(S) PROVE CallsInv'
  BY <1>7 DEF PhpAssign, Assign
<1>8. CASE PhpRevoke \/ PhpRebalanceError
  <2>1. UNCHANGED <<mode, startFlag, pollPc, appPc, ucommit, got, restarted, crashed>>
    BY <1>8 DEF PhpRevoke, Revoke, PhpRebalanceError, RebalanceError
  <2> QED
    BY <2>1
<1>9. CASE Process
  BY <1>9 DEF Process, Script
<1>10. CASE PhpStart
  BY <1>10 DEF PhpStart, Script
<1>11. CASE PhpStop
  BY <1>11 DEF PhpStop, Stop, Script
<1>12. CASE PhpStopCommit
  BY <1>12 DEF PhpStopCommit
<1>13. CASE PhpStopClear
  BY <1>13 DEF PhpStopClear, StopClear
<1>14. CASE PhpStopClose
  BY <1>14 DEF PhpStopClose, StopClose
<1>15. CASE Ended
  BY <1>15 DEF Ended, allVars, vars
<1>16. ASSUME NEW o \in Obj, PhpCommit(o) PROVE CallsInv'
  <2>1. /\ o \in held /\ mode = "user" /\ appPc = "run" /\ pollPc = "idle"
        /\ UNCHANGED <<mode, startFlag, pollPc, appPc, got, restarted, crashed>>
    BY <1>16 DEF PhpCommit, Script, UserCommit, MayCommit, PhpAssumption
  <2>2. ~restarted
    BY <2>1 DEF GoneInv, NothingLeft
  <2> QED
    BY <2>1, <2>2
<1>17. CASE PhpCommitEnd
  BY <1>17 DEF PhpCommitEnd, UserCommitEnd, ReadDestroyed
<1>18. ASSUME NEW ts \in PauseSets, Pause(ts) \/ Resume(ts) PROVE CallsInv'
  BY <1>18 DEF Pause, Resume
<1>19. ASSUME NEW p \in Partitions, GroupStep(p) PROVE CallsInv'
  BY <1>19 DEF GroupStep, AutoCommit, OtherProcesses, OtherCommits
<1>20. CASE TimePasses /\ UNCHANGED phpVars
  BY <1>20 DEF TimePasses
<1>21. CASE UNCHANGED allVars
  BY <1>21 DEF allVars, vars
<1> QED
  BY <1>1, <1>2, <1>3, <1>4, <1>5, <1>6, <1>7, <1>8, <1>9, <1>10, <1>11, <1>12, <1>13,
     <1>14, <1>15, <1>16, <1>17, <1>18, <1>19, <1>20, <1>21
     DEF PhpNext, ConsumeCall, OtherCalls, GroupStep

-----------------------------------------------------------------------------
(* What is left before start() and after stop() *)

LEMMA CalmGone ==
    ASSUME PhpInv, CalmStep
    PROVE  GoneInv'
<1> USE DEF pauseVars, waitVars, brokerVars, userVars, threadVars, phpVars
<1>0. CallsInv /\ GoneInv
  BY DEF PhpInv
<1>1. UNCHANGED <<mode, waitCommit, waitDestroy, heap, held>>
  BY CalmSteps DEF Calm, mapVars
<1>2. /\ mode' = "auto" => Live' = {} /\ DOMAIN waitCommit' = {}
      /\ mode' # "user" => held' = {} /\ \A k \in Keys : waitDestroy'[k] = <<>>
  BY <1>0, <1>1 DEF GoneInv, Live
<1>3. /\ appPc' \in {"ready", "closing", "stopped"} \/ restarted' =>
            appPc \in {"ready", "closing", "stopped"} \/ restarted
      /\ appPc' \in {"ready", "stopped"} \/ restarted' => ~hasAssigned'
      /\ appPc' \in StopPast => appPc \in StopPast \cup {"ready"}
  <2> USE DEF StopPast
  <2>1. CASE Consume
    BY <1>0, <2>1 DEF Consume, GoneInv
  <2>2. CASE PollNullHandle
    BY <1>0, <2>2 DEF PollNullHandle, vars, GoneInv
  <2>3. CASE ConsumeNothing
    BY <1>0, <2>3 DEF ConsumeNothing, GoneInv
  <2>4. ASSUME NEW p \in Partitions, ConsumeEmpty(p)
        PROVE  UNCHANGED <<appPc, restarted, hasAssigned>>
    BY <2>4 DEF ConsumeEmpty
  <2>5. ASSUME NEW S \in SUBSET Partitions, PhpAssign(S)
        PROVE  UNCHANGED <<appPc, restarted>> /\ appPc = "run" /\ ~restarted
    BY <1>0, <2>5 DEF PhpAssign, Assign, CallsInv
  <2>6. CASE PhpRebalanceError
    BY <1>0, <2>6 DEF PhpRebalanceError, RebalanceError, GoneInv
  <2>7. CASE Process
    BY <1>0, <2>7 DEF Process, GoneInv
  <2>8. CASE PhpStart
    BY <1>0, <2>8 DEF PhpStart, Script, CallsInv, GoneInv
  <2>9. CASE PhpStop
    BY <1>0, <2>9 DEF PhpStop, Stop, Script, CallsInv, GoneInv
  <2>10. CASE PhpStopClose /\ ~hasAssigned
    BY <1>0, <2>10 DEF PhpStopClose, StopClose, GoneInv
  <2>11. ASSUME NEW ts \in PauseSets, Pause(ts) \/ Resume(ts)
         PROVE  UNCHANGED <<appPc, restarted, hasAssigned>>
    BY <2>11 DEF Pause, Resume
  <2>12. ASSUME NEW p \in Partitions, GroupStep(p)
         PROVE  UNCHANGED <<appPc, restarted, hasAssigned>>
    BY <2>12 DEF GroupStep, AutoCommit, OtherProcesses, OtherCommits
  <2>13. CASE TimePasses /\ UNCHANGED phpVars
    BY <1>0, <2>13 DEF TimePasses, GoneInv
  <2>14. CASE UNCHANGED allVars
    BY <1>0, <2>14 DEF allVars, vars, GoneInv
  <2>15. CASE UNCHANGED <<appPc, restarted, hasAssigned>>
    BY <1>0, <2>15 DEF GoneInv
  <2> QED
    BY <2>1, <2>2, <2>3, <2>4, <2>5, <2>6, <2>7, <2>8, <2>9, <2>10, <2>11, <2>12, <2>13,
       <2>14, <2>15 DEF CalmStep
<1> QED
  BY <1>0, <1>1, <1>2, <1>3 DEF GoneInv, NothingLeft, Live, StopPast

LEMMA RoundGone ==
    ASSUME PhpInv, ConsumeTick \/ PhpRevoke \/ PhpStopCommit \/ (PhpStopClose /\ hasAssigned)
    PROVE  GoneInv'
<1> USE DEF pauseVars, waitVars, brokerVars, userVars, threadVars
<1>0. CallsInv /\ GoneInv /\ TypeOK /\ WaitInv /\ Live \subseteq Waiting \cup Listed
  BY DEF PhpInv, PhpTypeOK, FiledInv
<1>1. PICK face \in BOOLEAN : Round(face)
  BY Rounds
<1>2. /\ CommitUnlessAuto(face) /\ UNCHANGED <<mode, waitDestroy, held, restarted>>
  BY <1>1 DEF Round
<1>3. /\ Live' \subseteq Live
      /\ \A k \in DOMAIN waitCommit' : k \in DOMAIN waitCommit
  BY <1>0, <1>2, CommitKeys
<1>4. /\ mode' = "auto" => Live' = {} /\ DOMAIN waitCommit' = {}
      /\ mode' # "user" => held' = {} /\ \A k \in Keys : waitDestroy'[k] = <<>>
      /\ NothingLeft => NothingLeft'
  BY <1>0, <1>2, <1>3 DEF GoneInv, NothingLeft
<1>5. CASE ConsumeTick
  <2>1. UNCHANGED <<appPc, hasAssigned, restarted>>
    BY <1>5 DEF ConsumeTick
  <2>2. DOMAIN waitCommit = {} => DOMAIN waitCommit' = {}
    BY <1>3
  <2> QED
    BY <1>0, <1>4, <2>1, <2>2 DEF GoneInv
<1>6. CASE PhpRevoke
  BY <1>0, <1>2, <1>4, <1>6 DEF PhpRevoke, Revoke, CallsInv, GoneInv, StopPast
<1>7. CASE PhpStopCommit
  <2>1. /\ CommitUnlessAuto(TRUE) /\ appPc' = (IF mode = "user" THEN "clearing" ELSE "closing")
        /\ hasAssigned' = hasAssigned
    BY <1>7 DEF PhpStopCommit
  <2>2. mode = "auto" \/ (Live' = Live \ Waiting /\ DOMAIN waitCommit' = {})
    <3>1. \/ UNCHANGED <<committed, heap, waitCommit>> /\ (TRUE => mode = "auto")
          \/ Live' = Live \ Waiting /\ DOMAIN waitCommit' = {}
      BY <1>0, <2>1, CommitEffect
    <3> QED
      BY <3>1
  <2>3. DOMAIN waitCommit' = {}
    BY <1>2, <1>4, <2>2
  <2>4. mode # "user" => Listed = {}
    BY <1>0 DEF GoneInv, Listed, Range
  <2>5. mode # "user" => NothingLeft'
    BY <1>0, <1>2, <1>4, <2>2, <2>3, <2>4 DEF NothingLeft
  <2> QED
    BY <1>0, <1>2, <1>4, <2>1, <2>3, <2>5 DEF GoneInv, StopPast
<1>8. CASE PhpStopClose /\ hasAssigned
  <2>1. appPc = "closing" /\ appPc' = "stopped" /\ hasAssigned' = FALSE
    BY <1>8 DEF PhpStopClose, StopClose, RevokeCallback
  <2> QED
    BY <1>0, <1>2, <1>4, <2>1 DEF GoneInv, NothingLeft, StopPast
<1> QED
  BY <1>5, <1>6, <1>7, <1>8

LEMMA GoneStep ==
    ASSUME PhpInv, [PhpNext]_allVars
    PROVE  GoneInv'
<1> USE DEF pauseVars, waitVars, brokerVars, userVars, phpVars
<1>0. CallsInv /\ GoneInv /\ Live \subseteq Waiting \cup Listed /\ heap \in [Live -> Message]
  BY DEF PhpInv, FiledInv, PhpTypeOK, TypeOK
<1>1. ASSUME NEW p \in Partitions, NEW o \in Obj, ConsumeMessage(p, o) PROVE GoneInv'
  <2>1. /\ appPc = "run" /\ ~restarted
        /\ UNCHANGED <<mode, appPc, restarted, hasAssigned>>
    BY <1>0, <1>1 DEF ConsumeMessage, PollHandle, CallsInv
  <2>2. mode = "auto" => UNCHANGED <<heap, waitCommit, waitDestroy, held>>
    BY <1>1 DEF ConsumeMessage, Keep
  <2>3. mode = "internal" => UNCHANGED <<waitDestroy, held>>
    BY <1>1 DEF ConsumeMessage, Keep
  <2>4. mode \in {"auto", "internal", "user"}
    BY DEF PhpInv, PhpTypeOK, TypeOK
  <2> QED
    BY <1>0, <2>1, <2>2, <2>3, <2>4 DEF GoneInv, StopPast, Live
<1>2. ASSUME NEW o \in Obj, PhpCommit(o) PROVE GoneInv'
  <2>1. /\ o \in held /\ mode = "user" /\ appPc = "run"
        /\ UNCHANGED <<mode, appPc, restarted, hasAssigned>>
    BY <1>2 DEF PhpCommit, UserCommit, MayCommit
  <2> QED
    BY <1>0, <2>1 DEF GoneInv, StopPast, NothingLeft
<1>3. CASE PhpCommitEnd
  <2>1. /\ mode = "user" /\ appPc = "run" /\ ~restarted
        /\ UNCHANGED <<mode, appPc, restarted, hasAssigned>>
    BY <1>0, <1>3 DEF PhpCommitEnd, UserCommitEnd, CallsInv
  <2> QED
    BY <1>0, <2>1 DEF GoneInv, StopPast
<1>4. CASE PhpStopClear
  <2>1. /\ heap' = Restrict(heap, Live \ Listed) /\ held' = {}
        /\ appPc = "clearing" /\ appPc' = "closing"
        /\ UNCHANGED <<mode, waitCommit, waitDestroy, restarted, hasAssigned>>
    BY <1>4 DEF PhpStopClear, StopClear, ClearWaitDestroyMsgs
  <2>2. DOMAIN waitCommit = {}
    BY <1>0, <2>1 DEF GoneInv, StopPast
  <2>3. Waiting = {}
    BY <2>2, WaitingMember
  <2>4. Live' = {}
    BY <1>0, <2>1, <2>3 DEF Live, Restrict
  <2> QED
    BY <1>0, <2>1, <2>2, <2>4 DEF GoneInv, NothingLeft, StopPast
<1> QED
  BY <1>1, <1>2, <1>3, <1>4, Kinds, CalmGone, RoundGone

-----------------------------------------------------------------------------
(* The maps *)

\* What the second half of commitOffset() destroys is listed before the
\* message, and the lists lose what is destroyed and the message.
LEMMA RemoveLists ==
    ASSUME TypeOK, ListInv, ucommit \in Live, appPc \notin Ending,
           RemoveWaitDestroyMsgs(ucommit)
    PROVE  /\ misuse' = misuse
           /\ Live' \subseteq Live /\ \A x \in Live' : heap'[x] = heap[x]
           /\ \A x \in Live \ Live' :
                 \E i \in DOMAIN waitDestroy[Key(ucommit)] :
                    /\ waitDestroy[Key(ucommit)][i] = ucommit
                    /\ \E j \in 1 .. i : waitDestroy[Key(ucommit)][j] = x
           /\ \A k \in Keys : \E d \in Nat : \A n \in DOMAIN waitDestroy'[k] :
                 /\ n \in Nat /\ n + d \in DOMAIN waitDestroy[k]
                 /\ waitDestroy'[k][n] = waitDestroy[k][n + d]
                 /\ waitDestroy'[k][n] \in Live' /\ waitDestroy'[k][n] # ucommit
<1> DEFINE K == Key(ucommit)
           msgs == waitDestroy[K]
           d(k, i) == IF k = K THEN i ELSE 0
<1>0. TypeOK /\ ListInv
  OBVIOUS
<1>1. K \in Keys /\ \A k \in Keys : waitDestroy[k] \in Seq(Obj)
  BY <1>0 DEF TypeOK, Live, Key, Message
<1>2. ASSUME NEW k \in Keys, NEW i \in DOMAIN waitDestroy[k]
      PROVE  /\ i \in Nat
             /\ waitDestroy[k][i] \in Live /\ Key(waitDestroy[k][i]) = k
             /\ \A j \in DOMAIN waitDestroy[k] :
                   waitDestroy[k][j] = waitDestroy[k][i] => i = j
  BY <1>0, <1>1 DEF ListInv, Ending
<1>4. CASE ucommit \notin Range(msgs) /\ UNCHANGED <<heap, waitDestroy, misuse>>
  <2>1. Live' = Live
    BY <1>4 DEF Live
  <2>2. ASSUME NEW k \in Keys, NEW n \in DOMAIN waitDestroy'[k]
        PROVE  /\ n \in Nat /\ n + 0 \in DOMAIN waitDestroy[k]
               /\ waitDestroy'[k][n] = waitDestroy[k][n + 0]
               /\ waitDestroy'[k][n] \in Live' /\ waitDestroy'[k][n] # ucommit
    <3>1. n \in DOMAIN waitDestroy[k] /\ n \in Nat /\ n + 0 = n
      BY <1>2, <1>4
    <3>2. waitDestroy[k][n] \in Live /\ Key(waitDestroy[k][n]) = k
      BY <1>2, <3>1
    <3>3. waitDestroy[k][n] # ucommit
      BY <1>4, <3>1, <3>2 DEF Range
    <3> QED
      BY <1>4, <2>1, <3>1, <3>2, <3>3
  <2>3. \A k \in Keys : \E d0 \in Nat : \A n \in DOMAIN waitDestroy'[k] :
           /\ n \in Nat /\ n + d0 \in DOMAIN waitDestroy[k]
           /\ waitDestroy'[k][n] = waitDestroy[k][n + d0]
           /\ waitDestroy'[k][n] \in Live' /\ waitDestroy'[k][n] # ucommit
    BY <2>2
  <2> QED
    BY <1>4, <2>1, <2>3
<1>5. ASSUME NEW i \in DOMAIN msgs,
             msgs[i] = ucommit,
             heap' = Restrict(heap, Live \ {msgs[j] : j \in 1 .. i - 1}),
             misuse' = (misuse \/ ~({msgs[j] : j \in 1 .. i - 1} \subseteq Live)),
             waitDestroy' = [waitDestroy EXCEPT ![K] = SubSeq(@, i + 1, Len(@))]
      PROVE  /\ misuse' = misuse
             /\ Live' \subseteq Live /\ \A x \in Live' : heap'[x] = heap[x]
             /\ \A x \in Live \ Live' : \E j \in 1 .. i : msgs[j] = x
             /\ \A k \in Keys : \E d0 \in Nat : \A n \in DOMAIN waitDestroy'[k] :
                   /\ n \in Nat /\ n + d0 \in DOMAIN waitDestroy[k]
                   /\ waitDestroy'[k][n] = waitDestroy[k][n + d0]
                   /\ waitDestroy'[k][n] \in Live' /\ waitDestroy'[k][n] # ucommit
  <2> DEFINE B == {msgs[j] : j \in 1 .. i - 1}
  <2>1. DOMAIN msgs = 1 .. Len(msgs) /\ Len(msgs) \in Nat /\ i \in 1 .. Len(msgs)
    BY <1>1
  <2>2. Live' = Live \ B /\ \A x \in Live' : heap'[x] = heap[x]
    BY <1>5 DEF Live, Restrict
  <2>3. ASSUME NEW x \in B
        PROVE  x \in Live /\ \E j \in 1 .. i : j \in DOMAIN msgs /\ j # i /\ msgs[j] = x
    <3>1. PICK j \in 1 .. i - 1 : x = msgs[j]
      OBVIOUS
    <3>2. j \in DOMAIN msgs /\ j # i /\ j \in 1 .. i
      BY <2>1
    <3> QED
      BY <1>1, <1>2, <3>1, <3>2
  <2>4. \A k \in Keys : k # K => waitDestroy'[k] = waitDestroy[k]
    BY <1>0, <1>5 DEF TypeOK
  <2>5. /\ DOMAIN waitDestroy'[K] = 1 .. Len(msgs) - i
        /\ \A n \in DOMAIN waitDestroy'[K] :
              n + i \in DOMAIN msgs /\ waitDestroy'[K][n] = msgs[n + i]
    <3>1. waitDestroy'[K] = SubSeq(msgs, i + 1, Len(msgs))
      BY <1>0, <1>1, <1>5 DEF TypeOK
    <3>2. /\ DOMAIN SubSeq(msgs, i + 1, Len(msgs)) = 1 .. Len(msgs) - i
          /\ \A n \in DOMAIN SubSeq(msgs, i + 1, Len(msgs)) :
                /\ n + i \in DOMAIN msgs
                /\ SubSeq(msgs, i + 1, Len(msgs))[n] = msgs[n + i]
      BY <1>1, TailAfter
    <3> QED
      BY <3>1, <3>2
  <2>6. ASSUME NEW n \in DOMAIN waitDestroy'[K]
        PROVE  /\ n \in Nat /\ n + i \in DOMAIN msgs
               /\ waitDestroy'[K][n] = msgs[n + i]
               /\ waitDestroy'[K][n] \in Live' /\ waitDestroy'[K][n] # ucommit
    <3>1. /\ n \in Nat /\ n + i \in DOMAIN msgs /\ waitDestroy'[K][n] = msgs[n + i]
          /\ ~(n + i \in 1 .. i) /\ n + i # i
      <4> HIDE DEF K, msgs
      <4> QED
        BY <2>1, <2>5
    <3>2. msgs[n + i] # ucommit
      BY <1>1, <1>2, <1>5, <3>1
    <3>3. ASSUME msgs[n + i] \in B PROVE FALSE
      <4>1. PICK j \in 1 .. i : j \in DOMAIN msgs /\ msgs[j] = msgs[n + i]
        BY <2>3, <3>3
      <4>2. j = n + i
        BY <1>1, <1>2, <3>1, <4>1
      <4> QED
        BY <3>1, <4>1, <4>2
    <3>4. msgs[n + i] \in Live
      BY <1>1, <1>2, <3>1
    <3> QED
      BY <2>2, <3>1, <3>2, <3>3, <3>4
  <2>7. ASSUME NEW k \in Keys, k # K, NEW n \in DOMAIN waitDestroy'[k]
        PROVE  /\ n \in Nat /\ n + 0 \in DOMAIN waitDestroy[k]
               /\ waitDestroy'[k][n] = waitDestroy[k][n + 0]
               /\ waitDestroy'[k][n] \in Live' /\ waitDestroy'[k][n] # ucommit
    <3>1. n \in DOMAIN waitDestroy[k] /\ waitDestroy'[k][n] = waitDestroy[k][n]
      BY <2>4, <2>7
    <3>2. n \in Nat /\ n + 0 = n /\ waitDestroy[k][n] \in Live /\ Key(waitDestroy[k][n]) = k
      BY <1>2, <3>1
    <3>3. ASSUME waitDestroy[k][n] \in B PROVE FALSE
      <4>1. PICK j \in 1 .. i : j \in DOMAIN msgs /\ msgs[j] = waitDestroy[k][n]
        BY <2>3, <3>3
      <4>2. Key(msgs[j]) = K
        BY <1>1, <1>2, <4>1
      <4> QED
        BY <2>7, <3>2, <4>1, <4>2
    <3> QED
      BY <2>2, <2>7, <3>1, <3>2, <3>3
  <2>8. \A k \in Keys : \E d0 \in Nat : \A n \in DOMAIN waitDestroy'[k] :
           /\ n \in Nat /\ n + d0 \in DOMAIN waitDestroy[k]
           /\ waitDestroy'[k][n] = waitDestroy[k][n + d0]
           /\ waitDestroy'[k][n] \in Live' /\ waitDestroy'[k][n] # ucommit
    <3> SUFFICES ASSUME NEW k \in Keys
                 PROVE  \E d0 \in Nat : \A n \in DOMAIN waitDestroy'[k] :
                           /\ n \in Nat /\ n + d0 \in DOMAIN waitDestroy[k]
                           /\ waitDestroy'[k][n] = waitDestroy[k][n + d0]
                           /\ waitDestroy'[k][n] \in Live' /\ waitDestroy'[k][n] # ucommit
      OBVIOUS
    <3>1. CASE k = K
      <4>1. i \in Nat
        BY <2>1
      <4> QED
        BY <2>6, <3>1, <4>1
    <3>2. CASE k # K
      BY <2>7, <3>2
    <3> QED
      BY <3>1, <3>2
  <2>9. misuse' = misuse
    BY <1>0, <1>5, <2>3 DEF TypeOK
  <2>10. \A x \in Live \ Live' : \E j \in 1 .. i : msgs[j] = x
    BY <2>2, <2>3
  <2> QED
    BY <2>2, <2>8, <2>9, <2>10
<1> HIDE DEF K, msgs
<1>6. \/ ucommit \notin Range(msgs) /\ UNCHANGED <<heap, waitDestroy, misuse>>
      \/ \E i \in DOMAIN msgs :
            /\ msgs[i] = ucommit
            /\ heap' = Restrict(heap, Live \ {msgs[j] : j \in 1 .. i - 1})
            /\ misuse' = (misuse \/ ~({msgs[j] : j \in 1 .. i - 1} \subseteq Live))
            /\ waitDestroy' = [waitDestroy EXCEPT ![K] = SubSeq(@, i + 1, Len(@))]
  BY DEF RemoveWaitDestroyMsgs, K, msgs
<1>7. CASE \E i \in DOMAIN msgs :
            /\ msgs[i] = ucommit
            /\ heap' = Restrict(heap, Live \ {msgs[j] : j \in 1 .. i - 1})
            /\ misuse' = (misuse \/ ~({msgs[j] : j \in 1 .. i - 1} \subseteq Live))
            /\ waitDestroy' = [waitDestroy EXCEPT ![K] = SubSeq(@, i + 1, Len(@))]
  <2>1. PICK i \in DOMAIN msgs :
            /\ msgs[i] = ucommit
            /\ heap' = Restrict(heap, Live \ {msgs[j] : j \in 1 .. i - 1})
            /\ misuse' = (misuse \/ ~({msgs[j] : j \in 1 .. i - 1} \subseteq Live))
            /\ waitDestroy' = [waitDestroy EXCEPT ![K] = SubSeq(@, i + 1, Len(@))]
    BY <1>7
  <2>2. /\ misuse' = misuse
        /\ Live' \subseteq Live /\ \A x \in Live' : heap'[x] = heap[x]
        /\ \A x \in Live \ Live' : \E j \in 1 .. i : msgs[j] = x
        /\ \A k \in Keys : \E d0 \in Nat : \A n \in DOMAIN waitDestroy'[k] :
              /\ n \in Nat /\ n + d0 \in DOMAIN waitDestroy[k]
              /\ waitDestroy'[k][n] = waitDestroy[k][n + d0]
              /\ waitDestroy'[k][n] \in Live' /\ waitDestroy'[k][n] # ucommit
    BY <1>5, <2>1
  <2> QED
    BY <2>1, <2>2 DEF K, msgs
<1> QED
  BY <1>4, <1>6, <1>7 DEF K, msgs

\* Outside commitOffset() no message is in both maps.
LEMMA PhpDisjoint ==
    ASSUME PhpInv, ucommit = None
    PROVE  /\ Waiting \cap Listed = {}
           /\ \A k \in Keys : \A i \in DOMAIN waitDestroy[k] :
                 \A x \in DOMAIN waitCommit : waitCommit[x] # waitDestroy[k][i]
<1>0. TypeOK /\ GoneInv /\ FiledInv
  BY DEF PhpInv, PhpTypeOK
<1>1. ASSUME NEW k \in Keys, NEW i \in DOMAIN waitDestroy[k], NEW x \in DOMAIN waitCommit
      PROVE  waitCommit[x] # waitDestroy[k][i]
  <2>1. ~restarted /\ appPc \notin {"closing", "stopped"}
    BY <1>0, <1>1 DEF GoneInv, NothingLeft
  <2>2. waitDestroy[k][i] # None
    BY <1>0, <2>1 DEF FiledInv, ListInv, TypeOK
  <2> QED
    BY <1>0, <2>1, <2>2 DEF FiledInv, ListInv
<1>2. Waiting \cap Listed = {}
  BY <1>1, WaitingMember, ListedMember
<1> QED
  BY <1>1, <1>2

LEMMA CalmFiled ==
    ASSUME PhpInv, CalmStep
    PROVE  FiledInv'
<1>0. FiledInv
  BY DEF PhpInv
<1>1. /\ UNCHANGED <<mode, ucommit, waitCommit, waitDestroy, heap, held>>
      /\ restarted => restarted'
      /\ appPc \in Ending => appPc' \in Ending \/ restarted'
  BY CalmSteps DEF Calm, mapVars
<1>2. WaitInv'
  BY <1>0, <1>1 DEF FiledInv, WaitInv, Live, Key
<1>3. ~restarted' => ListInv'
  BY <1>0, <1>1 DEF FiledInv, ListInv, Live, Key, Ending
<1> QED
  BY <1>0, <1>1, <1>2, <1>3 DEF FiledInv, Live, Waiting, Listed

LEMMA RoundFiled ==
    ASSUME PhpInv, NEW face, Round(face)
    PROVE  FiledInv'
<1>0. FiledInv /\ TypeOK /\ WaitInv /\ ucommit = None
  BY DEF PhpInv, FiledInv, PhpTypeOK, Round
<1>1. /\ CommitUnlessAuto(face)
      /\ UNCHANGED <<mode, ucommit, waitDestroy, held, restarted>>
      /\ appPc \in Ending => appPc' \in Ending
  BY DEF Round
<1>2. /\ WaitInv'
      /\ Live' \subseteq Live
      /\ \A x \in Live' : heap'[x] = heap[x]
      /\ \A x \in Live : x \in Live' \/ \E k \in DOMAIN waitCommit : waitCommit[k] = x
      /\ \A k \in DOMAIN waitCommit' : k \in DOMAIN waitCommit /\ waitCommit'[k] = waitCommit[k]
  BY <1>0, <1>1, CommitKeys
<1>3. \A k \in Keys : \A i \in DOMAIN waitDestroy[k] :
         \A x \in DOMAIN waitCommit : waitCommit[x] # waitDestroy[k][i]
  BY <1>0, PhpDisjoint
<1>4. ~restarted' => ListInv'
  <2> SUFFICES ASSUME ~restarted, appPc \notin {"closing", "stopped"},
                      NEW k \in Keys, NEW i \in DOMAIN waitDestroy[k]
               PROVE  LET o == waitDestroy[k][i]
                      IN  /\ o \in Live' /\ Key(o)' = k
                          /\ \A j \in DOMAIN waitDestroy[k] : waitDestroy[k][j] = o => i = j
                          /\ \A x \in DOMAIN waitCommit' : waitCommit'[x] # o
    BY <1>1 DEF ListInv, Ending, Key
  <2>1. /\ waitDestroy[k][i] \in Live /\ Key(waitDestroy[k][i]) = k
        /\ \A j \in DOMAIN waitDestroy[k] : waitDestroy[k][j] = waitDestroy[k][i] => i = j
    BY <1>0 DEF FiledInv, ListInv
  <2>2. waitDestroy[k][i] \in Live'
    BY <1>2, <1>3, <2>1
  <2>3. Key(waitDestroy[k][i])' = k
    BY <1>1, <1>2, <2>1, <2>2 DEF Key
  <2> QED
    BY <1>2, <1>3, <2>1, <2>2, <2>3
<1>5. Listed' = Listed
  BY <1>1 DEF Listed
<1>6. Live' \subseteq Waiting' \cup Listed'
  <2>1. \/ UNCHANGED <<committed, heap, waitCommit>>
        \/ Live' = Live \ Waiting
    BY <1>0, <1>1, CommitEffect
  <2>2. CASE UNCHANGED <<committed, heap, waitCommit>>
    BY <1>0, <1>5, <2>2 DEF FiledInv, Live, Waiting
  <2>3. CASE Live' = Live \ Waiting
    BY <1>0, <1>5, <2>3 DEF FiledInv
  <2> QED
    BY <2>1, <2>2, <2>3
<1> QED
  BY <1>0, <1>1, <1>2, <1>4, <1>5, <1>6 DEF FiledInv

LEMMA ConsumeMessageFiled ==
    ASSUME PhpInv, NEW p \in Partitions, NEW o \in Obj, ConsumeMessage(p, o)
    PROVE  FiledInv'
<1> USE DEF pauseVars
<1> DEFINE h == [x \in Live \cup {o} |->
                     IF x = o THEN [part |-> p, off |-> pos[p]] ELSE heap[x]]
<1>0. TypeOK /\ CallsInv /\ GoneInv /\ FiledInv /\ WaitInv /\ mode \in {"auto", "internal", "user"}
  BY DEF PhpInv, PhpTypeOK, FiledInv, TypeOK
<1>1. /\ DOMAIN h = Live \cup {o} /\ o \in DOMAIN h /\ Live \subseteq DOMAIN h
      /\ h \in [DOMAIN h -> Message] /\ DOMAIN h \subseteq Obj
      /\ \A x \in Live : h[x] = heap[x]
      /\ h[o].part = p
  <2>1. o \notin Live
    BY DEF ConsumeMessage, PollHandle
  <2>2. h = [x \in Live \cup {o} |->
                IF x = o THEN [part |-> p, off |-> pos[p]] ELSE heap[x]]
    OBVIOUS
  <2> HIDE DEF h
  <2> QED
    BY <1>0, <2>1, <2>2, Polled
<1>2. /\ Keep(p, o, h) /\ o \notin Live /\ pollPc = "poll"
      /\ UNCHANGED <<mode, appPc, ucommit, restarted>>
  BY DEF ConsumeMessage, PollHandle
<1> HIDE DEF h
<1>3. ucommit = None /\ ~restarted /\ appPc = "run"
  BY <1>0, <1>2 DEF ConsumeMessage, PollHandle, CallsInv
<1>4. ListInv
  BY <1>0, <1>3 DEF FiledInv
<1>5. CASE mode = "auto"
  <2>1. UNCHANGED <<mode, ucommit, waitCommit, waitDestroy, heap, held, appPc, restarted>>
    BY <1>2, <1>5 DEF Keep
  <2> QED
    BY <1>0, <2>1 DEF FiledInv, WaitInv, ListInv, Live, Key, Waiting, Listed
<1>6. CASE mode = "internal"
  <2>1. AddWaitCommitOffset(o, h) /\ UNCHANGED <<waitDestroy, held>>
    BY <1>2, <1>6 DEF Keep
  <2>2. \A k \in DOMAIN waitCommit : waitCommit[k] # o
    BY <1>0, <1>2 DEF WaitInv
  <2>3. WaitInv'
    BY <1>0, <1>1, <2>1, <2>2, AddWaitKeys
  <2>4. \E D \in SUBSET Waiting : Live' = DOMAIN h \ D /\ Waiting' = (Waiting \ D) \cup {o}
    BY <1>0, <1>1, <2>1, <2>2, AddWaitEffect
  <2>5. /\ held = {} /\ \A k \in Keys : waitDestroy'[k] = <<>>
    BY <1>0, <1>6, <2>1 DEF GoneInv
  <2>6. Listed = {} /\ ListInv'
    BY <1>0, <1>6, <2>1, <2>5 DEF GoneInv, Listed, Range, ListInv
  <2> QED
    BY <1>0, <1>1, <1>2, <1>3, <2>1, <2>3, <2>4, <2>5, <2>6 DEF FiledInv
<1>7. CASE mode = "user"
  <2>1. /\ heap' = h /\ held' = held \cup {o} /\ waitCommit' = waitCommit
        /\ waitDestroy' = [waitDestroy EXCEPT ![KeyOf[p]] = Append(@, o)]
        /\ Live' = Live \cup {o}
    BY <1>1, <1>2, <1>7 DEF Keep, Live
  <2>2. PICK k0 \in Keys : k0 = KeyOf[p]
    BY DEF ConstantsAssumption
  <2>0. waitDestroy' = [waitDestroy EXCEPT ![k0] = Append(@, o)]
    BY <2>1, <2>2
  <2>3. /\ waitDestroy' \in [Keys -> Seq(Obj)]
        /\ \A k \in Keys : \A i \in DOMAIN waitDestroy'[k] :
              \/ i \in DOMAIN waitDestroy[k] /\ waitDestroy'[k][i] = waitDestroy[k][i]
              \/ k = k0 /\ i = Len(waitDestroy[k0]) + 1 /\ waitDestroy'[k][i] = o
        /\ \A k \in Keys : \A i \in DOMAIN waitDestroy[k] :
              i \in DOMAIN waitDestroy'[k] /\ waitDestroy'[k][i] = waitDestroy[k][i]
        /\ Listed' = Listed \cup {o}
    <3>1. TypeOK
      BY <1>0
    <3> HIDE DEF pauseVars
    <3> QED
      BY <2>0, <3>1, AppendLists
  <2>4. WaitInv'
    BY <1>0, <1>1, <2>1 DEF WaitInv, Key
  <2>5. ASSUME NEW k \in Keys, NEW i \in DOMAIN waitDestroy[k]
        PROVE  /\ waitDestroy[k][i] \in Live /\ Key(waitDestroy[k][i]) = k
               /\ waitDestroy[k][i] # o /\ waitDestroy[k][i] # None
               /\ \A j \in DOMAIN waitDestroy[k] : waitDestroy[k][j] = waitDestroy[k][i] => i = j
               /\ \A x \in DOMAIN waitCommit : waitCommit[x] # waitDestroy[k][i]
    BY <1>0, <1>2, <1>3, <1>4, PhpDisjoint DEF ListInv, TypeOK
  <2>6. ASSUME NEW k \in Keys, NEW i \in DOMAIN waitDestroy'[k]
        PROVE  LET x == waitDestroy'[k][i]
               IN  /\ x \in Live' /\ KeyOf[heap'[x].part] = k
                   /\ \A j \in DOMAIN waitDestroy'[k] : waitDestroy'[k][j] = x => i = j
                   /\ \A w \in DOMAIN waitCommit : waitCommit[w] # x
    <3>1. CASE i \in DOMAIN waitDestroy[k] /\ waitDestroy'[k][i] = waitDestroy[k][i]
      <4>1. KeyOf[heap'[waitDestroy[k][i]].part] = k /\ waitDestroy[k][i] \in Live'
        BY <1>1, <2>1, <2>5, <3>1 DEF Key
      <4>2. \A j \in DOMAIN waitDestroy'[k] : waitDestroy'[k][j] = waitDestroy[k][i] => i = j
        BY <2>3, <2>5, <3>1
      <4>3. \A w \in DOMAIN waitCommit : waitCommit[w] # waitDestroy[k][i]
        BY <2>5, <3>1
      <4> QED
        BY <3>1, <4>1, <4>2, <4>3
    <3>2. CASE k = k0 /\ i = Len(waitDestroy[k0]) + 1 /\ waitDestroy'[k][i] = o
      <4>1. KeyOf[heap'[o].part] = k /\ o \in Live'
        BY <1>1, <2>1, <2>2, <3>2
      <4>2. \A j \in DOMAIN waitDestroy'[k] : waitDestroy'[k][j] = o => i = j
        BY <2>3, <2>5, <3>2
      <4>3. \A w \in DOMAIN waitCommit : waitCommit[w] # o
        BY <1>0, <1>2 DEF WaitInv
      <4> QED
        BY <3>2, <4>1, <4>2, <4>3
    <3> QED
      BY <2>3, <3>1, <3>2
  <2>7. ListInv'
    <3>0. waitCommit' = waitCommit
      BY <2>1
    <3>1. \A k \in Keys : \A i \in DOMAIN waitDestroy'[k] :
              LET x == waitDestroy'[k][i]
              IN  /\ x \in Live' /\ KeyOf[heap'[x].part] = k
                  /\ \A j \in DOMAIN waitDestroy'[k] : waitDestroy'[k][j] = x => i = j
                  /\ x # ucommit' => \A w \in DOMAIN waitCommit' : waitCommit'[w] # x
      <4> SUFFICES ASSUME NEW k \in Keys, NEW i \in DOMAIN waitDestroy'[k]
                   PROVE  /\ waitDestroy'[k][i] \in Live'
                          /\ KeyOf[heap'[waitDestroy'[k][i]].part] = k
                          /\ \A j \in DOMAIN waitDestroy'[k] :
                                waitDestroy'[k][j] = waitDestroy'[k][i] => i = j
                          /\ \A w \in DOMAIN waitCommit : waitCommit[w] # waitDestroy'[k][i]
        BY <3>0, Zenon
      <4> QED
        BY <2>6, Zenon
    <3> QED
      BY <3>1 DEF ListInv, Key
  <2>8. Waiting' = Waiting
    BY <2>1 DEF Waiting
  <2> QED
    BY <1>0, <1>2, <1>3, <2>1, <2>3, <2>4, <2>7, <2>8 DEF FiledInv
<1> QED
  BY <1>0, <1>5, <1>6, <1>7

\* The first half of commitOffset() for a message that is still there.
LEMMA PhpCommitMaps ==
    ASSUME PhpInv, NEW o \in Obj, PhpCommit(o), o \in Live
    PROVE  /\ mode = "user" /\ ucommit = None /\ ucommit' = o /\ o \in held
           /\ appPc = "run" /\ appPc' = "run" /\ pollPc = "idle" /\ ~restarted /\ ~restarted'
           /\ AddWaitCommitOffset(o, heap)
           /\ held' = held \ (Superseded(o) \cup {o})
           /\ UNCHANGED <<mode, waitDestroy, committed, pos, assigned, mixed, got>>
           /\ heap[o].part \in Partitions /\ heap[o].off \in Nat /\ Key(o) \in Keys
           /\ \A k \in DOMAIN waitCommit : waitCommit[k] # o
           /\ misuse' = misuse /\ WaitInv'
           /\ o \in Live' /\ Live' \subseteq Live
           /\ \A x \in Live' : heap'[x] = heap[x]
           /\ \A x \in Live : x \in Live' \/ \E k \in DOMAIN waitCommit : waitCommit[k] = x
           /\ \A x \in DOMAIN waitCommit' :
                 \/ waitCommit'[x] = o /\ x = Key(o)
                 \/ x \in DOMAIN waitCommit /\ waitCommit'[x] = waitCommit[x] /\ x # Key(o)
           /\ DOMAIN waitCommit' = DOMAIN waitCommit \cup {Key(o)}
<1> USE DEF pauseVars, brokerVars
<1>0. TypeOK /\ CallsInv /\ GoneInv /\ FiledInv /\ WaitInv
  BY DEF PhpInv, PhpTypeOK, FiledInv
<1>1. /\ mode = "user" /\ ucommit = None /\ ucommit' = o /\ o \in held
      /\ appPc = "run" /\ appPc' = "run" /\ pollPc = "idle"
      /\ AddWaitCommitOffset(o, heap)
      /\ held' = held \ (Superseded(o) \cup {o})
      /\ UNCHANGED <<mode, waitDestroy, committed, pos, assigned, mixed, got, restarted>>
  BY DEF PhpCommit, UserCommit, MayCommit, Script, ReadDestroyed, PhpAssumption
<1>2. ~restarted
  BY <1>0, <1>1 DEF GoneInv, NothingLeft
<1>3. heap[o].part \in Partitions /\ heap[o].off \in Nat /\ Key(o) \in Keys
  BY <1>0 DEF TypeOK, Live, Message, Key
<1>4. \A k \in DOMAIN waitCommit : waitCommit[k] # o
  <2>1. o \in Listed
    BY <1>0, <1>1 DEF FiledInv
  <2>2. Waiting \cap Listed = {}
    BY <1>1, PhpDisjoint
  <2> QED
    BY <2>1, <2>2, WaitingMember
<1>5. /\ misuse' = misuse /\ WaitInv'
      /\ o \in Live' /\ Live' \subseteq DOMAIN heap
      /\ \A x \in Live' : heap'[x] = heap[x]
      /\ \A x \in DOMAIN heap : x \in Live' \/ \E k \in DOMAIN waitCommit : waitCommit[k] = x
  <2>1. DOMAIN heap \subseteq Obj /\ heap \in [DOMAIN heap -> Message] /\ Live \subseteq DOMAIN heap
        /\ o \in DOMAIN heap
    BY <1>0 DEF TypeOK, Live
  <2> QED
    BY <1>0, <1>1, <1>4, <2>1, AddWaitKeys
<1>6. waitCommit' = [x \in DOMAIN waitCommit \cup {Key(o)} |->
                        IF x = Key(o) THEN o ELSE waitCommit[x]]
  BY <1>1 DEF AddWaitCommitOffset, Key
<1>7. /\ DOMAIN waitCommit' = DOMAIN waitCommit \cup {Key(o)}
      /\ \A x \in DOMAIN waitCommit' :
            \/ waitCommit'[x] = o /\ x = Key(o)
            \/ x \in DOMAIN waitCommit /\ waitCommit'[x] = waitCommit[x] /\ x # Key(o)
  BY <1>6
<1> QED
  BY <1>1, <1>2, <1>3, <1>4, <1>5, <1>7 DEF Live

\* The call for a message that was destroyed reads it and leaves.
LEMMA PhpCommitDead ==
    ASSUME NEW o \in Obj, PhpCommit(o), o \notin Live
    PROVE  /\ mode = "user" /\ ucommit = None /\ ucommit' = None /\ o \in held
           /\ appPc' = appPc /\ misuse' = TRUE /\ held' = held \ {o}
           /\ UNCHANGED <<mode, waitCommit, waitDestroy, heap, done, committed, pos, assigned,
                          mixed, got, owed, displaced, restarted>>
BY DEF PhpCommit, UserCommit, MayCommit, ReadDestroyed, pauseVars, brokerVars

LEMMA PhpCommitFiled ==
    ASSUME PhpInv, NEW o \in Obj, PhpCommit(o)
    PROVE  FiledInv'
<1>0. TypeOK /\ GoneInv /\ FiledInv /\ WaitInv
  BY DEF PhpInv, PhpTypeOK, FiledInv
<1>1. CASE o \in Live
  <2>1. /\ ucommit = None /\ ucommit' = o /\ appPc = "run" /\ ~restarted
        /\ AddWaitCommitOffset(o, heap)
        /\ held' = held \ (Superseded(o) \cup {o})
        /\ waitDestroy' = waitDestroy /\ WaitInv'
        /\ o \in Live' /\ Live' \subseteq Live
        /\ \A x \in Live' : heap'[x] = heap[x]
        /\ \A x \in Live : x \in Live' \/ \E k \in DOMAIN waitCommit : waitCommit[k] = x
        /\ \A x \in DOMAIN waitCommit' :
              \/ waitCommit'[x] = o /\ x = Key(o)
              \/ x \in DOMAIN waitCommit /\ waitCommit'[x] = waitCommit[x] /\ x # Key(o)
        /\ \A k \in DOMAIN waitCommit : waitCommit[k] # o
    BY <1>1, PhpCommitMaps
  <2>2. \A k \in Keys : \A i \in DOMAIN waitDestroy[k] :
           \A x \in DOMAIN waitCommit : waitCommit[x] # waitDestroy[k][i]
    BY <2>1, PhpDisjoint
  <2>3. ListInv
    BY <1>0, <2>1 DEF FiledInv
  <2>4. ASSUME NEW k \in Keys, NEW i \in DOMAIN waitDestroy[k]
        PROVE  LET x == waitDestroy[k][i]
               IN  /\ x \in Live' /\ Key(x)' = k
                   /\ \A j \in DOMAIN waitDestroy[k] : waitDestroy[k][j] = x => i = j
                   /\ x # o => \A w \in DOMAIN waitCommit' : waitCommit'[w] # x
    <3>1. /\ waitDestroy[k][i] \in Live /\ Key(waitDestroy[k][i]) = k
          /\ \A j \in DOMAIN waitDestroy[k] : waitDestroy[k][j] = waitDestroy[k][i] => i = j
      BY <2>1, <2>3 DEF ListInv
    <3>2. waitDestroy[k][i] \in Live' /\ waitDestroy'[k][i] = waitDestroy[k][i]
      BY <2>1, <2>2, <3>1
    <3>3. KeyOf[heap'[waitDestroy[k][i]].part] = k
      BY <2>1, <3>1, <3>2 DEF Key
    <3> QED
      BY <2>1, <2>2, <3>1, <3>2, <3>3 DEF Key
  <2>5. ListInv'
    BY <2>1, <2>4 DEF ListInv, Key
  <2>6. \E D \in SUBSET Waiting : Live' = DOMAIN heap \ D /\ Waiting' = (Waiting \ D) \cup {o}
    <3>1. DOMAIN heap \subseteq Obj /\ heap \in [DOMAIN heap -> Message] /\ Live \subseteq DOMAIN heap
          /\ o \in DOMAIN heap
      BY <1>0, <1>1 DEF TypeOK, Live
    <3> QED
      BY <1>0, <2>1, <3>1, AddWaitEffect
  <2>7. Listed' = Listed
    BY <2>1 DEF Listed
  <2>8. PICK D \in SUBSET Waiting : Live' = Live \ D /\ Waiting' = (Waiting \ D) \cup {o}
    BY <2>6 DEF Live
  <2>9. Live' \subseteq Waiting' \cup Listed'
    BY <1>0, <2>7, <2>8 DEF FiledInv
  <2>10. held' \cap Live' \subseteq Listed' /\ ucommit' \in Waiting' /\ ucommit' \notin held'
    BY <1>0, <2>1, <2>7, <2>8 DEF FiledInv
  <2> QED
    BY <2>1, <2>5, <2>9, <2>10 DEF FiledInv
<1>2. CASE o \notin Live
  <2>1. /\ ucommit = None /\ ucommit' = None /\ appPc' = appPc /\ held' = held \ {o}
        /\ UNCHANGED <<waitCommit, waitDestroy, heap, restarted>>
    BY <1>2, PhpCommitDead
  <2>2. WaitInv' /\ (ListInv => ListInv') /\ Live' = Live /\ Waiting' = Waiting /\ Listed' = Listed
    BY <1>0, <2>1 DEF WaitInv, ListInv, Live, Key, Waiting, Listed
  <2> QED
    BY <1>0, <2>1, <2>2 DEF FiledInv
<1> QED
  BY <1>1, <1>2

\* The second half of commitOffset().
LEMMA PhpCommitEndMaps ==
    ASSUME PhpInv, PhpCommitEnd
    PROVE  /\ ucommit \in Live /\ ucommit # None /\ ucommit' = None
           /\ appPc = "run" /\ appPc' = "run" /\ ~restarted /\ ~restarted' /\ mode = "user"
           /\ TypeOK /\ ListInv /\ RemoveWaitDestroyMsgs(ucommit)
           /\ UNCHANGED <<mode, waitCommit, done, held, committed, pos, assigned, mixed, got,
                          owed, displaced>>
<1> USE DEF pauseVars, brokerVars, phpVars
<1>0. TypeOK /\ CallsInv /\ FiledInv /\ WaitInv
  BY DEF PhpInv, PhpTypeOK, FiledInv
<1>1. /\ ucommit # None /\ appPc' = appPc /\ restarted' = restarted /\ mode = "user"
      /\ ~restarted /\ appPc = "run"
  BY <1>0 DEF PhpCommitEnd, UserCommitEnd, CallsInv
<1>2. ucommit \in Live
  BY <1>0, <1>1, WaitingMember DEF FiledInv, WaitInv
<1> QED
  BY <1>0, <1>1, <1>2 DEF PhpCommitEnd, UserCommitEnd, FiledInv

LEMMA PhpCommitEndFiled ==
    ASSUME PhpInv, PhpCommitEnd
    PROVE  FiledInv'
<1>0. FiledInv /\ WaitInv
  BY DEF PhpInv, FiledInv
<1>1. /\ ucommit \in Live /\ ucommit # None /\ ucommit' = None
      /\ appPc = "run" /\ appPc' = "run" /\ ~restarted /\ ~restarted'
      /\ TypeOK /\ ListInv /\ RemoveWaitDestroyMsgs(ucommit)
      /\ UNCHANGED <<waitCommit, held>>
  BY PhpCommitEndMaps
<1>2. appPc \notin Ending
  BY <1>1 DEF Ending
<1>3. \/ Live' = Live /\ Listed' = Listed /\ ucommit \notin Listed
      \/ \E B \in SUBSET Listed :
            /\ Live' = Live \ B
            /\ Listed' = Listed \ (B \cup {ucommit})
            /\ B \cap Waiting = {}
  BY <1>1, <1>2, RemoveEffect
<1>4. PICK B \in SUBSET Listed :
         /\ Live' = Live \ B
         /\ Listed' = Listed \ (B \cup {ucommit})
         /\ B \cap Waiting = {}
  <2>1. CASE Live' = Live /\ Listed' = Listed /\ ucommit \notin Listed
    <3>1. /\ Live' = Live \ {} /\ Listed' = Listed \ ({} \cup {ucommit})
          /\ {} \cap Waiting = {} /\ {} \in SUBSET Listed
      BY <2>1
    <3> QED
      BY <3>1
  <2> QED
    BY <1>3, <2>1
<1>5. /\ Live' \subseteq Live /\ \A x \in Live' : heap'[x] = heap[x]
      /\ \A k \in Keys : \E d \in Nat : \A n \in DOMAIN waitDestroy'[k] :
            /\ n \in Nat /\ n + d \in DOMAIN waitDestroy[k]
            /\ waitDestroy'[k][n] = waitDestroy[k][n + d]
            /\ waitDestroy'[k][n] \in Live' /\ waitDestroy'[k][n] # ucommit
  BY <1>1, <1>2, RemoveLists
<1>6. Waiting' = Waiting
  BY <1>1 DEF Waiting
<1>7. \A k \in DOMAIN waitCommit : waitCommit[k] \in Live'
  BY <1>0, <1>4, WaitingMember DEF WaitInv
<1>8. WaitInv'
  BY <1>0, <1>1, <1>5, <1>7 DEF WaitInv, Key
<1>9. ASSUME NEW k \in Keys, NEW n \in DOMAIN waitDestroy'[k]
      PROVE  LET x == waitDestroy'[k][n]
             IN  /\ x \in Live' /\ KeyOf[heap'[x].part] = k
                 /\ \A j \in DOMAIN waitDestroy'[k] : waitDestroy'[k][j] = x => n = j
                 /\ \A w \in DOMAIN waitCommit : waitCommit[w] # x
  <2>1. PICK d \in Nat : \A j \in DOMAIN waitDestroy'[k] :
            /\ j \in Nat /\ j + d \in DOMAIN waitDestroy[k]
            /\ waitDestroy'[k][j] = waitDestroy[k][j + d]
            /\ waitDestroy'[k][j] \in Live' /\ waitDestroy'[k][j] # ucommit
    BY <1>5
  <2>2. /\ waitDestroy[k][n + d] \in Live /\ Key(waitDestroy[k][n + d]) = k
        /\ \A j \in DOMAIN waitDestroy[k] :
              waitDestroy[k][j] = waitDestroy[k][n + d] => n + d = j
        /\ \A w \in DOMAIN waitCommit : waitCommit[w] # waitDestroy[k][n + d]
    <3>1. n + d \in DOMAIN waitDestroy[k] /\ waitDestroy[k][n + d] # ucommit
      BY <2>1
    <3> QED
      BY <1>1, <3>1 DEF ListInv
  <2>3. KeyOf[heap'[waitDestroy'[k][n]].part] = k
    BY <1>5, <2>1, <2>2 DEF Key
  <2>4. ASSUME NEW j \in DOMAIN waitDestroy'[k], waitDestroy'[k][j] = waitDestroy'[k][n]
        PROVE  n = j
    <3>1. j + d \in DOMAIN waitDestroy[k] /\ waitDestroy[k][j + d] = waitDestroy[k][n + d]
      BY <2>1, <2>4
    <3>2. n + d = j + d /\ n \in Nat /\ j \in Nat /\ d \in Nat
      BY <2>1, <2>2, <3>1
    <3> QED
      BY <3>2
  <2> QED
    BY <2>1, <2>2, <2>3, <2>4
<1>10. ListInv'
  BY <1>1, <1>9 DEF ListInv, Key
<1>11. held' \cap Live' \subseteq Listed' /\ Live' \subseteq Waiting' \cup Listed'
  BY <1>0, <1>1, <1>4, <1>6 DEF FiledInv
<1> QED
  BY <1>1, <1>8, <1>10, <1>11 DEF FiledInv

LEMMA PhpStopClearMaps ==
    ASSUME PhpInv, PhpStopClear
    PROVE  /\ Live' = {} /\ DOMAIN waitCommit' = {} /\ held' = {}
           /\ ucommit = None /\ ucommit' = None /\ appPc = "clearing" /\ appPc' = "closing"
           /\ misuse' = (misuse \/ ~(Listed \subseteq Live))
           /\ UNCHANGED <<mode, waitCommit, waitDestroy, done, committed, pos, assigned, mixed,
                          got, owed, displaced, restarted>>
<1> USE DEF pauseVars, waitVars, brokerVars, phpVars
<1>0. CallsInv /\ GoneInv
  BY DEF PhpInv
<1>1. /\ held' = {} /\ appPc = "clearing" /\ appPc' = "closing"
      /\ misuse' = (misuse \/ ~(Listed \subseteq Live))
      /\ UNCHANGED <<mode, ucommit, waitCommit, waitDestroy, done, committed, pos, assigned, mixed,
                     got, owed, displaced, restarted>>
  BY DEF PhpStopClear, StopClear, ClearWaitDestroyMsgs
<1>2. GoneInv'
  <2>1. [PhpNext]_allVars
    BY DEF PhpNext, OtherCalls
  <2> QED
    BY <2>1, GoneStep
<1>3. Live' = {} /\ DOMAIN waitCommit' = {}
  BY <1>1, <1>2 DEF GoneInv, NothingLeft
<1>4. ucommit = None
  BY <1>0, <1>1 DEF CallsInv
<1> QED
  BY <1>1, <1>3, <1>4

LEMMA FiledStep ==
    ASSUME PhpInv, [PhpNext]_allVars
    PROVE  FiledInv'
<1>1. ASSUME NEW p \in Partitions, NEW o \in Obj, ConsumeMessage(p, o) PROVE FiledInv'
  BY <1>1, ConsumeMessageFiled
<1>2. ASSUME NEW o \in Obj, PhpCommit(o) PROVE FiledInv'
  BY <1>2, PhpCommitFiled
<1>3. CASE ConsumeTick \/ PhpRevoke \/ PhpStopCommit \/ (PhpStopClose /\ hasAssigned)
  BY <1>3, Rounds, RoundFiled
<1>4. CASE PhpStopClear
  <2>1. /\ Live' = {} /\ DOMAIN waitCommit' = {} /\ held' = {}
        /\ ucommit' = None /\ appPc' = "closing"
    BY <1>4, PhpStopClearMaps
  <2>2. WaitInv' /\ ListInv'
    BY <2>1 DEF WaitInv, ListInv
  <2> QED
    BY <2>1, <2>2 DEF FiledInv
<1> QED
  BY <1>1, <1>2, <1>3, <1>4, Kinds, CalmFiled, PhpCommitEndFiled

-----------------------------------------------------------------------------
(* Lists of one partition *)

\* Destroying messages and forgetting the front of lists mixes nothing.
LEMMA MixShrinks ==
    ASSUME ~ListsMix(waitDestroy, heap),
           Live' \subseteq Live, \A x \in Live' : heap'[x] = heap[x],
           \A k \in Keys : \E d \in Nat : \A n \in DOMAIN waitDestroy'[k] :
              /\ n + d \in DOMAIN waitDestroy[k]
              /\ waitDestroy'[k][n] = waitDestroy[k][n + d]
    PROVE  ~ListsMix(waitDestroy', heap')
<1> SUFFICES ASSUME NEW k \in Keys,
                    NEW i \in DOMAIN waitDestroy'[k], NEW j \in DOMAIN waitDestroy'[k],
                    {waitDestroy'[k][i], waitDestroy'[k][j]} \subseteq DOMAIN heap'
             PROVE  heap'[waitDestroy'[k][i]].part = heap'[waitDestroy'[k][j]].part
  BY DEF ListsMix
<1>1. PICK d \in Nat : \A n \in DOMAIN waitDestroy'[k] :
         /\ n + d \in DOMAIN waitDestroy[k]
         /\ waitDestroy'[k][n] = waitDestroy[k][n + d]
  OBVIOUS
<1>2. /\ waitDestroy[k][i + d] \in Live' /\ waitDestroy[k][j + d] \in Live'
      /\ i + d \in DOMAIN waitDestroy[k] /\ j + d \in DOMAIN waitDestroy[k]
  BY <1>1 DEF Live
<1>3. heap[waitDestroy[k][i + d]].part = heap[waitDestroy[k][j + d]].part
  BY <1>2 DEF ListsMix, Live
<1> QED
  BY <1>1, <1>2, <1>3

\* The same with the lists left alone.
LEMMA MixStays ==
    ASSUME TypeOK, ~ListsMix(waitDestroy, heap), waitDestroy' = waitDestroy,
           Live' \subseteq Live, \A x \in Live' : heap'[x] = heap[x]
    PROVE  ~ListsMix(waitDestroy', heap')
BY DEF ListsMix, Live

LEMMA CalmAlike ==
    ASSUME PhpInv, CalmStep
    PROVE  AlikeInv'
<1>0. AlikeInv
  BY DEF PhpInv
<1>1. /\ UNCHANGED <<ucommit, waitDestroy, heap, held, misuse, mixed>>
      /\ restarted => restarted'
  BY CalmSteps DEF Calm, mapVars
<1>2. ListsMix(waitDestroy', heap') <=> ListsMix(waitDestroy, heap)
  BY <1>1 DEF ListsMix
<1>3. Live' = Live /\ (ucommit # None => Key(ucommit)' = Key(ucommit))
  BY <1>1 DEF Live, Key
<1> QED
  BY <1>0, <1>1, <1>2, <1>3 DEF AlikeInv

LEMMA RoundAlike ==
    ASSUME PhpInv, NEW face, Round(face)
    PROVE  AlikeInv'
<1>0. TypeOK /\ WaitInv /\ FiledInv /\ AlikeInv
  BY DEF PhpInv, PhpTypeOK, FiledInv
<1>1. /\ CommitUnlessAuto(face) /\ ucommit = None
      /\ UNCHANGED <<ucommit, waitDestroy, held, mixed, restarted>>
  BY DEF Round
<1>2. /\ misuse' = misuse
      /\ Live' \subseteq Live /\ \A x \in Live' : heap'[x] = heap[x]
      /\ \A x \in Live : x \in Live' \/ \E k \in DOMAIN waitCommit : waitCommit[k] = x
  BY <1>0, <1>1, CommitKeys
<1>3. ~ListsMix(waitDestroy, heap) => ~ListsMix(waitDestroy', heap')
  BY <1>0, <1>1, <1>2, MixStays
<1>4. held \subseteq Live => held' \subseteq Live'
  <2>1. Waiting \cap Listed = {}
    BY <1>1, PhpDisjoint
  <2>2. \A x \in held \cap Live : x \in Live'
    BY <1>0, <1>2, <2>1, WaitingMember DEF FiledInv
  <2> QED
    BY <1>1, <2>2
<1> QED
  BY <1>0, <1>1, <1>2, <1>3, <1>4 DEF AlikeInv

LEMMA ConsumeMessageAlike ==
    ASSUME PhpInv, NEW p \in Partitions, NEW o \in Obj, ConsumeMessage(p, o)
    PROVE  AlikeInv'
<1> USE DEF pauseVars
<1> DEFINE h == [x \in Live \cup {o} |->
                     IF x = o THEN [part |-> p, off |-> pos[p]] ELSE heap[x]]
<1>0. TypeOK /\ CallsInv /\ GoneInv /\ WaitInv /\ AlikeInv /\ mode \in {"auto", "internal", "user"}
  BY DEF PhpInv, PhpTypeOK, FiledInv, TypeOK
<1>1. /\ DOMAIN h = Live \cup {o} /\ o \in DOMAIN h /\ Live \subseteq DOMAIN h
      /\ h \in [DOMAIN h -> Message] /\ DOMAIN h \subseteq Obj
      /\ \A x \in Live : h[x] = heap[x]
  <2>1. o \notin Live
    BY DEF ConsumeMessage, PollHandle
  <2>2. h = [x \in Live \cup {o} |->
                IF x = o THEN [part |-> p, off |-> pos[p]] ELSE heap[x]]
    OBVIOUS
  <2> HIDE DEF h
  <2> QED
    BY <1>0, <2>1, <2>2, Polled
<1>2. /\ Keep(p, o, h) /\ o \notin Live
      /\ mixed' = (mixed \/ ListsMix(waitDestroy', heap'))
      /\ ucommit = None /\ ucommit' = None /\ restarted' = restarted
  BY <1>0 DEF ConsumeMessage, PollHandle, CallsInv
<1> HIDE DEF h
<1>3. misuse' = misuse
  <2>1. CASE mode = "internal"
    <3>1. AddWaitCommitOffset(o, h)
      BY <1>2, <2>1 DEF Keep
    <3>2. \A k \in DOMAIN waitCommit : waitCommit[k] # o
      BY <1>0, <1>2 DEF WaitInv
    <3> QED
      BY <1>0, <1>1, <3>1, <3>2, AddWaitKeys
  <2> QED
    BY <1>0, <1>2, <2>1 DEF Keep
<1>4. held \subseteq Live => held' \subseteq Live'
  <2>1. CASE mode = "user"
    BY <1>1, <1>2, <2>1 DEF Keep, Live
  <2>2. CASE mode = "auto"
    BY <1>2, <2>2 DEF Keep, Live
  <2>3. CASE mode = "internal"
    BY <1>0, <1>2, <2>3 DEF Keep, GoneInv
  <2> QED
    BY <1>0, <2>1, <2>2, <2>3
<1> QED
  BY <1>0, <1>2, <1>3, <1>4 DEF AlikeInv

LEMMA PhpCommitAlike ==
    ASSUME PhpInv, NEW o \in Obj, PhpCommit(o)
    PROVE  AlikeInv'
<1>0. TypeOK /\ FiledInv /\ AlikeInv
  BY DEF PhpInv, PhpTypeOK
<1>1. CASE o \in Live
  <2>1. /\ ucommit = None /\ ucommit' = o /\ mixed' = mixed /\ ~restarted
        /\ o \in held /\ held' = held \ (Superseded(o) \cup {o})
        /\ waitDestroy' = waitDestroy /\ misuse' = misuse
        /\ o \in Live' /\ Live' \subseteq Live
        /\ \A x \in Live' : heap'[x] = heap[x]
        /\ \A x \in Live : x \in Live' \/ \E k \in DOMAIN waitCommit : waitCommit[k] = x
        /\ Key(o) \in Keys
    BY <1>1, PhpCommitMaps
  <2>2. ~ListsMix(waitDestroy, heap) => ~ListsMix(waitDestroy', heap')
    BY <1>0, <2>1, MixStays
  <2>3. held \subseteq Live => held' \subseteq Live'
    <3>1. Waiting \cap Listed = {}
      BY <2>1, PhpDisjoint
    <3>2. \A x \in held \cap Live : x \in Live'
      BY <1>0, <2>1, <3>1, WaitingMember DEF FiledInv
    <3> QED
      BY <2>1, <3>2
  <2>4. Key(ucommit)' = Key(o)
    BY <2>1 DEF Key
  <2>5. ASSUME ~ListsMix(waitDestroy, heap), held \subseteq Live,
               NEW i \in DOMAIN waitDestroy[Key(o)], waitDestroy[Key(o)][i] = o,
               NEW j \in 1 .. i
        PROVE  waitDestroy[Key(o)][j] \notin held'
    <3> DEFINE y == waitDestroy[Key(o)][j]
    <3>1. j \in DOMAIN waitDestroy[Key(o)]
      <4>1. waitDestroy[Key(o)] \in Seq(Obj)
        BY <1>0, <2>1 DEF TypeOK
      <4> QED
        BY <2>5, <4>1
    <3>2. y \in held => heap[y].part = heap[o].part
      <4>1. ASSUME y \in held PROVE {waitDestroy[Key(o)][j], waitDestroy[Key(o)][i]} \subseteq DOMAIN heap
        BY <1>1, <2>5, <4>1 DEF Live
      <4> QED
        BY <2>1, <2>5, <3>1, <4>1 DEF ListsMix
    <3>3. y \in held => y \in Superseded(o)
      BY <2>5, <3>2 DEF Superseded
    <3> QED
      BY <2>1, <3>3
  <2> QED
    BY <1>0, <2>1, <2>2, <2>3, <2>4, <2>5 DEF AlikeInv
<1>2. CASE o \notin Live
  <2>1. o \in held /\ mixed' = mixed
    BY <1>2, PhpCommitDead
  <2>2. mixed
    BY <1>0, <1>2, <2>1 DEF AlikeInv
  <2> QED
    BY <2>1, <2>2 DEF AlikeInv
<1> QED
  BY <1>1, <1>2

LEMMA PhpCommitEndAlike ==
    ASSUME PhpInv, PhpCommitEnd
    PROVE  AlikeInv'
<1>0. AlikeInv
  BY DEF PhpInv
<1>1. /\ ucommit \in Live /\ ucommit # None /\ ucommit' = None
      /\ appPc = "run" /\ ~restarted /\ ~restarted'
      /\ TypeOK /\ ListInv /\ RemoveWaitDestroyMsgs(ucommit)
      /\ UNCHANGED <<held, mixed>>
  BY PhpCommitEndMaps
<1>2. appPc \notin Ending
  BY <1>1 DEF Ending
<1>3. /\ misuse' = misuse
      /\ Live' \subseteq Live /\ \A x \in Live' : heap'[x] = heap[x]
      /\ \A x \in Live \ Live' :
            \E i \in DOMAIN waitDestroy[Key(ucommit)] :
               /\ waitDestroy[Key(ucommit)][i] = ucommit
               /\ \E j \in 1 .. i : waitDestroy[Key(ucommit)][j] = x
      /\ \A k \in Keys : \E d \in Nat : \A n \in DOMAIN waitDestroy'[k] :
            /\ n \in Nat /\ n + d \in DOMAIN waitDestroy[k]
            /\ waitDestroy'[k][n] = waitDestroy[k][n + d]
            /\ waitDestroy'[k][n] \in Live' /\ waitDestroy'[k][n] # ucommit
  BY <1>1, <1>2, RemoveLists
<1>4. ~ListsMix(waitDestroy, heap) => ~ListsMix(waitDestroy', heap')
  <2>1. \A k \in Keys : \E d \in Nat : \A n \in DOMAIN waitDestroy'[k] :
            /\ n + d \in DOMAIN waitDestroy[k]
            /\ waitDestroy'[k][n] = waitDestroy[k][n + d]
    <3> SUFFICES ASSUME NEW k \in Keys
                 PROVE  \E d \in Nat : \A n \in DOMAIN waitDestroy'[k] :
                           /\ n + d \in DOMAIN waitDestroy[k]
                           /\ waitDestroy'[k][n] = waitDestroy[k][n + d]
      OBVIOUS
    <3>1. PICK d \in Nat : \A n \in DOMAIN waitDestroy'[k] :
              /\ n + d \in DOMAIN waitDestroy[k]
              /\ waitDestroy'[k][n] = waitDestroy[k][n + d]
      BY <1>3
    <3> QED
      BY <3>1
  <2> QED
    BY <1>3, <2>1, MixShrinks
<1>5. ~mixed => held' \subseteq Live'
  <2> SUFFICES ASSUME ~mixed, NEW x \in held, x \notin Live' PROVE FALSE
    BY <1>1
  <2>1. /\ x \in Live
        /\ \A i \in DOMAIN waitDestroy[Key(ucommit)] :
              waitDestroy[Key(ucommit)][i] = ucommit =>
                 \A j \in 1 .. i : waitDestroy[Key(ucommit)][j] \notin held
    BY <1>0, <1>1 DEF AlikeInv
  <2> QED
    BY <1>3, <2>1
<1> QED
  BY <1>0, <1>1, <1>3, <1>4, <1>5 DEF AlikeInv

LEMMA PhpStopClearAlike ==
    ASSUME PhpInv, PhpStopClear
    PROVE  AlikeInv'
<1>0. AlikeInv /\ FiledInv
  BY DEF PhpInv
<1>1. /\ Live' = {} /\ held' = {} /\ ucommit' = None /\ appPc = "clearing"
      /\ misuse' = (misuse \/ ~(Listed \subseteq Live))
      /\ UNCHANGED <<mixed, restarted>>
  BY PhpStopClearMaps
<1>2. ~restarted => Listed \subseteq Live
  BY <1>0, <1>1, ListedMember DEF FiledInv, ListInv
<1>3. ~ListsMix(waitDestroy', heap')
  BY <1>1 DEF ListsMix, Live
<1> QED
  BY <1>0, <1>1, <1>2, <1>3 DEF AlikeInv

LEMMA AlikeStep ==
    ASSUME PhpInv, [PhpNext]_allVars
    PROVE  AlikeInv'
<1>1. ASSUME NEW p \in Partitions, NEW o \in Obj, ConsumeMessage(p, o) PROVE AlikeInv'
  BY <1>1, ConsumeMessageAlike
<1>2. ASSUME NEW o \in Obj, PhpCommit(o) PROVE AlikeInv'
  BY <1>2, PhpCommitAlike
<1>3. CASE ConsumeTick \/ PhpRevoke \/ PhpStopCommit \/ (PhpStopClose /\ hasAssigned)
  BY <1>3, Rounds, RoundAlike
<1> QED
  BY <1>1, <1>2, <1>3, Kinds, CalmAlike, PhpCommitEndAlike, PhpStopClearAlike

-----------------------------------------------------------------------------
(* How far offsets may be committed *)

\* What was returned stays returned while the script processes messages.
LEMMA ReturnedGrows ==
    ASSUME PhpTypeOK, PhpTypeOK',
           \A p \in Partitions : done[p] <= done'[p],
           \/ got = <<>>
           \/ got' = got
           \/ got \in Partitions \X Nat /\ got[2] + 1 <= done'[got[1]]
    PROVE  \A p \in Partitions :
              /\ Returned(p) \in Nat /\ Returned(p)' \in Nat
              /\ Returned(p) <= Returned(p)' /\ done'[p] <= Returned(p)'
<1> SUFFICES ASSUME NEW p \in Partitions
             PROVE  /\ Returned(p) \in Nat /\ Returned(p)' \in Nat
                    /\ Returned(p) <= Returned(p)' /\ done'[p] <= Returned(p)'
  OBVIOUS
<1>1. done[p] \in Nat /\ done'[p] \in Nat /\ done[p] <= done'[p]
  BY DEF PhpTypeOK, TypeOK
<1>2. /\ got # <<>> => got \in Partitions \X Nat /\ got[1] \in Partitions /\ got[2] \in Nat
      /\ got' # <<>> => got'[2] \in Nat
  BY DEF PhpTypeOK
<1>3. /\ Returned(p) \in Nat /\ Returned(p)' \in Nat /\ done'[p] <= Returned(p)'
      /\ done[p] <= Returned(p)'
  BY <1>1, <1>2 DEF Returned
<1>4. Returned(p) <= Returned(p)'
  BY <1>1, <1>2, <1>3 DEF Returned
<1> QED
  BY <1>3, <1>4

\* The three parts of the next ReturnedInv.
LEMMA WaitingReturned ==
    ASSUME \A k \in DOMAIN waitCommit' :
              \E q \in Partitions : /\ heap'[waitCommit'[k]].part = q
                                    /\ heap'[waitCommit'[k]].off + 1 <= Returned(q)',
           \A p \in Partitions : committed'[p] <= Returned(p)',
           mode' = "auto" => \A p \in assigned' : pos'[p] <= Returned(p)'
    PROVE  ReturnedInv'
<1>1. ASSUME NEW k \in DOMAIN waitCommit'
      PROVE  (heap[waitCommit[k]].off + 1 <= Returned(heap[waitCommit[k]].part))'
  BY DEF Returned
<1>2. \A k \in DOMAIN waitCommit' : (heap[waitCommit[k]].off + 1 <= Returned(heap[waitCommit[k]].part))'
  BY <1>1
<1>3. (\A k \in DOMAIN waitCommit : heap[waitCommit[k]].off + 1 <= Returned(heap[waitCommit[k]].part))'
  BY <1>2
<1> QED
  BY <1>3 DEF ReturnedInv

\* Nothing is added to what waits, and committed offsets follow what waits.
LEMMA ReturnedFrame ==
    ASSUME PhpInv, mode' = mode,
           \A p \in Partitions : Returned(p) \in Nat /\ Returned(p)' \in Nat
                                 /\ Returned(p) <= Returned(p)',
           \A k \in DOMAIN waitCommit' : /\ k \in DOMAIN waitCommit
                                         /\ heap'[waitCommit'[k]] = heap[waitCommit[k]],
           \A p \in Partitions : committed'[p] \in Nat /\ committed'[p] <= Returned(p)',
           mode = "auto" => \A p \in assigned' : pos'[p] \in Nat /\ pos'[p] <= Returned(p)'
    PROVE  ReturnedInv'
<1>0. PhpTypeOK /\ TypeOK /\ ReturnedInv /\ WaitInv
  BY DEF PhpInv, PhpTypeOK, FiledInv
<1>1. ASSUME NEW k \in DOMAIN waitCommit'
      PROVE  \E q \in Partitions : /\ heap'[waitCommit'[k]].part = q
                                   /\ heap'[waitCommit'[k]].off + 1 <= Returned(q)'
  <2>1. /\ heap'[waitCommit'[k]] = heap[waitCommit[k]] /\ k \in DOMAIN waitCommit
        /\ heap[waitCommit[k]].part \in Partitions /\ heap[waitCommit[k]].off \in Nat
    BY <1>0 DEF WaitInv, TypeOK, Message, Live
  <2>2. PICK q \in Partitions : q = heap[waitCommit[k]].part
    BY <2>1
  <2>3. heap[waitCommit[k]].off + 1 <= Returned(q)
    BY <1>0, <2>1, <2>2 DEF ReturnedInv
  <2>4. Returned(q) <= Returned(q)' /\ Returned(q) \in Nat /\ Returned(q)' \in Nat
    BY <2>2
  <2>5. heap[waitCommit[k]].off + 1 <= Returned(q)'
    BY <2>1, <2>3, <2>4
  <2> QED
    BY <2>1, <2>2, <2>5
<1> QED
  BY <1>1, WaitingReturned

LEMMA CalmReturned ==
    ASSUME PhpInv, PhpTypeOK', CalmStep
    PROVE  ReturnedInv'
<1> USE DEF pauseVars, waitVars, brokerVars, userVars, threadVars, phpVars
<1>0. PhpTypeOK /\ TypeOK /\ TypeOK' /\ CallsInv /\ ReturnedInv
  BY DEF PhpInv, PhpTypeOK
<1>1. /\ UNCHANGED <<mode, waitCommit, heap>>
  BY CalmSteps DEF Calm, mapVars
<1>2. \A k \in DOMAIN waitCommit' : /\ k \in DOMAIN waitCommit
                                    /\ heap'[waitCommit'[k]] = heap[waitCommit[k]]
  BY <1>1
<1>3. ASSUME UNCHANGED <<done, got, committed, pos>>, assigned' \subseteq assigned
      PROVE  ReturnedInv'
  <2>1. \A p \in Partitions : Returned(p) \in Nat /\ Returned(p)' \in Nat /\ Returned(p) <= Returned(p)'
    BY <1>0, <1>3, ReturnedGrows DEF TypeOK
  <2>2. \A p \in Partitions : committed'[p] \in Nat /\ committed'[p] <= Returned(p)'
    BY <1>0, <1>3 DEF ReturnedInv, TypeOK, Returned
  <2>3. mode = "auto" => \A p \in assigned' : pos'[p] \in Nat /\ pos'[p] <= Returned(p)'
    BY <1>0, <1>3 DEF ReturnedInv, TypeOK, Returned
  <2> QED
    BY <1>1, <1>2, <2>1, <2>2, <2>3, ReturnedFrame
<1>4. ASSUME NEW p \in Partitions, ConsumeEmpty(p) PROVE ReturnedInv'
  <2>1. /\ pos' = [pos EXCEPT ![p] = @ + 1] /\ Processed(p, pos[p] + 1)
        /\ UNCHANGED <<assigned, committed, got>> /\ pollPc = "poll" /\ pos[p] \in Nat
    BY <1>0, <1>4 DEF ConsumeEmpty, PollHandle, TypeOK
  <2>2. got = <<>>
    BY <1>0, <2>1 DEF CallsInv
  <2>3. /\ \A q \in Partitions : done[q] <= done'[q] /\ done[q] \in Nat /\ done'[q] \in Nat
        /\ pos[p] + 1 <= done'[p]
    BY <1>0, <2>1 DEF Processed, TypeOK
  <2>4. \A q \in Partitions :
              /\ Returned(q) \in Nat /\ Returned(q)' \in Nat
              /\ Returned(q) <= Returned(q)' /\ done'[q] <= Returned(q)'
    BY <1>0, <2>2, <2>3, ReturnedGrows
  <2>5. ASSUME NEW q \in Partitions PROVE committed'[q] \in Nat /\ committed'[q] <= Returned(q)'
    <3>1. committed[q] \in Nat /\ committed[q] <= Returned(q) /\ committed'[q] = committed[q]
      BY <1>0, <2>1 DEF ReturnedInv, TypeOK
    <3> QED
      BY <2>4, <3>1
  <2>6. ASSUME mode = "auto", NEW q \in assigned' PROVE pos'[q] \in Nat /\ pos'[q] <= Returned(q)'
    <3>1. q \in Partitions /\ pos[q] \in Nat /\ pos[q] <= Returned(q)
      BY <1>0, <2>1, <2>6 DEF ReturnedInv, TypeOK
    <3>2. CASE q = p
      <4>1. pos'[q] = pos[p] + 1
        BY <1>0, <2>1, <3>2 DEF TypeOK
      <4> QED
        BY <2>1, <2>3, <2>4, <3>2, <4>1
    <3>3. CASE q # p
      <4>1. pos'[q] = pos[q]
        BY <1>0, <2>1, <3>1, <3>3 DEF TypeOK
      <4> QED
        BY <2>4, <3>1, <4>1
    <3> QED
      BY <3>2, <3>3
  <2> QED
    BY <1>1, <1>2, <2>4, <2>5, <2>6, ReturnedFrame
<1>5. ASSUME NEW S \in SUBSET Partitions, PhpAssign(S) PROVE ReturnedInv'
  <2>1. /\ UNCHANGED <<done, got, committed>> /\ assigned' = S
        /\ pos' = [p \in Partitions |-> IF p \in S THEN committed[p] ELSE pos[p]]
    BY <1>5 DEF PhpAssign, Assign
  <2>2. \A p \in Partitions : Returned(p) \in Nat /\ Returned(p)' \in Nat /\ Returned(p) <= Returned(p)'
    BY <1>0, <2>1, ReturnedGrows DEF TypeOK
  <2>3. \A p \in Partitions : committed'[p] \in Nat /\ committed'[p] <= Returned(p)'
    BY <1>0, <2>1 DEF ReturnedInv, TypeOK, Returned
  <2>4. mode = "auto" => \A p \in assigned' : pos'[p] \in Nat /\ pos'[p] <= Returned(p)'
    BY <2>1, <2>3
  <2> QED
    BY <1>1, <1>2, <2>2, <2>3, <2>4, ReturnedFrame
<1>6. CASE Process
  <2>1. /\ got # <<>> /\ Processed(got[1], got[2] + 1) /\ got' = <<>>
        /\ UNCHANGED <<committed, pos, assigned>>
        /\ got \in Partitions \X Nat /\ got[1] \in Partitions /\ got[2] + 1 \in Nat
    BY <1>0, <1>6 DEF Process, PhpTypeOK
  <2>2. /\ \A q \in Partitions : done[q] <= done'[q] /\ done[q] \in Nat /\ done'[q] \in Nat
        /\ got[2] + 1 <= done'[got[1]]
    BY <1>0, <2>1 DEF Processed, TypeOK
  <2>3. \A q \in Partitions :
              /\ Returned(q) \in Nat /\ Returned(q)' \in Nat
              /\ Returned(q) <= Returned(q)' /\ done'[q] <= Returned(q)'
    BY <1>0, <2>1, <2>2, ReturnedGrows
  <2>4. ASSUME NEW q \in Partitions PROVE committed'[q] \in Nat /\ committed'[q] <= Returned(q)'
    <3>1. committed[q] \in Nat /\ committed[q] <= Returned(q) /\ committed'[q] = committed[q]
      BY <1>0, <2>1 DEF ReturnedInv, TypeOK
    <3> QED
      BY <2>3, <3>1
  <2>5. ASSUME mode = "auto", NEW q \in assigned' PROVE pos'[q] \in Nat /\ pos'[q] <= Returned(q)'
    <3>1. q \in Partitions /\ pos[q] \in Nat /\ pos[q] <= Returned(q) /\ pos' = pos
      BY <1>0, <2>1, <2>5 DEF ReturnedInv, TypeOK
    <3> QED
      BY <2>3, <3>1
  <2> QED
    BY <1>1, <1>2, <2>3, <2>4, <2>5, ReturnedFrame
<1>7. ASSUME NEW p \in Partitions, AutoCommit(p), UNCHANGED phpVars PROVE ReturnedInv'
  <2>1. /\ mode = "auto" /\ p \in assigned
        /\ committed' = [committed EXCEPT ![p] = pos[p]]
        /\ UNCHANGED <<done, got, pos, assigned>>
    BY <1>7 DEF AutoCommit
  <2>2. \A q \in Partitions : Returned(q) \in Nat /\ Returned(q)' \in Nat /\ Returned(q) <= Returned(q)'
    BY <1>0, <2>1, ReturnedGrows DEF TypeOK
  <2>3. ASSUME NEW q \in Partitions PROVE committed'[q] \in Nat /\ committed'[q] <= Returned(q)'
    <3>1. /\ committed[q] \in Nat /\ committed[q] <= Returned(q)
          /\ pos[p] \in Nat /\ pos[p] <= Returned(p)
          /\ committed'[q] = IF q = p THEN pos[p] ELSE committed[q]
      BY <1>0, <2>1 DEF ReturnedInv, TypeOK
    <3> QED
      BY <2>2, <3>1
  <2>4. \A q \in assigned' : pos'[q] \in Nat /\ pos'[q] <= Returned(q)'
    BY <1>0, <2>1 DEF ReturnedInv, TypeOK, Returned
  <2> QED
    BY <1>1, <1>2, <2>2, <2>3, <2>4, ReturnedFrame
<1>8. CASE Consume \/ PollNullHandle \/ ConsumeNothing
  BY <1>3, <1>8 DEF Consume, PollNullHandle, ConsumeNothing, vars
<1>9. CASE PhpRebalanceError \/ PhpStart \/ (PhpStopClose /\ ~hasAssigned)
  BY <1>3, <1>9 DEF PhpRebalanceError, RebalanceError, PhpStart, PhpStopClose, StopClose
<1>10. CASE PhpStop
  BY <1>3, <1>10 DEF PhpStop, Stop
<1>11. ASSUME NEW ts \in PauseSets, Pause(ts) \/ Resume(ts) PROVE ReturnedInv'
  BY <1>3, <1>11 DEF Pause, Resume
<1>12. CASE (TimePasses /\ UNCHANGED phpVars) \/ UNCHANGED allVars
  BY <1>3, <1>12 DEF TimePasses, allVars, vars
<1>13. ASSUME NEW p \in Partitions, OtherProcesses(p) \/ OtherCommits(p), UNCHANGED phpVars
       PROVE  ReturnedInv'
  <2>1. /\ UNCHANGED <<got, pos, assigned>>
        /\ \/ committed' = committed /\ done' = [done EXCEPT ![p] = @ + 1]
           \/ /\ committed' = [committed EXCEPT ![p] = @ + 1] /\ committed[p] < done[p]
              /\ done' = done
    BY <1>13 DEF OtherProcesses, OtherCommits
  <2>2. \A q \in Partitions : /\ done[q] \in Nat /\ committed[q] \in Nat /\ pos[q] \in Nat
                              /\ done[q] <= done'[q] /\ committed'[q] \in Nat
    <3>1. /\ done \in [Partitions -> Nat] /\ committed \in [Partitions -> Nat]
          /\ pos \in [Partitions -> Nat] /\ committed' \in [Partitions -> Nat]
      BY <1>0 DEF TypeOK
    <3>2. \A q \in Partitions : done'[q] \in {done[q], done[q] + 1}
      BY <2>1, <3>1
    <3> QED
      BY <3>1, <3>2
  <2>3. \A q \in Partitions :
              /\ Returned(q) \in Nat /\ Returned(q)' \in Nat
              /\ Returned(q) <= Returned(q)' /\ done'[q] <= Returned(q)'
    BY <1>0, <2>1, <2>2, ReturnedGrows
  <2>4. ASSUME NEW q \in Partitions PROVE committed'[q] \in Nat /\ committed'[q] <= Returned(q)'
    <3>1. committed[q] <= Returned(q)
      BY <1>0 DEF ReturnedInv
    <3>2. committed'[q] = committed[q] \/ (committed'[q] <= done[q] /\ done'[q] = done[q])
      BY <1>0, <2>1, <2>2 DEF TypeOK
    <3> QED
      BY <2>2, <2>3, <3>1, <3>2
  <2>5. ASSUME mode = "auto", NEW q \in assigned' PROVE pos'[q] \in Nat /\ pos'[q] <= Returned(q)'
    <3>1. q \in Partitions /\ pos[q] <= Returned(q) /\ pos' = pos
      BY <1>0, <2>1, <2>5 DEF ReturnedInv, TypeOK
    <3> QED
      BY <2>2, <2>3, <3>1
  <2> QED
    BY <1>1, <1>2, <2>3, <2>4, <2>5, ReturnedFrame
<1> QED
  BY <1>4, <1>5, <1>6, <1>7, <1>8, <1>9, <1>10, <1>11, <1>12, <1>13 DEF CalmStep, GroupStep

LEMMA RoundReturned ==
    ASSUME PhpInv, PhpTypeOK', NEW face, Round(face)
    PROVE  ReturnedInv'
<1>0. PhpTypeOK /\ TypeOK /\ TypeOK' /\ WaitInv /\ ReturnedInv
  BY DEF PhpInv, PhpTypeOK, FiledInv
<1>1. /\ CommitUnlessAuto(face)
      /\ UNCHANGED <<mode, pos, done, got>> /\ assigned' \subseteq assigned
  BY DEF Round
<1>2. /\ WaitInv'
      /\ \A x \in Live' : heap'[x] = heap[x]
      /\ \A k \in DOMAIN waitCommit' : k \in DOMAIN waitCommit /\ waitCommit'[k] = waitCommit[k]
      /\ \A p \in Partitions :
            \/ committed'[p] = committed[p]
            \/ \E k \in DOMAIN waitCommit :
                  /\ heap[waitCommit[k]].part = p
                  /\ committed'[p] = heap[waitCommit[k]].off + 1
  BY <1>0, <1>1, CommitKeys
<1>3. \A k \in DOMAIN waitCommit' : /\ k \in DOMAIN waitCommit
                                    /\ heap'[waitCommit'[k]] = heap[waitCommit[k]]
  BY <1>2 DEF WaitInv
<1>4. \A p \in Partitions : Returned(p) \in Nat /\ Returned(p)' \in Nat
                            /\ Returned(p) <= Returned(p)' /\ Returned(p)' = Returned(p)
  <2>1. \A p \in Partitions : Returned(p) \in Nat /\ Returned(p)' \in Nat
                              /\ Returned(p) <= Returned(p)'
    BY <1>0, <1>1, ReturnedGrows DEF TypeOK
  <2> QED
    BY <1>1, <2>1 DEF Returned
<1>5. ASSUME NEW p \in Partitions PROVE committed'[p] \in Nat /\ committed'[p] <= Returned(p)'
  <2>1. committed'[p] \in Nat /\ committed[p] <= Returned(p)
    BY <1>0 DEF ReturnedInv, TypeOK
  <2>2. ASSUME NEW k \in DOMAIN waitCommit, heap[waitCommit[k]].part = p
        PROVE  heap[waitCommit[k]].off + 1 <= Returned(p)
    BY <1>0, <2>2 DEF ReturnedInv
  <2> QED
    BY <1>2, <1>4, <2>1, <2>2
<1>6. mode = "auto" => \A p \in assigned' : pos'[p] \in Nat /\ pos'[p] <= Returned(p)'
  BY <1>0, <1>1, <1>4 DEF ReturnedInv, TypeOK
<1> QED
  BY <1>1, <1>3, <1>4, <1>5, <1>6, ReturnedFrame

LEMMA ConsumeMessageReturned ==
    ASSUME PhpInv, PhpTypeOK', NEW p \in Partitions, NEW o \in Obj, ConsumeMessage(p, o)
    PROVE  ReturnedInv'
<1> USE DEF pauseVars
<1> DEFINE h == [x \in Live \cup {o} |->
                     IF x = o THEN [part |-> p, off |-> pos[p]] ELSE heap[x]]
<1>0. /\ PhpTypeOK /\ TypeOK /\ TypeOK' /\ CallsInv /\ WaitInv /\ ReturnedInv
      /\ mode \in {"auto", "internal", "user"}
  BY DEF PhpInv, PhpTypeOK, FiledInv, TypeOK
<1>1. /\ DOMAIN h = Live \cup {o} /\ o \in DOMAIN h /\ Live \subseteq DOMAIN h
      /\ h \in [DOMAIN h -> Message] /\ DOMAIN h \subseteq Obj
      /\ \A x \in Live : h[x] = heap[x]
      /\ h[o].part = p /\ h[o].off = pos[p]
  <2>1. o \notin Live
    BY DEF ConsumeMessage, PollHandle
  <2>2. h = [x \in Live \cup {o} |->
                IF x = o THEN [part |-> p, off |-> pos[p]] ELSE heap[x]]
    OBVIOUS
  <2> HIDE DEF h
  <2> QED
    BY <1>0, <2>1, <2>2, Polled
<1>2. /\ Keep(p, o, h) /\ o \notin Live /\ got = <<>>
      /\ pos' = [pos EXCEPT ![p] = @ + 1] /\ pos[p] \in Nat
      /\ UNCHANGED <<mode, done, committed, assigned>>
  BY <1>0 DEF ConsumeMessage, PollHandle, CallsInv, TypeOK
<1> HIDE DEF h
<1>3. \A q \in Partitions :
              /\ Returned(q) \in Nat /\ Returned(q)' \in Nat
              /\ Returned(q) <= Returned(q)' /\ done'[q] <= Returned(q)'
  BY <1>0, <1>2, ReturnedGrows DEF TypeOK
<1>4. mode # "user" => pos[p] + 1 <= Returned(p)'
  <2>1. mode # "user" => got' = <<p, pos[p]>>
    BY <1>0, <1>2 DEF Keep
  <2>2. mode # "user" => got' # <<>> /\ got'[1] = p /\ got'[2] = pos[p]
    <3>1. <<p, pos[p]>> # <<>>
      OBVIOUS
    <3>2. <<p, pos[p]>>[1] = p /\ <<p, pos[p]>>[2] = pos[p]
      OBVIOUS
    <3> QED
      BY <2>1, <3>1, <3>2
  <2>3. done'[p] \in Nat
    BY <1>0 DEF TypeOK
  <2> QED
    BY <1>2, <2>2, <2>3 DEF Returned
<1>5. ASSUME NEW q \in Partitions PROVE committed'[q] \in Nat /\ committed'[q] <= Returned(q)'
  <2>1. committed[q] \in Nat /\ committed[q] <= Returned(q) /\ committed'[q] = committed[q]
    BY <1>0, <1>2 DEF ReturnedInv, TypeOK
  <2> QED
    BY <1>3, <2>1
<1>6. ASSUME mode = "auto", NEW q \in assigned' PROVE pos'[q] \in Nat /\ pos'[q] <= Returned(q)'
  <2>1. q \in Partitions /\ pos[q] \in Nat /\ pos[q] <= Returned(q)
    BY <1>0, <1>2, <1>6 DEF ReturnedInv, TypeOK
  <2>2. pos'[q] = IF q = p THEN pos[p] + 1 ELSE pos[q]
    BY <1>0, <1>2, <2>1 DEF TypeOK
  <2> QED
    BY <1>2, <1>3, <1>4, <1>6, <2>1, <2>2
<1>7. CASE mode \in {"auto", "user"}
  <2>1. waitCommit' = waitCommit /\ (heap' = h \/ heap' = heap)
    BY <1>2, <1>7 DEF Keep
  <2>2. \A k \in DOMAIN waitCommit' : /\ k \in DOMAIN waitCommit
                                      /\ heap'[waitCommit'[k]] = heap[waitCommit[k]]
    BY <1>0, <1>1, <2>1 DEF WaitInv
  <2>3. \A q \in Partitions : Returned(q) \in Nat /\ Returned(q)' \in Nat
                              /\ Returned(q) <= Returned(q)'
    BY <1>3
  <2> QED
    BY <1>2, <1>5, <1>6, <2>2, <2>3, ReturnedFrame
<1>8. CASE mode = "internal"
  <2>1. AddWaitCommitOffset(o, h)
    BY <1>2, <1>8 DEF Keep
  <2>2. \A k \in DOMAIN waitCommit : waitCommit[k] # o
    BY <1>0, <1>2 DEF WaitInv
  <2>3. /\ WaitInv'
        /\ \A x \in Live' : heap'[x] = h[x]
    BY <1>0, <1>1, <2>1, <2>2, AddWaitKeys
  <2>4. waitCommit' = [x \in DOMAIN waitCommit \cup {KeyOf[h[o].part]} |->
                          IF x = KeyOf[h[o].part] THEN o ELSE waitCommit[x]]
    BY <2>1 DEF AddWaitCommitOffset
  <2>5. ASSUME NEW k \in DOMAIN waitCommit'
        PROVE  \E q \in Partitions : /\ heap'[waitCommit'[k]].part = q
                                     /\ heap'[waitCommit'[k]].off + 1 <= Returned(q)'
    <3>1. waitCommit'[k] \in Live' /\ heap'[waitCommit'[k]] = h[waitCommit'[k]]
      BY <2>3 DEF WaitInv
    <3>2. CASE waitCommit'[k] = o
      BY <1>1, <1>4, <1>8, <3>1, <3>2
    <3>3. CASE waitCommit'[k] # o
      <4>1. k \in DOMAIN waitCommit /\ waitCommit'[k] = waitCommit[k]
        BY <2>4, <3>3
      <4>2. /\ waitCommit[k] \in Live /\ heap'[waitCommit'[k]] = heap[waitCommit[k]]
            /\ heap[waitCommit[k]].part \in Partitions /\ heap[waitCommit[k]].off \in Nat
        BY <1>0, <1>1, <3>1, <4>1 DEF WaitInv, TypeOK, Live, Message
      <4>3. PICK q \in Partitions : q = heap[waitCommit[k]].part
        BY <4>2
      <4>4. heap[waitCommit[k]].off + 1 <= Returned(q)
        BY <1>0, <4>1, <4>3 DEF ReturnedInv
      <4> QED
        BY <1>3, <4>2, <4>3, <4>4
    <3> QED
      BY <3>2, <3>3
  <2> QED
    BY <1>2, <1>5, <1>6, <2>5, WaitingReturned
<1> QED
  BY <1>0, <1>7, <1>8

LEMMA PhpCommitReturned ==
    ASSUME PhpInv, PhpTypeOK', NEW o \in Obj, PhpCommit(o)
    PROVE  ReturnedInv'
<1>0. PhpTypeOK /\ TypeOK /\ TypeOK' /\ WaitInv /\ ReturnedInv
  BY DEF PhpInv, PhpTypeOK, FiledInv
<1>1. CASE o \in Live
  <2>1. /\ mode = "user" /\ mode' = "user" /\ got' = got /\ committed' = committed /\ WaitInv'
        /\ heap[o].part \in Partitions /\ heap[o].off \in Nat
        /\ \A x \in Live' : heap'[x] = heap[x]
        /\ \A x \in DOMAIN waitCommit' :
              \/ waitCommit'[x] = o /\ x = Key(o)
              \/ x \in DOMAIN waitCommit /\ waitCommit'[x] = waitCommit[x] /\ x # Key(o)
    BY <1>1, PhpCommitMaps
  <2>2. Processed(heap[o].part, heap[o].off + 1)
    BY <1>1 DEF PhpCommit, UserCommit
  <2>3. PICK p \in Partitions : p = heap[o].part
    BY <2>1
  <2>a. PICK n \in Nat : n = heap[o].off + 1
    BY <2>1
  <2>b. done' = [done EXCEPT ![p] = IF n > @ THEN n ELSE @]
    BY <2>2, <2>3, <2>a DEF Processed
  <2>c. done \in [Partitions -> Nat] /\ done' \in [Partitions -> Nat]
    BY <1>0 DEF TypeOK
  <2>4. \A q \in Partitions : done[q] <= done'[q] /\ done[q] \in Nat /\ done'[q] \in Nat
    BY <2>b, <2>c
  <2>5. heap[o].off + 1 <= done'[p]
    BY <2>a, <2>b, <2>c
  <2>6. \A q \in Partitions :
              /\ Returned(q) \in Nat /\ Returned(q)' \in Nat
              /\ Returned(q) <= Returned(q)' /\ done'[q] <= Returned(q)'
    BY <1>0, <2>1, <2>4, ReturnedGrows
  <2>7. \A q \in Partitions : committed'[q] <= Returned(q)'
    <3> SUFFICES ASSUME NEW q \in Partitions PROVE committed'[q] <= Returned(q)'
      OBVIOUS
    <3>1. committed[q] \in Nat /\ committed[q] <= Returned(q) /\ committed'[q] = committed[q]
      BY <1>0, <2>1 DEF ReturnedInv, TypeOK
    <3> QED
      BY <2>6, <3>1
  <2>8. ASSUME NEW k \in DOMAIN waitCommit'
        PROVE  \E q \in Partitions : /\ heap'[waitCommit'[k]].part = q
                                     /\ heap'[waitCommit'[k]].off + 1 <= Returned(q)'
    <3>1. waitCommit'[k] \in Live' /\ heap'[waitCommit'[k]] = heap[waitCommit'[k]]
      BY <2>1 DEF WaitInv
    <3>2. CASE waitCommit'[k] = o
      BY <2>1, <2>3, <2>4, <2>5, <2>6, <3>1, <3>2
    <3>3. CASE k \in DOMAIN waitCommit /\ waitCommit'[k] = waitCommit[k]
      <4>1. heap[waitCommit[k]].part \in Partitions /\ heap[waitCommit[k]].off \in Nat
        BY <1>0, <3>3 DEF WaitInv, TypeOK, Live, Message
      <4>2. PICK q \in Partitions : q = heap[waitCommit[k]].part
        BY <4>1
      <4>3. heap[waitCommit[k]].off + 1 <= Returned(q)
        BY <1>0, <3>3, <4>2 DEF ReturnedInv
      <4> QED
        BY <2>6, <3>1, <3>3, <4>1, <4>2, <4>3
    <3> QED
      BY <2>1, <3>2, <3>3
  <2> QED
    BY <2>1, <2>7, <2>8, WaitingReturned
<1>2. CASE o \notin Live
  <2>1. UNCHANGED <<mode, waitCommit, heap, done, committed, pos, assigned, got>>
    BY <1>2, PhpCommitDead
  <2> QED
    BY <1>0, <2>1 DEF ReturnedInv, Returned
<1> QED
  BY <1>1, <1>2

LEMMA ReturnedStep ==
    ASSUME PhpInv, PhpTypeOK', [PhpNext]_allVars
    PROVE  ReturnedInv'
<1>0. ReturnedInv /\ WaitInv
  BY DEF PhpInv, FiledInv
<1>1. ASSUME NEW p \in Partitions, NEW o \in Obj, ConsumeMessage(p, o) PROVE ReturnedInv'
  BY <1>1, ConsumeMessageReturned
<1>2. ASSUME NEW o \in Obj, PhpCommit(o) PROVE ReturnedInv'
  BY <1>2, PhpCommitReturned
<1>3. CASE ConsumeTick \/ PhpRevoke \/ PhpStopCommit \/ (PhpStopClose /\ hasAssigned)
  BY <1>3, Rounds, RoundReturned
<1>4. CASE PhpCommitEnd
  <2>1. /\ TypeOK /\ ListInv /\ ucommit \in Live /\ appPc = "run" /\ RemoveWaitDestroyMsgs(ucommit)
        /\ UNCHANGED <<mode, waitCommit, done, committed, pos, assigned, got>>
    BY <1>4, PhpCommitEndMaps
  <2>2. appPc \notin Ending
    BY <2>1 DEF Ending
  <2>3. \A x \in Live' : heap'[x] = heap[x]
    BY <2>1, <2>2, RemoveLists
  <2>4. WaitInv'
    BY <1>4, PhpCommitEndFiled DEF FiledInv
  <2>5. \A k \in DOMAIN waitCommit : heap'[waitCommit[k]] = heap[waitCommit[k]]
    BY <2>1, <2>3, <2>4 DEF WaitInv
  <2> QED
    BY <1>0, <2>1, <2>5 DEF ReturnedInv, Returned
<1>5. CASE PhpStopClear
  <2>1. /\ DOMAIN waitCommit' = {}
        /\ UNCHANGED <<mode, done, committed, pos, assigned, got>>
    BY <1>5, PhpStopClearMaps
  <2> QED
    BY <1>0, <2>1 DEF ReturnedInv, Returned
<1> QED
  BY <1>1, <1>2, <1>3, <1>4, <1>5, Kinds, CalmReturned

-----------------------------------------------------------------------------
(* What waits for its commit *)

\* The offset owed for p is the one that waits under p's key.
OwedAt(p) ==
    /\ appPc # "stopped" /\ KeyOf[p] \in DOMAIN waitCommit
    /\ waitCommit[KeyOf[p]] \in Live /\ heap[waitCommit[KeyOf[p]]].part = p
    /\ heap[waitCommit[KeyOf[p]]].off + 1 = owed[p]

LEMMA OwedIntro ==
    ASSUME \A p \in Partitions : p \notin displaced' /\ owed'[p] # 0 => OwedAt(p)'
    PROVE  OwedIsWaiting'
BY DEF OwedIsWaiting, WaitingOf, OwedAt

LEMMA OwedElim ==
    ASSUME OwedIsWaiting, NEW p \in Partitions, p \notin displaced, owed[p] # 0
    PROVE  OwedAt(p) /\ WaitingOf(p) # {}
BY DEF OwedIsWaiting, WaitingOf, OwedAt

\* What waits and what is owed stay.
LEMMA OwedFrame ==
    ASSUME PhpInv, UNCHANGED <<owed, displaced, waitCommit>>,
           \A k \in DOMAIN waitCommit :
              waitCommit[k] \in Live' /\ heap'[waitCommit[k]] = heap[waitCommit[k]],
           appPc' = "stopped" => appPc \in {"closing", "stopped"}
    PROVE  OwedIsWaiting'
<1>0. OwedIsWaiting /\ GoneInv
  BY DEF PhpInv
<1>1. ASSUME NEW p \in Partitions, p \notin displaced', owed'[p] # 0 PROVE OwedAt(p)'
  <2>1. OwedAt(p)
    BY <1>0, <1>1, OwedElim
  <2>2. appPc' # "stopped"
    BY <1>0, <2>1 DEF GoneInv, NothingLeft, OwedAt
  <2> QED
    BY <2>1, <2>2 DEF OwedAt
<1> QED
  BY <1>1, OwedIntro

LEMMA RoundOwed ==
    ASSUME PhpInv, NEW face, Round(face)
    PROVE  OwedIsWaiting'
<1>0. OwedIsWaiting /\ WaitInv
  BY DEF PhpInv, FiledInv
<1>1. /\ CommitUnlessAuto(face) /\ Settle(face) /\ displaced' = displaced
      /\ appPc' = "stopped" => appPc \in {"closing", "stopped"}
  BY DEF Round
<1>2. CASE mode = "auto" \/ (~face /\ ~due)
  <2>1. UNCHANGED <<heap, waitCommit>> /\ owed' = owed
    BY <1>1, <1>2 DEF CommitUnlessAuto, ManualCommitWaitOffset, Settle
  <2>2. \A k \in DOMAIN waitCommit :
           waitCommit[k] \in Live' /\ heap'[waitCommit[k]] = heap[waitCommit[k]]
    BY <1>0, <2>1 DEF WaitInv, Live
  <2> QED
    BY <1>1, <2>1, <2>2, OwedFrame
<1>3. CASE mode # "auto" /\ (face \/ due)
  <2>1. owed' = [p \in Partitions |-> IF WaitingOf(p) # {} THEN 0 ELSE owed[p]]
    BY <1>1, <1>3 DEF Settle
  <2>2. \A p \in Partitions : p \notin displaced' => owed'[p] = 0
    BY <1>0, <1>1, <2>1, OwedElim
  <2> QED
    BY <2>2, OwedIntro
<1> QED
  BY <1>2, <1>3

\* A message is registered.
LEMMA RegisterOwed ==
    ASSUME PhpInv, NEW h, NEW p \in Partitions, NEW o \in DOMAIN h,
           h[o].part = p, \A x \in Live : h[x] = heap[x],
           Register(p, h[o].off + 1), o \in Live', WaitInv',
           \A x \in Live' : heap'[x] = h[x],
           waitCommit' = [x \in DOMAIN waitCommit \cup {KeyOf[p]} |->
                             IF x = KeyOf[p] THEN o ELSE waitCommit[x]],
           appPc' # "stopped"
    PROVE  OwedIsWaiting'
<1>0. OwedIsWaiting /\ PhpTypeOK
  BY DEF PhpInv
<1>1. ASSUME NEW q \in Partitions, q \notin displaced', owed'[q] # 0 PROVE OwedAt(q)'
  <2>0. owed \in [Partitions -> Nat] /\ owed' = [owed EXCEPT ![p] = h[o].off + 1]
    BY <1>0 DEF PhpTypeOK, Register
  <2>1. CASE q = p
    <3>1. owed'[q] = h[o].off + 1
      BY <2>0, <2>1
    <3>2. KeyOf[q] \in DOMAIN waitCommit' /\ waitCommit'[KeyOf[q]] = o
      BY <2>1
    <3> QED
      BY <2>1, <3>1, <3>2 DEF OwedAt
  <2>2. CASE q # p
    <3>1. owed[q] # 0 /\ owed'[q] = owed[q] /\ q \notin displaced
      BY <1>1, <2>0, <2>2 DEF Register
    <3>2. OwedAt(q) /\ WaitingOf(q) # {}
      BY <1>0, <3>1, OwedElim
    <3>3. KeyOf[q] # KeyOf[p]
      BY <1>1, <2>2, <3>2 DEF Register
    <3>4. KeyOf[q] \in DOMAIN waitCommit' /\ waitCommit'[KeyOf[q]] = waitCommit[KeyOf[q]]
      BY <3>2, <3>3 DEF OwedAt
    <3>5. waitCommit[KeyOf[q]] \in Live'
      BY <3>4 DEF WaitInv
    <3>6. heap'[waitCommit[KeyOf[q]]] = heap[waitCommit[KeyOf[q]]]
      BY <3>2, <3>5 DEF OwedAt
    <3> QED
      BY <3>1, <3>2, <3>4, <3>5, <3>6 DEF OwedAt
  <2> QED
    BY <2>1, <2>2
<1> QED
  BY <1>1, OwedIntro

LEMMA ConsumeMessageOwed ==
    ASSUME PhpInv, NEW p \in Partitions, NEW o \in Obj, ConsumeMessage(p, o)
    PROVE  OwedIsWaiting'
<1> USE DEF pauseVars
<1> DEFINE h == [x \in Live \cup {o} |->
                     IF x = o THEN [part |-> p, off |-> pos[p]] ELSE heap[x]]
<1>0. TypeOK /\ CallsInv /\ WaitInv /\ mode \in {"auto", "internal", "user"}
  BY DEF PhpInv, PhpTypeOK, FiledInv, TypeOK
<1>1. /\ DOMAIN h = Live \cup {o} /\ o \in DOMAIN h /\ Live \subseteq DOMAIN h
      /\ h \in [DOMAIN h -> Message] /\ DOMAIN h \subseteq Obj
      /\ \A x \in Live : h[x] = heap[x]
      /\ h[o].part = p /\ h[o].off = pos[p]
  <2>1. o \notin Live
    BY DEF ConsumeMessage, PollHandle
  <2>2. h = [x \in Live \cup {o} |->
                IF x = o THEN [part |-> p, off |-> pos[p]] ELSE heap[x]]
    OBVIOUS
  <2> HIDE DEF h
  <2> QED
    BY <1>0, <2>1, <2>2, Polled
<1>2. /\ Keep(p, o, h) /\ o \notin Live /\ appPc' = appPc /\ appPc = "run"
  BY <1>0 DEF ConsumeMessage, PollHandle, CallsInv
<1> HIDE DEF h
<1>3. CASE mode \in {"auto", "user"}
  <2>1. UNCHANGED <<owed, displaced, waitCommit>> /\ (heap' = h \/ heap' = heap)
    BY <1>2, <1>3 DEF Keep
  <2>2. \A k \in DOMAIN waitCommit :
           waitCommit[k] \in Live' /\ heap'[waitCommit[k]] = heap[waitCommit[k]]
    BY <1>0, <1>1, <2>1 DEF WaitInv, Live
  <2> QED
    BY <1>2, <2>1, <2>2, OwedFrame
<1>4. CASE mode = "internal"
  <2>1. AddWaitCommitOffset(o, h) /\ Register(p, h[o].off + 1)
    BY <1>1, <1>2, <1>4 DEF Keep
  <2>2. \A k \in DOMAIN waitCommit : waitCommit[k] # o
    BY <1>0, <1>2 DEF WaitInv
  <2>3. /\ WaitInv' /\ o \in Live'
        /\ \A x \in Live' : heap'[x] = h[x]
    BY <1>0, <1>1, <2>1, <2>2, AddWaitKeys
  <2>4. waitCommit' = [x \in DOMAIN waitCommit \cup {KeyOf[p]} |->
                          IF x = KeyOf[p] THEN o ELSE waitCommit[x]]
    BY <1>1, <2>1 DEF AddWaitCommitOffset
  <2>5. appPc' # "stopped"
    BY <1>2
  <2> QED
    BY <1>1, <2>1, <2>3, <2>4, <2>5, RegisterOwed
<1> QED
  BY <1>0, <1>3, <1>4

LEMMA PhpCommitOwed ==
    ASSUME PhpInv, NEW o \in Obj, PhpCommit(o)
    PROVE  OwedIsWaiting'
<1>0. TypeOK /\ WaitInv
  BY DEF PhpInv, PhpTypeOK, FiledInv
<1>1. CASE o \in Live
  <2>1. /\ AddWaitCommitOffset(o, heap) /\ WaitInv' /\ o \in Live'
        /\ \A x \in Live' : heap'[x] = heap[x]
        /\ appPc' = "run" /\ heap[o].part \in Partitions
    BY <1>1, PhpCommitMaps
  <2>2. Register(heap[o].part, heap[o].off + 1)
    BY <1>1 DEF PhpCommit
  <2>3. PICK p \in Partitions : p = heap[o].part
    BY <2>1
  <2>4. waitCommit' = [x \in DOMAIN waitCommit \cup {KeyOf[p]} |->
                          IF x = KeyOf[p] THEN o ELSE waitCommit[x]]
    BY <2>1, <2>3 DEF AddWaitCommitOffset
  <2>5. Register(p, heap[o].off + 1) /\ o \in DOMAIN heap /\ appPc' # "stopped"
        /\ heap[o].part = p /\ \A x \in Live : heap[x] = heap[x]
    BY <1>1, <2>1, <2>2, <2>3 DEF Live
  <2> QED
    BY <2>1, <2>4, <2>5, RegisterOwed
<1>2. CASE o \notin Live
  <2>1. UNCHANGED <<owed, displaced, waitCommit, heap, appPc>>
    BY <1>2, PhpCommitDead
  <2>2. \A k \in DOMAIN waitCommit :
           waitCommit[k] \in Live' /\ heap'[waitCommit[k]] = heap[waitCommit[k]]
    BY <1>0, <2>1 DEF WaitInv, Live
  <2> QED
    BY <2>1, <2>2, OwedFrame
<1> QED
  BY <1>1, <1>2

LEMMA OwedStep ==
    ASSUME PhpInv, [PhpNext]_allVars
    PROVE  OwedIsWaiting'
<1>0. WaitInv
  BY DEF PhpInv, FiledInv
<1>1. ASSUME NEW p \in Partitions, NEW o \in Obj, ConsumeMessage(p, o) PROVE OwedIsWaiting'
  BY <1>1, ConsumeMessageOwed
<1>2. ASSUME NEW o \in Obj, PhpCommit(o) PROVE OwedIsWaiting'
  BY <1>2, PhpCommitOwed
<1>3. CASE ConsumeTick \/ PhpRevoke \/ PhpStopCommit \/ (PhpStopClose /\ hasAssigned)
  BY <1>3, Rounds, RoundOwed
<1>4. CASE PhpCommitEnd
  <2>1. /\ TypeOK /\ ListInv /\ ucommit \in Live /\ appPc = "run" /\ appPc' = "run"
        /\ RemoveWaitDestroyMsgs(ucommit)
        /\ UNCHANGED <<owed, displaced, waitCommit>>
    BY <1>4, PhpCommitEndMaps
  <2>2. appPc \notin Ending
    BY <2>1 DEF Ending
  <2>3. \A x \in Live' : heap'[x] = heap[x]
    BY <2>1, <2>2, RemoveLists
  <2>4. WaitInv'
    BY <1>4, PhpCommitEndFiled DEF FiledInv
  <2>5. \A k \in DOMAIN waitCommit :
           waitCommit[k] \in Live' /\ heap'[waitCommit[k]] = heap[waitCommit[k]]
    BY <2>1, <2>3, <2>4 DEF WaitInv
  <2> QED
    BY <2>1, <2>5, OwedFrame
<1>5. CASE PhpStopClear
  <2>1. /\ DOMAIN waitCommit' = {} /\ appPc' = "closing"
        /\ UNCHANGED <<waitCommit, owed, displaced>>
    BY <1>5, PhpStopClearMaps
  <2>2. /\ \A k \in DOMAIN waitCommit :
              waitCommit[k] \in Live' /\ heap'[waitCommit[k]] = heap[waitCommit[k]]
        /\ appPc' = "stopped" => appPc \in {"closing", "stopped"}
    BY <2>1
  <2> QED
    BY <2>1, <2>2, OwedFrame
<1>6. CASE CalmStep
  <2>1. /\ UNCHANGED <<waitCommit, heap, owed, displaced>>
        /\ appPc' = "stopped" => appPc \in {"closing", "stopped"}
    BY <1>6, CalmSteps DEF Calm, mapVars
  <2>2. \A k \in DOMAIN waitCommit :
           waitCommit[k] \in Live' /\ heap'[waitCommit[k]] = heap[waitCommit[k]]
    BY <1>0, <2>1 DEF WaitInv, Live
  <2> QED
    BY <2>1, <2>2, OwedFrame
<1> QED
  BY <1>1, <1>2, <1>3, <1>4, <1>5, <1>6, Kinds

-----------------------------------------------------------------------------
(* Paused topics *)

LEMMA QuietStep ==
    ASSUME PhpInv, [PhpNext]_allVars
    PROVE  QuietInv'
<1> USE DEF pauseVars, waitVars, brokerVars, userVars, threadVars, phpVars,
            QuietInv, PauseCoversAssignment, PausedStaysQuiet
<1>0. CallsInv /\ GoneInv /\ QuietInv
  BY DEF PhpInv
<1>1. ASSUME UNCHANGED <<tps, hasAssigned, paused, assigned, quiet>>,
             startFlag' => startFlag
      PROVE  QuietInv'
  BY <1>0, <1>1
<1>2. CASE Consume \/ PollNullHandle \/ ConsumeNothing
  BY <1>1, <1>2 DEF Consume, PollNullHandle, ConsumeNothing, vars
<1>3. CASE ConsumeTick \/ PhpStopCommit
  BY <1>1, <1>3 DEF ConsumeTick, PhpStopCommit
<1>4. ASSUME NEW p \in Partitions, ConsumeEmpty(p) PROVE QuietInv'
  BY <1>1, <1>4 DEF ConsumeEmpty
<1>5. ASSUME NEW p \in Partitions, NEW o \in Obj, ConsumeMessage(p, o) PROVE QuietInv'
  BY <1>1, <1>5 DEF ConsumeMessage
<1>6. ASSUME NEW S \in SUBSET Partitions, PhpAssign(S) PROVE QuietInv'
  BY <1>6 DEF PhpAssign, Assign
<1>7. CASE PhpRevoke
  BY <1>7 DEF PhpRevoke, Revoke, RevokeCallback
<1>8. CASE PhpRebalanceError
  BY <1>8 DEF PhpRebalanceError, RebalanceError
<1>9. CASE Process
  BY <1>1, <1>9 DEF Process
<1>10. CASE PhpStart
  <2>1. ~hasAssigned /\ UNCHANGED <<tps, hasAssigned, paused, assigned, quiet>>
    BY <1>0, <1>10 DEF PhpStart, Script, CallsInv, GoneInv
  <2> QED
    BY <1>0, <2>1
<1>11. CASE PhpStop
  <2>1. UNCHANGED <<hasAssigned, paused, assigned, quiet>>
        /\ (startFlag' = FALSE \/ (startFlag' = startFlag /\ tps' = tps))
    BY <1>11 DEF PhpStop, Stop
  <2> QED
    BY <1>0, <2>1
<1>12. CASE PhpStopClear
  BY <1>1, <1>12 DEF PhpStopClear, StopClear
<1>13. CASE PhpStopClose
  <2>1. quiet' = {} /\ startFlag' = startFlag
        /\ (hasAssigned' = FALSE \/ UNCHANGED <<tps, hasAssigned, assigned>>)
    BY <1>13 DEF PhpStopClose, StopClose, RevokeCallback
  <2> QED
    BY <1>0, <2>1
<1>14. ASSUME NEW o \in Obj, PhpCommit(o) PROVE QuietInv'
  BY <1>1, <1>14 DEF PhpCommit, UserCommit
<1>15. CASE PhpCommitEnd
  BY <1>1, <1>15 DEF PhpCommitEnd, UserCommitEnd
<1>16. ASSUME NEW ts \in PauseSets, Pause(ts) PROVE QuietInv'
  <2>1. /\ startFlag /\ hasAssigned
        /\ paused' = paused \cup ({p \in tps : TopicOf[p] \in ts} \cap assigned)
        /\ quiet' = quiet \cup ts
        /\ UNCHANGED <<startFlag, tps, hasAssigned, assigned>>
    BY <1>16 DEF Pause
  <2> QED
    BY <1>0, <2>1
<1>17. ASSUME NEW ts \in PauseSets, Resume(ts) PROVE QuietInv'
  <2>1. /\ paused' = paused \ {p \in tps : TopicOf[p] \in ts}
        /\ quiet' = quiet \ ts
        /\ UNCHANGED <<startFlag, tps, hasAssigned, assigned>>
    BY <1>17 DEF Resume
  <2> QED
    BY <1>0, <2>1
<1>18. ASSUME NEW p \in Partitions, GroupStep(p) PROVE QuietInv'
  BY <1>1, <1>18 DEF GroupStep, AutoCommit, OtherProcesses, OtherCommits
<1>19. CASE TimePasses /\ UNCHANGED phpVars
  BY <1>1, <1>19 DEF TimePasses
<1>20. CASE UNCHANGED allVars
  BY <1>1, <1>20 DEF allVars, vars
<1> QED
  BY <1>2, <1>3, <1>4, <1>5, <1>6, <1>7, <1>8, <1>9, <1>10, <1>11, <1>12, <1>13, <1>14, <1>15,
     <1>16, <1>17, <1>18, <1>19, <1>20
     DEF PhpNext, ConsumeCall, OtherCalls, GroupStep, Ended

-----------------------------------------------------------------------------
(* The order of the offsets, where the script does not choose them *)

\* Of an assigned partition the broker's offset is not beyond that of the message
\* that waits, which is not beyond the next one fetched, which is not beyond what
\* consume() returned.  Nothing waits of a partition that is not assigned.
PhpOrderInv ==
    /\ \A k \in DOMAIN waitCommit :
          LET m == heap[waitCommit[k]]
          IN  /\ m.part \in assigned
              /\ committed[m.part] <= m.off + 1
              /\ m.off + 1 <= pos[m.part]
    /\ \A p \in assigned : committed[p] <= pos[p] /\ pos[p] <= Returned(p)
    /\ \A p \in Partitions : Returned(p) <= MaxOffset
    /\ ~hasAssigned => assigned = {}

OrderlyInv == orderly => mode # "user" /\ PhpOrderInv

\* What a step does to the two offsets of each partition.
Forward ==
    \/ \A p \in Partitions : Returned(p)' = Returned(p) /\ committed[p] <= committed'[p]
    \/ /\ committed' = committed
       /\ \E p \in Partitions :
             /\ Returned(p) <= Returned(p)'
             /\ \A q \in Partitions \ {p} : Returned(q)' = Returned(q)

\* What is returned is a number.
LEMMA ReturnedNat == PhpTypeOK => \A p \in Partitions : Returned(p) \in Nat
<1> SUFFICES ASSUME PhpTypeOK, NEW p \in Partitions PROVE Returned(p) \in Nat
  OBVIOUS
<1>1. done[p] \in Nat /\ (got # <<>> => got[2] \in Nat)
  BY DEF PhpTypeOK, TypeOK
<1> QED
  BY <1>1 DEF Returned

LEMMA ReturnedNatNext == PhpTypeOK' => \A p \in Partitions : Returned(p)' \in Nat
<1> SUFFICES ASSUME PhpTypeOK', NEW p \in Partitions PROVE Returned(p)' \in Nat
  OBVIOUS
<1>1. done'[p] \in Nat /\ (got' # <<>> => got'[2] \in Nat)
  BY DEF PhpTypeOK, TypeOK
<1> QED
  BY <1>1 DEF Returned

\* Nothing is registered, and what still waits keeps its place.
LEMMA PhpOrderFrame ==
    ASSUME PhpInv, PhpOrderInv, PhpTypeOK',
           \A k \in DOMAIN waitCommit' : /\ k \in DOMAIN waitCommit
                                         /\ heap'[waitCommit'[k]] = heap[waitCommit[k]],
           \/ DOMAIN waitCommit' = {}
           \/ /\ assigned' = assigned
              /\ \A p \in assigned : committed'[p] = committed[p] /\ pos[p] <= pos'[p],
           \A p \in assigned' : committed'[p] <= pos'[p] /\ pos'[p] <= Returned(p)',
           \A p \in Partitions : Returned(p)' <= MaxOffset,
           ~hasAssigned' => assigned' = {}
    PROVE  PhpOrderInv'
<1>0. TypeOK /\ TypeOK' /\ WaitInv
  BY DEF PhpInv, PhpTypeOK, FiledInv
<1>1. ASSUME NEW k \in DOMAIN waitCommit'
      PROVE  /\ heap'[waitCommit'[k]].part \in assigned'
             /\ committed'[heap'[waitCommit'[k]].part] <= heap'[waitCommit'[k]].off + 1
             /\ heap'[waitCommit'[k]].off + 1 <= pos'[heap'[waitCommit'[k]].part]
  <2>1. /\ k \in DOMAIN waitCommit /\ heap'[waitCommit'[k]] = heap[waitCommit[k]]
        /\ assigned' = assigned
        /\ \A p \in assigned : committed'[p] = committed[p] /\ pos[p] <= pos'[p]
    BY <1>1
  <2>2. PICK m \in Message : m = heap[waitCommit[k]]
    BY <1>0, <2>1 DEF WaitInv, TypeOK, Live
  <2>3. m.part \in assigned /\ committed[m.part] <= m.off + 1 /\ m.off + 1 <= pos[m.part]
    BY <2>1, <2>2 DEF PhpOrderInv
  <2>4. /\ m.off \in Nat /\ pos[m.part] \in Nat /\ pos'[m.part] \in Nat
        /\ committed'[m.part] = committed[m.part] /\ pos[m.part] <= pos'[m.part]
    BY <1>0, <2>1, <2>3 DEF TypeOK, Message
  <2>5. m.off + 1 <= pos'[m.part]
    BY <2>3, <2>4
  <2> QED
    BY <2>1, <2>2, <2>3, <2>4, <2>5
<1> QED
  BY <1>1, ZenonT(30) DEF PhpOrderInv

\* A round of commits: what waits is committed or forgotten, never kept for a
\* partition that is given up.
LEMMA RoundOrder ==
    ASSUME PhpInv, PhpInv', PhpOrderInv,
           ConsumeTick \/ PhpRevoke \/ PhpStopCommit \/ (PhpStopClose /\ hasAssigned)
    PROVE  PhpOrderInv' /\ Forward
<1> USE DEF pauseVars, waitVars, brokerVars, userVars, threadVars
<1>0. PhpTypeOK /\ PhpTypeOK' /\ TypeOK /\ TypeOK' /\ WaitInv /\ GoneInv'
  BY DEF PhpInv, PhpTypeOK, FiledInv
<1>1. PICK face \in BOOLEAN : Round(face)
  BY Rounds
<1>2. CommitUnlessAuto(face) /\ UNCHANGED <<mode, pos, done, got>>
  BY <1>1 DEF Round
<1>3. \A p \in Partitions : Returned(p)' = Returned(p)
  BY <1>2 DEF Returned
<1>4. /\ \A k \in DOMAIN waitCommit' : /\ k \in DOMAIN waitCommit
                                       /\ heap'[waitCommit'[k]] = heap[waitCommit[k]]
      /\ \A p \in Partitions :
            \/ committed'[p] = committed[p]
            \/ \E k \in DOMAIN waitCommit :
                  /\ heap[waitCommit[k]].part = p
                  /\ committed'[p] = heap[waitCommit[k]].off + 1
  <2>1. /\ WaitInv' /\ \A x \in Live' : heap'[x] = heap[x]
        /\ \A k \in DOMAIN waitCommit' : k \in DOMAIN waitCommit /\ waitCommit'[k] = waitCommit[k]
        /\ \A p \in Partitions :
              \/ committed'[p] = committed[p]
              \/ \E k \in DOMAIN waitCommit :
                    /\ heap[waitCommit[k]].part = p
                    /\ committed'[p] = heap[waitCommit[k]].off + 1
    BY <1>0, <1>2, CommitKeys
  <2> QED
    BY <2>1 DEF WaitInv
<1>5. ASSUME NEW p \in Partitions
      PROVE  /\ committed[p] <= committed'[p]
             /\ p \in assigned => committed'[p] <= pos[p]
  <2>1. committed[p] \in Nat /\ (p \in assigned => committed[p] <= pos[p])
    BY <1>0 DEF TypeOK, PhpOrderInv
  <2>2. ASSUME NEW k \in DOMAIN waitCommit, heap[waitCommit[k]].part = p
        PROVE  /\ committed[p] <= heap[waitCommit[k]].off + 1
               /\ heap[waitCommit[k]].off + 1 <= pos[p]
    BY <2>2 DEF PhpOrderInv
  <2> QED
    BY <1>4, <2>1, <2>2
<1>6. /\ assigned' = assigned \/ (assigned' = {} /\ DOMAIN waitCommit' = {})
      /\ hasAssigned' = hasAssigned \/ assigned' = {}
  <2>1. CASE ConsumeTick \/ PhpStopCommit
    BY <2>1 DEF ConsumeTick, PhpStopCommit
  <2>2. CASE PhpRevoke \/ (PhpStopClose /\ hasAssigned)
    <3>1. RevokeCallback /\ mode' = mode
      BY <2>2 DEF PhpRevoke, Revoke, PhpStopClose, StopClose
    <3>2. CommitUnlessAuto(TRUE) /\ assigned' = {}
      BY <3>1 DEF RevokeCallback
    <3>3. mode = "auto" \/ DOMAIN waitCommit' = {}
      BY <1>0, <3>2, CommitEffect
    <3>4. mode' = "auto" => DOMAIN waitCommit' = {}
      BY <1>0 DEF GoneInv
    <3> QED
      BY <3>1, <3>2, <3>3, <3>4
  <2> QED
    BY <2>1, <2>2
<1>7. DOMAIN waitCommit' = {} \/ committed' = committed
  BY <1>0, <1>2, CommitEffect
<1>8. /\ assigned' \subseteq assigned /\ assigned \subseteq Partitions
      /\ \A p \in assigned : pos[p] \in Nat /\ pos[p] <= pos'[p]
  BY <1>0, <1>2, <1>6 DEF TypeOK
<1>9. \A p \in assigned' : committed'[p] <= pos'[p] /\ pos'[p] <= Returned(p)'
  BY <1>2, <1>3, <1>5, <1>8 DEF PhpOrderInv
<1>10. \A p \in Partitions : Returned(p)' <= MaxOffset
  BY <1>3 DEF PhpOrderInv
<1>11. ~hasAssigned' => assigned' = {}
  BY <1>6 DEF PhpOrderInv
<1>12. PhpOrderInv'
  BY <1>0, <1>4, <1>6, <1>7, <1>8, <1>9, <1>10, <1>11, PhpOrderFrame
<1> QED
  BY <1>3, <1>5, <1>12 DEF Forward

\* What waits after consume() has registered the message it returns.
LEMMA RegisteredWaits ==
    ASSUME PhpInv, NEW p \in Partitions, NEW o \in Obj, ConsumeMessage(p, o)
    PROVE  \A k \in DOMAIN waitCommit' :
              \/ heap'[waitCommit'[k]] = [part |-> p, off |-> pos[p]]
              \/ /\ k \in DOMAIN waitCommit
                 /\ heap'[waitCommit'[k]] = heap[waitCommit[k]]
<1> USE DEF pauseVars
<1> DEFINE h == [x \in Live \cup {o} |->
                     IF x = o THEN [part |-> p, off |-> pos[p]] ELSE heap[x]]
<1>0. TypeOK /\ WaitInv
  BY DEF PhpInv, PhpTypeOK, FiledInv
<1>1. o \notin Live /\ Keep(p, o, h)
  BY DEF ConsumeMessage
<1>2. /\ DOMAIN h = Live \cup {o} /\ o \in DOMAIN h /\ Live \subseteq DOMAIN h
      /\ h \in [DOMAIN h -> Message] /\ DOMAIN h \subseteq Obj
      /\ \A x \in Live : h[x] = heap[x]
      /\ h[o] = [part |-> p, off |-> pos[p]]
  <2>1. h = [x \in Live \cup {o} |->
                IF x = o THEN [part |-> p, off |-> pos[p]] ELSE heap[x]]
    OBVIOUS
  <2>2. h[o] = [part |-> p, off |-> pos[p]]
    OBVIOUS
  <2>3. TypeOK /\ o \notin Live
    BY <1>0, <1>1
  <2> HIDE DEF h
  <2> QED
    BY <2>1, <2>2, <2>3, Polled
<1> HIDE DEF h
<1>3. CASE AddWaitCommitOffset(o, h)
  <2>1. \A k \in DOMAIN waitCommit : waitCommit[k] # o
    BY <1>0, <1>1 DEF WaitInv
  <2>2. WaitInv' /\ \A x \in Live' : heap'[x] = h[x]
    BY <1>0, <1>2, <1>3, <2>1, AddWaitKeys
  <2>3. waitCommit' = [x \in DOMAIN waitCommit \cup {KeyOf[h[o].part]} |->
                          IF x = KeyOf[h[o].part] THEN o ELSE waitCommit[x]]
    BY <1>3 DEF AddWaitCommitOffset
  <2>4. ASSUME NEW k \in DOMAIN waitCommit', waitCommit'[k] # o
        PROVE  k \in DOMAIN waitCommit /\ heap'[waitCommit'[k]] = heap[waitCommit[k]]
    <3>1. k \in DOMAIN waitCommit /\ waitCommit'[k] = waitCommit[k]
      BY <2>3, <2>4
    <3>2. waitCommit[k] \in Live
      BY <1>0, <3>1 DEF WaitInv
    <3>3. waitCommit'[k] \in Live'
      BY <2>2 DEF WaitInv
    <3> QED
      BY <1>2, <2>2, <3>1, <3>2, <3>3
  <2>5. ASSUME NEW k \in DOMAIN waitCommit', waitCommit'[k] = o
        PROVE  heap'[waitCommit'[k]] = [part |-> p, off |-> pos[p]]
    BY <1>2, <2>2, <2>5 DEF WaitInv
  <2> QED
    BY <2>4, <2>5
<1>4. CASE waitCommit' = waitCommit /\ heap' \in {h, heap}
  <2>1. ASSUME NEW k \in DOMAIN waitCommit' PROVE heap'[waitCommit'[k]] = heap[waitCommit[k]]
    BY <1>0, <1>2, <1>4 DEF WaitInv
  <2> QED
    BY <1>4, <2>1
<1> QED
  BY <1>1, <1>3, <1>4 DEF Keep

LEMMA ConsumeMessageOrder ==
    ASSUME PhpInv, PhpInv', PhpOrderInv, mode # "user",
           NEW p \in Partitions, NEW o \in Obj, ConsumeMessage(p, o)
    PROVE  PhpOrderInv' /\ Forward
<1> USE DEF pauseVars
<1>0. PhpTypeOK /\ PhpTypeOK' /\ TypeOK /\ TypeOK' /\ WaitInv /\ CallsInv
  BY DEF PhpInv, PhpTypeOK, FiledInv
<1>1. /\ got = <<>> /\ got' = <<p, pos[p]>>
      /\ p \in assigned /\ pos[p] < MaxOffset
      /\ pos' = [pos EXCEPT ![p] = @ + 1]
      /\ UNCHANGED <<done, committed, assigned, hasAssigned>>
  BY <1>0 DEF ConsumeMessage, PollHandle, CallsInv, Keep
<1>2. /\ pos[p] \in Nat /\ pos'[p] = pos[p] + 1
      /\ \A q \in Partitions : pos[q] \in Nat /\ pos[q] <= pos'[q] /\ (q # p => pos'[q] = pos[q])
      /\ \A q \in Partitions : done[q] \in Nat /\ committed[q] \in Nat
  BY <1>0, <1>1 DEF TypeOK
<1>3. /\ \A q \in Partitions : Returned(q) = done[q]
      /\ \A q \in Partitions \ {p} : Returned(q)' = done[q]
      /\ Returned(p)' = IF pos[p] + 1 > done[p] THEN pos[p] + 1 ELSE done[p]
  <2>1. got' # <<>> /\ got'[1] = p /\ got'[2] = pos[p]
    <3>1. <<p, pos[p]>> # <<>>
      OBVIOUS
    <3>2. <<p, pos[p]>>[1] = p /\ <<p, pos[p]>>[2] = pos[p]
      OBVIOUS
    <3> QED
      BY <1>1, <3>1, <3>2
  <2> QED
    BY <1>1, <2>1 DEF Returned
<1>4. /\ \A q \in Partitions : Returned(q) <= MaxOffset
      /\ \A q \in assigned : committed[q] <= pos[q] /\ pos[q] <= Returned(q)
      /\ MaxOffset \in Nat /\ assigned \subseteq Partitions
  BY <1>0 DEF PhpOrderInv, TypeOK
<1>5. \A q \in assigned' : committed'[q] <= pos'[q] /\ pos'[q] <= Returned(q)'
  <2> SUFFICES ASSUME NEW q \in assigned PROVE committed[q] <= pos'[q] /\ pos'[q] <= Returned(q)'
    BY <1>1
  <2> QED
    BY <1>2, <1>3, <1>4
<1>6. \A q \in Partitions : Returned(q)' <= MaxOffset
  BY <1>1, <1>2, <1>3, <1>4
<1>7. ASSUME NEW k \in DOMAIN waitCommit'
      PROVE  /\ heap'[waitCommit'[k]].part \in assigned'
             /\ committed'[heap'[waitCommit'[k]].part] <= heap'[waitCommit'[k]].off + 1
             /\ heap'[waitCommit'[k]].off + 1 <= pos'[heap'[waitCommit'[k]].part]
  <2>1. CASE heap'[waitCommit'[k]] = [part |-> p, off |-> pos[p]]
    <3>1. heap'[waitCommit'[k]].part = p /\ heap'[waitCommit'[k]].off = pos[p]
      BY <2>1
    <3>2. committed[p] <= pos[p] + 1 /\ pos[p] + 1 <= pos'[p]
      BY <1>1, <1>2, <1>4
    <3> QED
      BY <1>1, <3>1, <3>2
  <2>2. CASE k \in DOMAIN waitCommit /\ heap'[waitCommit'[k]] = heap[waitCommit[k]]
    <3>1. PICK m \in Message : m = heap[waitCommit[k]]
      BY <1>0, <2>2 DEF WaitInv, TypeOK, Live
    <3>2. m.part \in assigned /\ committed[m.part] <= m.off + 1 /\ m.off + 1 <= pos[m.part]
      BY <2>2, <3>1 DEF PhpOrderInv
    <3>3. m.off \in Nat /\ pos[m.part] \in Nat /\ pos'[m.part] \in Nat /\ pos[m.part] <= pos'[m.part]
      BY <1>0, <1>2, <1>4, <3>2 DEF Message, TypeOK
    <3>4. m.off + 1 <= pos'[m.part]
      BY <3>2, <3>3
    <3> QED
      BY <1>1, <2>2, <3>1, <3>2, <3>4
  <2> QED
    BY <2>1, <2>2, RegisteredWaits
<1>8. ~hasAssigned' => assigned' = {}
  BY <1>1 DEF PhpOrderInv
<1>9. PhpOrderInv'
  BY <1>5, <1>6, <1>7, <1>8, ZenonT(30) DEF PhpOrderInv
<1>10. Returned(p) <= Returned(p)' /\ \A q \in Partitions \ {p} : Returned(q)' = Returned(q)
  BY <1>2, <1>3
<1> QED
  BY <1>1, <1>9, <1>10 DEF Forward

\* Steps that leave the maps alone.
LEMMA CalmOrder ==
    ASSUME PhpInv, PhpInv', PhpOrderInv, CalmStep,
           PhpRebalanceError => DOMAIN waitCommit = {}
    PROVE  PhpOrderInv' /\ Forward
<1> USE DEF pauseVars, waitVars, brokerVars, userVars, threadVars, phpVars
<1>0. /\ PhpTypeOK /\ PhpTypeOK' /\ TypeOK /\ TypeOK' /\ CallsInv /\ GoneInv
      /\ ReturnedInv /\ ReturnedInv' /\ MaxOffset \in Nat
  BY DEF PhpInv, PhpTypeOK
<1>1. \A k \in DOMAIN waitCommit' : /\ k \in DOMAIN waitCommit
                                    /\ heap'[waitCommit'[k]] = heap[waitCommit[k]]
  BY CalmSteps DEF Calm, mapVars
<1>2. /\ assigned \subseteq Partitions /\ assigned' \subseteq Partitions
      /\ \A p \in Partitions :
            /\ done[p] \in Nat /\ committed[p] \in Nat /\ pos[p] \in Nat
            /\ Returned(p) \in Nat /\ Returned(p)' \in Nat
            /\ Returned(p) <= MaxOffset /\ committed[p] <= Returned(p)
      /\ \A p \in assigned : committed[p] <= pos[p] /\ pos[p] <= Returned(p)
  <2>1. /\ assigned \subseteq Partitions /\ assigned' \subseteq Partitions
        /\ \A p \in Partitions : done[p] \in Nat /\ committed[p] \in Nat /\ pos[p] \in Nat
    BY <1>0 DEF TypeOK
  <2>2. \A p \in Partitions : Returned(p) \in Nat /\ Returned(p)' \in Nat
    BY <1>0, ReturnedNat, ReturnedNatNext
  <2>3. /\ \A p \in Partitions : Returned(p) <= MaxOffset
        /\ \A p \in assigned : committed[p] <= pos[p] /\ pos[p] <= Returned(p)
    BY DEF PhpOrderInv
  <2>4. \A p \in Partitions : committed[p] <= Returned(p)
    BY <1>0 DEF ReturnedInv
  <2> QED
    BY <2>1, <2>2, <2>3, <2>4
<1>3. ASSUME UNCHANGED <<done, got, committed, pos, assigned, hasAssigned>>
      PROVE  PhpOrderInv' /\ Forward
  <2>1. \A p \in Partitions : Returned(p)' = Returned(p) /\ committed[p] <= committed'[p]
    BY <1>2, <1>3 DEF Returned
  <2>2. \A p \in assigned' : committed'[p] <= pos'[p] /\ pos'[p] <= Returned(p)'
    BY <1>2, <1>3, <2>1
  <2>3. \A p \in Partitions : Returned(p)' <= MaxOffset
    BY <1>2, <2>1
  <2>4. \A p \in assigned : committed'[p] = committed[p] /\ pos[p] <= pos'[p]
    BY <1>2, <1>3
  <2>5. ~hasAssigned' => assigned' = {}
    BY <1>3 DEF PhpOrderInv
  <2> QED
    BY <1>0, <1>1, <1>3, <2>1, <2>2, <2>3, <2>4, <2>5, PhpOrderFrame DEF Forward
<1>4. ASSUME NEW p \in Partitions, ConsumeEmpty(p) PROVE PhpOrderInv' /\ Forward
  <2>1. /\ p \in assigned /\ pos[p] < MaxOffset /\ got = <<>> /\ got' = <<>>
        /\ pos' = [pos EXCEPT ![p] = @ + 1] /\ Processed(p, pos[p] + 1)
        /\ UNCHANGED <<assigned, hasAssigned, committed>>
    BY <1>0, <1>4 DEF ConsumeEmpty, PollHandle, CallsInv
  <2>2. /\ \A q \in Partitions : Returned(q) = done[q] /\ Returned(q)' = done'[q]
        /\ \A q \in Partitions \ {p} : done'[q] = done[q] /\ pos'[q] = pos[q]
        /\ done'[p] = IF pos[p] + 1 > done[p] THEN pos[p] + 1 ELSE done[p]
        /\ pos'[p] = pos[p] + 1
    BY <1>0, <2>1 DEF Returned, Processed, TypeOK
  <2>3. \A q \in assigned' : committed'[q] <= pos'[q] /\ pos'[q] <= Returned(q)'
    <3> SUFFICES ASSUME NEW q \in assigned PROVE committed[q] <= pos'[q] /\ pos'[q] <= done'[q]
      BY <1>2, <2>1, <2>2
    <3> QED
      BY <1>2, <2>2
  <2>4. \A q \in Partitions : Returned(q)' <= MaxOffset
    <3>1. done[p] <= MaxOffset /\ pos[p] + 1 <= MaxOffset
      BY <1>0, <1>2, <2>1, <2>2
    <3>2. done'[p] <= MaxOffset
      BY <2>2, <3>1
    <3>3. \A q \in Partitions \ {p} : done'[q] <= MaxOffset
      BY <1>2, <2>2
    <3> QED
      BY <2>2, <3>2, <3>3
  <2>5. \A q \in assigned : committed'[q] = committed[q] /\ pos[q] <= pos'[q]
    BY <1>2, <2>1, <2>2
  <2>6. ~hasAssigned' => assigned' = {}
    BY <2>1 DEF PhpOrderInv
  <2>7. Returned(p) <= Returned(p)' /\ \A q \in Partitions \ {p} : Returned(q)' = Returned(q)
    BY <1>2, <2>2
  <2> QED
    BY <1>0, <1>1, <2>1, <2>3, <2>4, <2>5, <2>6, <2>7, PhpOrderFrame DEF Forward
<1>5. ASSUME NEW S \in SUBSET Partitions, PhpAssign(S) PROVE PhpOrderInv' /\ Forward
  <2>1. /\ UNCHANGED <<done, got, committed, waitCommit>> /\ assigned = {} /\ assigned' = S
        /\ hasAssigned' = TRUE
        /\ pos' = [p \in Partitions |-> IF p \in S THEN committed[p] ELSE pos[p]]
    BY <1>5 DEF PhpAssign, Assign
  <2>2. \A p \in Partitions : Returned(p)' = Returned(p) /\ committed[p] <= committed'[p]
    BY <1>2, <2>1 DEF Returned
  <2>3. DOMAIN waitCommit' = {}
    BY <2>1 DEF PhpOrderInv
  <2>4. \A p \in assigned' : committed'[p] <= pos'[p] /\ pos'[p] <= Returned(p)'
    BY <1>2, <2>1, <2>2
  <2>5. \A p \in Partitions : Returned(p)' <= MaxOffset
    BY <1>2, <2>2
  <2> QED
    BY <1>0, <1>1, <2>1, <2>2, <2>3, <2>4, <2>5, PhpOrderFrame DEF Forward
<1>6. CASE Process
  <2>1. /\ got # <<>> /\ Processed(got[1], got[2] + 1) /\ got' = <<>>
        /\ UNCHANGED <<committed, pos, assigned, hasAssigned>>
        /\ got \in Partitions \X Nat /\ got[1] \in Partitions /\ got[2] \in Nat
    BY <1>0, <1>6 DEF Process, PhpTypeOK
  <2>2. \A p \in Partitions : Returned(p)' = Returned(p) /\ committed[p] <= committed'[p]
    <3>1. \A p \in Partitions : Returned(p)' = done'[p]
      BY <2>1 DEF Returned
    <3>2. \A p \in Partitions :
             done'[p] = IF p = got[1] /\ got[2] + 1 > done[p] THEN got[2] + 1 ELSE done[p]
      BY <1>0, <2>1 DEF Processed, TypeOK
    <3> QED
      BY <1>2, <2>1, <3>1, <3>2 DEF Returned
  <2>3. \A p \in assigned' : committed'[p] <= pos'[p] /\ pos'[p] <= Returned(p)'
    BY <1>2, <2>1, <2>2
  <2>4. \A p \in Partitions : Returned(p)' <= MaxOffset
    BY <1>2, <2>2
  <2>5. \A p \in assigned : committed'[p] = committed[p] /\ pos[p] <= pos'[p]
    BY <1>2, <2>1
  <2>6. ~hasAssigned' => assigned' = {}
    BY <2>1 DEF PhpOrderInv
  <2> QED
    BY <1>0, <1>1, <2>1, <2>2, <2>3, <2>4, <2>5, <2>6, PhpOrderFrame DEF Forward
<1>7. ASSUME NEW p \in Partitions, AutoCommit(p), UNCHANGED phpVars PROVE PhpOrderInv' /\ Forward
  <2>1. /\ mode = "auto" /\ p \in assigned /\ committed[p] < pos[p]
        /\ committed' = [committed EXCEPT ![p] = pos[p]]
        /\ UNCHANGED <<done, got, pos, assigned, hasAssigned, waitCommit>>
    BY <1>7 DEF AutoCommit
  <2>2. committed' = [q \in Partitions |-> IF q = p THEN pos[p] ELSE committed[q]]
    BY <1>0, <2>1 DEF TypeOK
  <2>3. \A q \in Partitions : Returned(q)' = Returned(q) /\ committed[q] <= committed'[q]
    BY <1>2, <2>1, <2>2 DEF Returned
  <2>4. DOMAIN waitCommit' = {}
    BY <1>0, <2>1 DEF GoneInv
  <2>5. \A q \in assigned' : committed'[q] <= pos'[q] /\ pos'[q] <= Returned(q)'
    BY <1>2, <2>1, <2>2, <2>3
  <2>6. \A q \in Partitions : Returned(q)' <= MaxOffset
    BY <1>2, <2>3
  <2>7. ~hasAssigned' => assigned' = {}
    BY <2>1 DEF PhpOrderInv
  <2> QED
    BY <1>0, <1>1, <2>3, <2>4, <2>5, <2>6, <2>7, PhpOrderFrame DEF Forward
<1>8. ASSUME NEW p \in Partitions, OtherCommits(p), UNCHANGED phpVars PROVE PhpOrderInv' /\ Forward
  <2>1. /\ p \notin assigned
        /\ committed' = [committed EXCEPT ![p] = @ + 1]
        /\ UNCHANGED <<done, got, pos, assigned, hasAssigned>>
    BY <1>8 DEF OtherCommits
  <2>2. committed' = [q \in Partitions |-> IF q = p THEN committed[p] + 1 ELSE committed[q]]
    BY <1>0, <2>1 DEF TypeOK
  <2>3. \A q \in Partitions : Returned(q)' = Returned(q) /\ committed[q] <= committed'[q]
    BY <1>2, <2>1, <2>2 DEF Returned
  <2>4. \A q \in assigned : committed'[q] = committed[q] /\ pos[q] <= pos'[q]
    BY <1>2, <2>1, <2>2
  <2>5. \A q \in assigned' : committed'[q] <= pos'[q] /\ pos'[q] <= Returned(q)'
    BY <1>2, <2>1, <2>3, <2>4
  <2>6. \A q \in Partitions : Returned(q)' <= MaxOffset
    BY <1>2, <2>3
  <2>7. ~hasAssigned' => assigned' = {}
    BY <2>1 DEF PhpOrderInv
  <2> QED
    BY <1>0, <1>1, <2>1, <2>3, <2>4, <2>5, <2>6, <2>7, PhpOrderFrame DEF Forward
<1>9. ASSUME NEW p \in Partitions, OtherProcesses(p), UNCHANGED phpVars PROVE PhpOrderInv' /\ Forward
  <2>1. /\ p \notin assigned /\ done[p] < MaxOffset
        /\ done' = [done EXCEPT ![p] = @ + 1]
        /\ UNCHANGED <<committed, got, pos, assigned, hasAssigned>>
    BY <1>9 DEF OtherProcesses
  <2>2. done' = [q \in Partitions |-> IF q = p THEN done[p] + 1 ELSE done[q]]
    BY <1>0, <2>1 DEF TypeOK
  <2>3. \A q \in Partitions \ {p} : Returned(q)' = Returned(q)
    BY <2>1, <2>2 DEF Returned
  <2>4. Returned(p) <= Returned(p)' /\ Returned(p)' <= MaxOffset
    <3>1. got # <<>> => got[2] \in Nat
      BY <1>0 DEF PhpTypeOK
    <3>2. done'[p] = done[p] + 1 /\ got' = got
      BY <2>1, <2>2
    <3> QED
      BY <1>0, <1>2, <2>1, <3>1, <3>2 DEF Returned
  <2>5. \A q \in assigned' : committed'[q] <= pos'[q] /\ pos'[q] <= Returned(q)'
    BY <1>2, <2>1, <2>3
  <2>6. \A q \in Partitions : Returned(q)' <= MaxOffset
    BY <1>2, <2>3, <2>4
  <2>7. \A q \in assigned : committed'[q] = committed[q] /\ pos[q] <= pos'[q]
    BY <1>2, <2>1
  <2>8. ~hasAssigned' => assigned' = {}
    BY <2>1 DEF PhpOrderInv
  <2> QED
    BY <1>0, <1>1, <2>1, <2>3, <2>4, <2>5, <2>6, <2>7, <2>8, PhpOrderFrame DEF Forward
<1>10. CASE Consume \/ PollNullHandle \/ ConsumeNothing
  BY <1>3, <1>10 DEF Consume, PollNullHandle, ConsumeNothing, vars
<1>11. CASE PhpRebalanceError
  <2>1. /\ UNCHANGED <<done, got, committed, pos, waitCommit>>
        /\ assigned' = {} /\ DOMAIN waitCommit' = {}
    BY <1>11 DEF PhpRebalanceError, RebalanceError
  <2>2. \A p \in Partitions : Returned(p)' = Returned(p) /\ committed[p] <= committed'[p]
    BY <1>2, <2>1 DEF Returned
  <2>3. \A p \in Partitions : Returned(p)' <= MaxOffset
    BY <1>2, <2>2
  <2> QED
    BY <1>0, <1>1, <2>1, <2>2, <2>3, PhpOrderFrame DEF Forward
<1>12. CASE PhpStart \/ (PhpStopClose /\ ~hasAssigned)
  BY <1>3, <1>12 DEF PhpStart, PhpStopClose, StopClose
<1>13. CASE PhpStop
  BY <1>3, <1>13 DEF PhpStop, Stop
<1>14. ASSUME NEW ts \in PauseSets, Pause(ts) \/ Resume(ts) PROVE PhpOrderInv' /\ Forward
  BY <1>3, <1>14 DEF Pause, Resume
<1>15. CASE (TimePasses /\ UNCHANGED phpVars) \/ UNCHANGED allVars
  BY <1>3, <1>15 DEF TimePasses, allVars, vars
<1> QED
  BY <1>4, <1>5, <1>6, <1>7, <1>8, <1>9, <1>10, <1>11, <1>12, <1>13, <1>14, <1>15
     DEF CalmStep, GroupStep

\* Only an error that drops partitions while a message waits ends the order.
LEMMA OrderlyStep ==
    ASSUME PhpInv, [PhpNext]_allVars
    PROVE  \/ orderly' = orderly /\ ~PhpRebalanceError
           \/ PhpRebalanceError /\ orderly' = (orderly /\ DOMAIN waitCommit = {})
<1> USE DEF phpVars
<1>1. CASE PhpRebalanceError
  BY <1>1 DEF PhpRebalanceError
<1>2. ASSUME ~PhpRebalanceError PROVE orderly' = orderly
  <2>1. CASE Consume \/ PollNullHandle \/ ConsumeNothing \/ ConsumeTick
    BY <2>1 DEF Consume, PollNullHandle, ConsumeNothing, ConsumeTick
  <2>2. ASSUME NEW p \in Partitions, ConsumeEmpty(p) PROVE orderly' = orderly
    BY <2>2 DEF ConsumeEmpty
  <2>3. ASSUME NEW p \in Partitions, NEW o \in Obj, ConsumeMessage(p, o) PROVE orderly' = orderly
    BY <2>3 DEF ConsumeMessage
  <2>4. ASSUME NEW S \in SUBSET Partitions, PhpAssign(S) PROVE orderly' = orderly
    BY <2>4 DEF PhpAssign
  <2>5. CASE PhpRevoke \/ Process \/ PhpStart \/ PhpStop
    BY <2>5 DEF PhpRevoke, Process, PhpStart, PhpStop
  <2>6. CASE PhpStopCommit \/ PhpStopClear \/ PhpStopClose
    BY <2>6 DEF PhpStopCommit, PhpStopClear, PhpStopClose
  <2>7. ASSUME NEW o \in Obj, PhpCommit(o) PROVE orderly' = orderly
    BY <2>7 DEF PhpCommit
  <2>8. ASSUME NEW ts \in PauseSets, Pause(ts) \/ Resume(ts) PROVE orderly' = orderly
    BY <2>8 DEF Pause, Resume
  <2>9. CASE PhpCommitEnd \/ UNCHANGED phpVars \/ UNCHANGED allVars
    BY <2>9 DEF PhpCommitEnd, allVars
  <2> QED
    BY <1>2, <2>1, <2>2, <2>3, <2>4, <2>5, <2>6, <2>7, <2>8, <2>9
       DEF PhpNext, ConsumeCall, OtherCalls, Ended
<1> QED
  BY <1>1, <1>2

\* Every step keeps the order of the offsets and moves them forward.
LEMMA PhpOrderStep ==
    ASSUME PhpInv, PhpInv', OrderlyInv, orderly', [PhpNext]_allVars
    PROVE  mode' = mode /\ mode # "user" /\ PhpOrderInv' /\ Forward
<1> USE DEF pauseVars, waitVars, brokerVars, userVars, threadVars
<1>0. /\ TypeOK /\ CallsInv /\ mode # "user" /\ PhpOrderInv
      /\ PhpRebalanceError => DOMAIN waitCommit = {}
  BY OrderlyStep DEF PhpInv, PhpTypeOK, OrderlyInv
<1>1. ASSUME NEW p \in Partitions, NEW o \in Obj, ConsumeMessage(p, o)
      PROVE  mode' = mode /\ PhpOrderInv' /\ Forward
  BY <1>0, <1>1, ConsumeMessageOrder DEF ConsumeMessage
<1>2. CASE ConsumeTick \/ PhpRevoke \/ PhpStopCommit \/ (PhpStopClose /\ hasAssigned)
  <2>1. mode' = mode
    BY <1>2, Rounds DEF Round
  <2> QED
    BY <1>0, <1>2, <2>1, RoundOrder
<1>3. \A o \in Obj : ~PhpCommit(o)
  BY <1>0 DEF PhpCommit, UserCommit, MayCommit
<1>4. ~PhpCommitEnd
  BY <1>0 DEF PhpCommitEnd, UserCommitEnd, CallsInv
<1>5. CASE PhpStopClear
  <2>1. /\ DOMAIN waitCommit' = {}
        /\ UNCHANGED <<mode, done, committed, pos, assigned, got>>
    BY <1>5, PhpStopClearMaps
  <2>2. hasAssigned' = hasAssigned
    BY <1>5 DEF PhpStopClear, StopClear, pauseVars
  <2>3. \A p \in Partitions : Returned(p)' = Returned(p) /\ committed[p] \in Nat
    BY <1>0, <2>1 DEF Returned, TypeOK
  <2>4. \A p \in assigned' : p \in Partitions /\ p \in assigned
    BY <1>0, <2>1 DEF TypeOK
  <2>5. /\ \A p \in assigned' : committed'[p] <= pos'[p] /\ pos'[p] <= Returned(p)'
        /\ \A p \in Partitions : Returned(p)' <= MaxOffset
        /\ ~hasAssigned' => assigned' = {}
    BY <1>0, <2>1, <2>2, <2>3, <2>4 DEF PhpOrderInv
  <2>6. PhpOrderInv'
    BY <2>1, <2>5, Zenon DEF PhpOrderInv
  <2> QED
    BY <1>0, <2>1, <2>3, <2>6 DEF Forward
<1>6. CASE CalmStep
  <2>1. mode' = mode
    BY <1>6, CalmSteps DEF Calm, mapVars
  <2> QED
    BY <1>0, <1>6, <2>1, CalmOrder
<1> QED
  BY <1>0, <1>1, <1>2, <1>3, <1>4, <1>5, <1>6, Kinds

\* Forward is what GroupOffsets allows to what was returned.
LEMMA ForwardIsGroup ==
    ASSUME PhpInv, PhpInv', PhpOrderInv', Forward
    PROVE  [ReturnedGroup!Next]_(ReturnedGroup!vars)
<1> DEFINE ret == [p \in Partitions |-> Returned(p)]
           retNext == [p \in Partitions |-> Returned(p)']
<1>0. /\ \A p \in Partitions : /\ Returned(p) \in Nat /\ Returned(p)' \in Nat
                               /\ Returned(p)' <= MaxOffset /\ committed'[p] <= Returned(p)'
                               /\ committed[p] \in Nat /\ committed'[p] \in Nat
      /\ committed \in [Partitions -> Nat] /\ committed' \in [Partitions -> Nat]
      /\ MaxOffset \in Nat
  <2>1. PhpTypeOK /\ PhpTypeOK' /\ TypeOK /\ TypeOK' /\ ReturnedInv' /\ MaxOffset \in Nat
    BY DEF PhpInv, PhpTypeOK
  <2>2. committed \in [Partitions -> Nat] /\ committed' \in [Partitions -> Nat]
    BY <2>1 DEF TypeOK
  <2>3. \A p \in Partitions : Returned(p) \in Nat /\ Returned(p)' \in Nat
    BY <2>1, ReturnedNat, ReturnedNatNext
  <2>4. \A p \in Partitions : Returned(p)' <= MaxOffset /\ committed'[p] <= Returned(p)'
    BY <2>1 DEF PhpOrderInv, ReturnedInv
  <2> QED
    BY <2>1, <2>2, <2>3, <2>4
<1>1. CASE \A p \in Partitions : Returned(p)' = Returned(p) /\ committed[p] <= committed'[p]
  <2>1. retNext = ret
    BY <1>1
  <2>2. \A p \in Partitions : committed'[p] \in 0 .. MaxOffset
                              /\ committed'[p] \in committed[p] .. ret[p]
    BY <1>0, <1>1
  <2>3. committed' \in [Partitions -> 0 .. MaxOffset]
    BY <1>0, <2>2
  <2>4. ReturnedGroup!Commit
    BY <2>1, <2>2, <2>3 DEF ReturnedGroup!Commit
  <2> QED
    BY <2>4 DEF ReturnedGroup!Next
<1>2. ASSUME committed' = committed,
             NEW p \in Partitions, Returned(p) <= Returned(p)',
             \A q \in Partitions \ {p} : Returned(q)' = Returned(q)
      PROVE  [ReturnedGroup!Next]_(ReturnedGroup!vars)
  <2>1. CASE Returned(p)' = Returned(p)
    <3>1. retNext = ret
      BY <1>2, <2>1
    <3> QED
      BY <1>2, <3>1 DEF ReturnedGroup!vars
  <2>2. CASE Returned(p)' # Returned(p)
    <3>1. Returned(p)' \in ret[p] + 1 .. MaxOffset
      BY <1>0, <1>2, <2>2
    <3>2. retNext = [ret EXCEPT ![p] = Returned(p)']
      BY <1>2
    <3>3. ReturnedGroup!Process(p)
      BY <1>2, <3>1, <3>2 DEF ReturnedGroup!Process
    <3> QED
      BY <3>3 DEF ReturnedGroup!Next
  <2> QED
    BY <2>1, <2>2
<1> QED
  BY <1>1, <1>2 DEF Forward

-----------------------------------------------------------------------------
(* The theorems *)

LEMMA PhpInitInv == PhpInit => PhpInv
<1> SUFFICES ASSUME PhpInit PROVE PhpInv
  OBVIOUS
<1>0. /\ Init /\ got = <<>> /\ owed = [p \in Partitions |-> 0] /\ quiet = {}
      /\ restarted = FALSE /\ crashed = FALSE /\ displaced = {} /\ mixed = FALSE
      /\ orderly \in BOOLEAN
  BY DEF PhpInit
<1>1. TypeOK
  BY <1>0, InitTypes DEF TypeInv
<1>2. PhpTypeOK
  BY <1>0, <1>1 DEF PhpTypeOK
<1>3. /\ startFlag = FALSE /\ pollPc = "idle" /\ appPc = "ready" /\ ucommit = None
      /\ DOMAIN waitCommit = {} /\ waitDestroy = [k \in Keys |-> <<>>]
      /\ Live = {} /\ held = {} /\ ~hasAssigned /\ assigned = {} /\ ~misuse
      /\ committed = [p \in Partitions |-> 0] /\ done = [p \in Partitions |-> 0]
  BY <1>0 DEF Init, EmptyMap, Live
<1>4. CallsInv /\ GoneInv
  BY <1>0, <1>3 DEF CallsInv, GoneInv, NothingLeft, StopPast
<1>5. FiledInv
  BY <1>3 DEF FiledInv, WaitInv, ListInv
<1>6. AlikeInv
  BY <1>3 DEF AlikeInv, ListsMix
<1>7. ReturnedInv
  BY <1>0, <1>3 DEF ReturnedInv, Returned
<1>8. OwedIsWaiting /\ QuietInv
  BY <1>0, <1>3 DEF OwedIsWaiting, QuietInv, PauseCoversAssignment, PausedStaysQuiet
<1> QED
  BY <1>2, <1>4, <1>5, <1>6, <1>7, <1>8 DEF PhpInv

LEMMA PhpStep == PhpInv /\ [PhpNext]_allVars => PhpInv'
<1> SUFFICES ASSUME PhpInv, [PhpNext]_allVars PROVE PhpInv'
  OBVIOUS
<1>1. PhpTypeOK'
  BY PhpTypesStep
<1>2. CallsInv' /\ GoneInv'
  <2>1. PhpTypeOK /\ CallsInv /\ GoneInv
    BY DEF PhpInv
  <2> QED
    BY <2>1, CallsStep, GoneStep
<1>3. FiledInv' /\ AlikeInv'
  BY FiledStep, AlikeStep
<1>4. ReturnedInv'
  BY <1>1, ReturnedStep
<1>5. OwedIsWaiting' /\ QuietInv'
  BY OwedStep, QuietStep
<1> QED
  BY <1>1, <1>2, <1>3, <1>4, <1>5 DEF PhpInv

LEMMA PhpInvAlways == PhpSpec => []PhpInv
BY PhpInitInv, PhpStep, PTL DEF PhpSpec

\* What the script sees of the consumer keeps its types (KafkaPhpConsumer's
\* variables, those of the class and those of the calls).
THEOREM PhpTypeCorrect == PhpSpec => []PhpTypeOK
<1>1. PhpInv => PhpTypeOK
  BY DEF PhpInv
<1> QED
  BY <1>1, PhpInvAlways, PTL

\* The commits at the end of consume(), in the rebalance callback and in stop()
\* commit at most the one message that consume() returned and the script has
\* not processed.
THEOREM CommitsReturnedAlways == PhpSpec => []CommitsReturned
<1>1. PhpInv => CommitsReturned
  <2> SUFFICES ASSUME PhpInv, NEW p \in Partitions
               PROVE  \/ committed[p] <= done[p]
                      \/ got # <<>> /\ got[1] = p /\ committed[p] <= got[2] + 1
    BY DEF CommitsReturned
  <2>1. committed[p] <= Returned(p)
    BY DEF PhpInv, ReturnedInv
  <2> QED
    BY <2>1 DEF Returned
<1> QED
  BY <1>1, PhpInvAlways, PTL

\* An offset that commitOffset() or consume() registered waits until a round
\* of commits has tried it, unless a partition with the same key displaced it.
THEOREM OwedIsWaitingAlways == PhpSpec => []OwedIsWaiting
<1>1. PhpInv => OwedIsWaiting
  BY DEF PhpInv
<1> QED
  BY <1>1, PhpInvAlways, PTL

\* Nothing but start() after stop() polls a NULL handle, and only that or a list
\* with messages of two partitions leads to the use of a destroyed message.
THEOREM FaultsHaveCauseAlways == PhpSpec => []FaultsHaveCause
<1>1. PhpInv => FaultsHaveCause
  BY DEF PhpInv, CallsInv, AlikeInv, FaultsHaveCause
<1> QED
  BY <1>1, PhpInvAlways, PTL

\* What pause() paused stays paused until resume() or a rebalance.
THEOREM PausedStaysQuietAlways == PhpSpec => []PausedStaysQuiet
<1>1. PhpInv => PausedStaysQuiet
  BY DEF PhpInv, QuietInv
<1> QED
  BY <1>1, PhpInvAlways, PTL

\* Every message that is not destroyed is in one of the consumer's maps, and
\* stop() destroys them all.
THEOREM NothingLeaksAlways == PhpSpec => []NothingLeaks
<1>1. PhpInv => NothingLeaks
  BY DEF PhpInv, FiledInv, GoneInv, NothingLeft, NothingLeaks
<1> QED
  BY <1>1, PhpInvAlways, PTL
\* The order of the offsets is kept as long as it is orderly.
LEMMA OrderlyAlways == PhpSpec => [](PhpInv /\ OrderlyInv)
<1>1. PhpInit => OrderlyInv
  <2> SUFFICES ASSUME PhpInit, orderly PROVE mode # "user" /\ PhpOrderInv
    BY DEF OrderlyInv
  <2>1. /\ DOMAIN waitCommit = {} /\ assigned = {} /\ got = <<>> /\ MaxOffset \in Nat
        /\ done = [p \in Partitions |-> 0] /\ mode # "user"
    BY DEF PhpInit, Init, EmptyMap
  <2> QED
    BY <2>1 DEF PhpOrderInv, Returned
<1>2. PhpInv /\ OrderlyInv /\ [PhpNext]_allVars => (PhpInv /\ OrderlyInv)'
  <2> SUFFICES ASSUME PhpInv, OrderlyInv, [PhpNext]_allVars PROVE (PhpInv /\ OrderlyInv)'
    OBVIOUS
  <2>1. PhpInv'
    BY PhpStep
  <2>2. ASSUME orderly' PROVE mode' # "user" /\ PhpOrderInv'
    BY <2>1, <2>2, PhpOrderStep
  <2> QED
    BY <2>1, <2>2 DEF OrderlyInv
<1> QED
  BY <1>1, <1>2, PhpInitInv, PTL DEF PhpSpec

\* As long as it is orderly, a message waits only while its partition is owned, and
\* not behind the committed offset: consume() registers in the order of the
\* partition and rebalance_cb commits before it gives partitions up, also if
\* another partition's message displaces the one that waits.
THEOREM PhpWaitingIsOwnedAlways == PhpSpec => [](orderly => WaitingIsOwned)
<1>1. OrderlyInv => (orderly => WaitingIsOwned)
  BY DEF OrderlyInv, PhpOrderInv, WaitingIsOwned
<1> QED
  BY <1>1, OrderlyAlways, PTL

\* As long as it is orderly, a step of the PHP build is one of GroupOffsets about
\* what consume() returned.
THEOREM OffsetsForwardAlways == PhpSpec => OffsetsForward
<1>1. /\ PhpInv /\ OrderlyInv /\ (PhpInv /\ OrderlyInv)' /\ [PhpNext]_allVars
      => (orderly' => [ReturnedGroup!Next]_(ReturnedGroup!vars))
  <2> SUFFICES ASSUME PhpInv, OrderlyInv, PhpInv', OrderlyInv', [PhpNext]_allVars, orderly'
               PROVE  [ReturnedGroup!Next]_(ReturnedGroup!vars)
    OBVIOUS
  <2> QED
    BY PhpOrderStep, ForwardIsGroup
<1> QED
  BY <1>1, OrderlyAlways, PTL DEF PhpSpec, OffsetsForward

\* An execution that stays orderly is one of GroupOffsets: there the PHP build
\* keeps the promise of the callback build, where what consume() returned counts.
THEOREM ImplementsReturnedGroup == PhpSpec /\ []orderly => ReturnedGroup!Spec
<1>1. PhpInit => ReturnedGroup!Init
  <2> SUFFICES ASSUME PhpInit PROVE ReturnedGroup!Init
    OBVIOUS
  <2>1. /\ got = <<>> /\ done = [p \in Partitions |-> 0]
        /\ committed = [p \in Partitions |-> 0]
    BY DEF PhpInit, Init
  <2> QED
    BY <2>1 DEF ReturnedGroup!Init, Returned
<1>2. orderly' /\ (orderly' => [ReturnedGroup!Next]_(ReturnedGroup!vars))
      => [ReturnedGroup!Next]_(ReturnedGroup!vars)
  OBVIOUS
<1>3. UNCHANGED allVars => UNCHANGED ReturnedGroup!vars
  BY DEF allVars, vars, phpVars, brokerVars, userVars, ReturnedGroup!vars, Returned
<1> QED
  BY <1>1, <1>2, <1>3, OffsetsForwardAlways, PTL DEF PhpSpec, OffsetsForward, ReturnedGroup!Spec

\* All executions stay orderly if the script commits in no mode and the group
\* reports no error.
THEOREM OrderlyIfSdkCommits ==
    ~RebalanceErrors /\ "user" \notin Modes => (PhpSpec => []orderly)
<1> SUFFICES ASSUME ~RebalanceErrors, "user" \notin Modes PROVE PhpSpec => []orderly
  OBVIOUS
<1>1. PhpInit => orderly
  BY DEF PhpInit, Init
<1>2. PhpInv /\ orderly /\ [PhpNext]_allVars => orderly'
  BY OrderlyStep DEF PhpRebalanceError, RebalanceError
<1> QED
  BY <1>1, <1>2, PhpInvAlways, PTL DEF PhpSpec
=============================================================================
