------------------------- MODULE KafkaConsumerProofs -------------------------
(***************************************************************************)
(* What KafkaConsumer guarantees for every set of partitions, messages and  *)
(* addresses.                                                               *)
(***************************************************************************)
EXTENDS KafkaConsumer, TLAPS

USE ConstantsAssumption

-----------------------------------------------------------------------------
(* Lemmas about the operations the actions share *)

\* The elements of a sequence that follow its i-th one.
LEMMA TailAfter ==
    ASSUME NEW S, NEW s \in Seq(S), NEW i \in DOMAIN s
    PROVE  LET t == SubSeq(s, i + 1, Len(s))
           IN  /\ DOMAIN t = 1 .. Len(s) - i
               /\ \A n \in DOMAIN t : n + i \in DOMAIN s /\ t[n] = s[n + i]
<1>1. /\ DOMAIN s = 1 .. Len(s) /\ Len(s) \in Nat
      /\ i \in 1 .. Len(s)
  OBVIOUS
<1>2. SubSeq(s, i + 1, Len(s)) = [n \in 1 .. Len(s) - i |-> s[n + i]]
  BY <1>1
<1> QED
  BY <1>1, <1>2

\* A commit round keeps the types of what it changes.
LEMMA CommitTypes ==
    ASSUME TypeOK, NEW face, CommitUnlessAuto(face)
    PROVE  /\ committed' \in [Partitions -> Nat]
           /\ DOMAIN heap' \subseteq Obj
           /\ heap' \in [DOMAIN heap' -> Message]
           /\ misuse' \in BOOLEAN
           /\ DOMAIN waitCommit' \subseteq Keys
           /\ waitCommit' \in [DOMAIN waitCommit' -> Obj]
           /\ due' \in BOOLEAN
<1>1. CASE UNCHANGED <<committed, heap, misuse, waitCommit, due>>
  BY <1>1 DEF TypeOK, Live
<1>2. CASE ~ UNCHANGED <<committed, heap, misuse, waitCommit, due>>
  <2>1. /\ heap' = Restrict(heap, Live \ Waiting)
        /\ misuse' = (misuse \/ ~(Waiting \subseteq Live))
        /\ waitCommit' = EmptyMap
        /\ due' = FALSE
    BY <1>2 DEF CommitUnlessAuto, ManualCommitWaitOffset
  <2>2. PICK ok \in SUBSET {k \in DOMAIN waitCommit : waitCommit[k] \in Live} :
           committed' = [p \in Partitions |->
                 IF KeyOf[p] \in ok /\ heap[waitCommit[KeyOf[p]]].part = p
                 THEN heap[waitCommit[KeyOf[p]]].off + 1
                 ELSE committed[p]]
    BY <1>2 DEF CommitUnlessAuto, ManualCommitWaitOffset
  <2>3. committed' \in [Partitions -> Nat]
    BY <2>2 DEF TypeOK, Live, Message
  <2>4. /\ DOMAIN heap' \subseteq Obj
        /\ heap' \in [DOMAIN heap' -> Message]
    BY <2>1 DEF TypeOK, Live, Restrict
  <2>5. /\ DOMAIN waitCommit' \subseteq Keys
        /\ waitCommit' \in [DOMAIN waitCommit' -> Obj]
        /\ misuse' \in BOOLEAN
        /\ due' \in BOOLEAN
    BY <2>1 DEF TypeOK, EmptyMap
  <2> QED
    BY <2>3, <2>4, <2>5
<1> QED
  BY <1>1, <1>2

\* Registering a message that is live in h keeps the types.
LEMMA AddWaitTypes ==
    ASSUME TypeOK, NEW h, DOMAIN h \subseteq Obj, h \in [DOMAIN h -> Message],
           NEW o \in DOMAIN h, AddWaitCommitOffset(o, h)
    PROVE  /\ DOMAIN heap' \subseteq Obj
           /\ heap' \in [DOMAIN heap' -> Message]
           /\ misuse' \in BOOLEAN
           /\ DOMAIN waitCommit' \subseteq Keys
           /\ waitCommit' \in [DOMAIN waitCommit' -> Obj]
<1>1. KeyOf[h[o].part] \in Keys
  BY DEF Message
<1>2. /\ DOMAIN heap' \subseteq Obj
      /\ heap' \in [DOMAIN heap' -> Message]
      /\ misuse' \in BOOLEAN
  BY DEF AddWaitCommitOffset, TypeOK, Restrict
<1>3. /\ DOMAIN waitCommit' \subseteq Keys
      /\ waitCommit' \in [DOMAIN waitCommit' -> Obj]
  BY <1>1 DEF AddWaitCommitOffset, TypeOK
<1> QED
  BY <1>2, <1>3

\* Forgetting a prefix of a list keeps the types.
LEMMA RemoveTypes ==
    ASSUME TypeOK, NEW o \in Live, RemoveWaitDestroyMsgs(o)
    PROVE  /\ DOMAIN heap' \subseteq Obj
           /\ heap' \in [DOMAIN heap' -> Message]
           /\ misuse' \in BOOLEAN
           /\ waitDestroy' \in [Keys -> Seq(Obj)]
<1> DEFINE msgs == waitDestroy[Key(o)]
           Goal == /\ DOMAIN heap' \subseteq Obj
                   /\ heap' \in [DOMAIN heap' -> Message]
                   /\ misuse' \in BOOLEAN
                   /\ waitDestroy' \in [Keys -> Seq(Obj)]
<1>0. Key(o) \in Keys /\ msgs \in Seq(Obj)
  BY DEF TypeOK, Live, Key, Message
<1>1. CASE UNCHANGED <<heap, waitDestroy, misuse>>
  BY <1>1 DEF TypeOK, Live
<1>2. ASSUME NEW i \in DOMAIN msgs,
             heap' = Restrict(heap, Live \ {msgs[j] : j \in 1 .. i - 1}),
             misuse' = (misuse \/ ~({msgs[j] : j \in 1 .. i - 1} \subseteq Live)),
             waitDestroy' = [waitDestroy EXCEPT ![Key(o)] = SubSeq(@, i + 1, Len(@))]
      PROVE  Goal
  <2>1. /\ DOMAIN heap' \subseteq Obj
        /\ heap' \in [DOMAIN heap' -> Message]
        /\ misuse' \in BOOLEAN
    BY <1>2 DEF TypeOK, Live, Restrict
  <2>2. SubSeq(msgs, i + 1, Len(msgs)) \in Seq(Obj)
    BY <1>0
  <2> QED
    BY <1>0, <1>2, <2>1, <2>2 DEF TypeOK
<1> QED
  BY <1>1, <1>2 DEF RemoveWaitDestroyMsgs

\* A message that is not waiting yet is registered: what waited under its key
\* is the only message destroyed.
LEMMA AddWaitKeys ==
    ASSUME TypeOK, WaitInv, NEW h, DOMAIN h \subseteq Obj, h \in [DOMAIN h -> Message],
           Live \subseteq DOMAIN h, \A x \in Live : h[x] = heap[x],
           NEW o \in DOMAIN h, \A k \in DOMAIN waitCommit : waitCommit[k] # o,
           AddWaitCommitOffset(o, h)
    PROVE  /\ misuse' = misuse
           /\ WaitInv'
           /\ o \in Live' /\ Live' \subseteq DOMAIN h
           /\ \A x \in Live' : heap'[x] = h[x]
           /\ \A x \in DOMAIN h : x \in Live' \/ \E k \in DOMAIN waitCommit : waitCommit[k] = x
<1> DEFINE k0 == KeyOf[h[o].part]
           displaced == {waitCommit[x] : x \in DOMAIN waitCommit \cap {k0}}
<1>1. displaced \subseteq Live /\ o \notin displaced
  BY DEF WaitInv
<1>2. misuse' = misuse
  BY <1>1 DEF AddWaitCommitOffset, TypeOK
<1>3. /\ DOMAIN heap' = DOMAIN h \ displaced
      /\ \A x \in DOMAIN heap' : heap'[x] = h[x]
  BY DEF AddWaitCommitOffset, Restrict
<1>4. /\ DOMAIN waitCommit' = DOMAIN waitCommit \cup {k0}
      /\ \A x \in DOMAIN waitCommit' :
            waitCommit'[x] = IF x = k0 THEN o ELSE waitCommit[x]
  BY DEF AddWaitCommitOffset
<1>5. ASSUME NEW x \in DOMAIN waitCommit, x # k0
      PROVE  waitCommit[x] \in DOMAIN heap' /\ KeyOf[heap'[waitCommit[x]].part] = x
  BY <1>3, <1>5 DEF WaitInv, Key
<1>6. WaitInv'
  BY <1>1, <1>3, <1>4, <1>5 DEF WaitInv, Key, Live
<1> QED
  BY <1>1, <1>2, <1>3, <1>6 DEF Live

\* A commit round destroys the waiting messages and nothing else, and moves an
\* offset only to just behind one of them.
LEMMA CommitKeys ==
    ASSUME TypeOK, WaitInv, NEW face, CommitUnlessAuto(face)
    PROVE  /\ misuse' = misuse
           /\ WaitInv'
           /\ Live' \subseteq Live
           /\ \A x \in Live' : heap'[x] = heap[x]
           /\ \A x \in Live : x \in Live' \/ \E k \in DOMAIN waitCommit : waitCommit[k] = x
           /\ \A k \in DOMAIN waitCommit' : k \in DOMAIN waitCommit /\ waitCommit'[k] = waitCommit[k]
           /\ \A p \in Partitions :
                 \/ committed'[p] = committed[p]
                 \/ \E k \in DOMAIN waitCommit :
                       /\ heap[waitCommit[k]].part = p
                       /\ committed'[p] = heap[waitCommit[k]].off + 1
<1>1. CASE UNCHANGED <<committed, heap, misuse, waitCommit, due>>
  BY <1>1 DEF WaitInv, Live, Key
<1>2. CASE ~ UNCHANGED <<committed, heap, misuse, waitCommit, due>>
  <2>1. /\ heap' = Restrict(heap, Live \ Waiting)
        /\ misuse' = (misuse \/ ~(Waiting \subseteq Live))
        /\ waitCommit' = EmptyMap
    BY <1>2 DEF CommitUnlessAuto, ManualCommitWaitOffset
  <2>2. PICK ok \in SUBSET {k \in DOMAIN waitCommit : waitCommit[k] \in Live} :
           committed' = [p \in Partitions |->
                 IF KeyOf[p] \in ok /\ heap[waitCommit[KeyOf[p]]].part = p
                 THEN heap[waitCommit[KeyOf[p]]].off + 1
                 ELSE committed[p]]
    BY <1>2 DEF CommitUnlessAuto, ManualCommitWaitOffset
  <2>3. Waiting \subseteq Live /\ misuse' = misuse
    BY <2>1 DEF WaitInv, Waiting, Range, TypeOK
  <2>4. WaitInv' /\ DOMAIN waitCommit' = {}
    BY <2>1 DEF WaitInv, EmptyMap
  <2>5. /\ Live' = Live \ Waiting
        /\ \A x \in Live' : heap'[x] = heap[x]
    BY <2>1 DEF Live, Restrict
  <2>6. \A x \in Waiting : \E k \in DOMAIN waitCommit : waitCommit[k] = x
    BY DEF Waiting, Range
  <2>7. ASSUME NEW p \in Partitions
        PROVE  \/ committed'[p] = committed[p]
               \/ \E k \in DOMAIN waitCommit :
                       /\ heap[waitCommit[k]].part = p
                       /\ committed'[p] = heap[waitCommit[k]].off + 1
    BY <2>2
  <2> QED
    BY <2>3, <2>4, <2>5, <2>6, <2>7
<1> QED
  BY <1>1, <1>2

-----------------------------------------------------------------------------
(* Type correctness *)

\* The initial state is well typed.
LEMMA InitTypes == Init => TypeInv
<1> SUFFICES ASSUME Init PROVE TypeInv
  OBVIOUS
<1>1. heap \in [Live -> Message] /\ Live = {}
  BY DEF Init, Live
<1>2. waitCommit \in [DOMAIN waitCommit -> Obj] /\ DOMAIN waitCommit = {}
  BY DEF Init, EmptyMap
<1>3. waitDestroy \in [Keys -> Seq(Obj)]
  BY DEF Init
<1>4. pauseReq \in [op : {"none", "pause", "resume"},
                    topics : SUBSET Topics, list : SUBSET Partitions]
  BY DEF Init, NoRequest
<1>5. TypeOK
  BY <1>1, <1>2, <1>3, <1>4 DEF Init, TypeOK
<1>6. ThreadsInv /\ ModeInv /\ WaitInv
  BY <1>2 DEF Init, ThreadsInv, ModeInv, WaitInv
<1> QED
  BY <1>5, <1>6 DEF TypeInv

\* The poll thread's step.  Outside the user's mode a registered message stays
\* live because waiting messages are filed under their own key.
LEMMA PollThreadTypes == TypeInv /\ PollThread => TypeInv'
<1> USE DEF pauseVars, waitVars, brokerVars, userVars, threadVars
<1> SUFFICES ASSUME TypeInv, PollThread PROVE TypeInv'
  OBVIOUS
<1>0. TypeOK /\ ThreadsInv /\ ModeInv /\ (mode # "user" => WaitInv)
  BY DEF TypeInv
<1>a. ASSUME UNCHANGED <<mode, cur, ucommit, waitCommit, waitDestroy, heap, held>>
      PROVE  ModeInv' /\ (mode' # "user" => WaitInv')
  BY <1>0, <1>a DEF ModeInv, WaitInv, Live, Key
<1>1. CASE LoopAgain
  <2>1. TypeOK' /\ ThreadsInv'
    <3>1. TypeOK'
      BY <1>0, <1>1 DEF LoopAgain, TypeOK, Live
    <3>2. ThreadsInv'
      BY <1>0, <1>1 DEF LoopAgain, TypeOK, ThreadsInv, Live
    <3> QED
      BY <3>1, <3>2
  <2>9. UNCHANGED <<mode, cur, ucommit, waitCommit, waitDestroy, heap, held>>
    BY <1>1 DEF LoopAgain
  <2> QED
    BY <2>1, <2>9, <1>a DEF TypeInv
<1>2. CASE LoopExit
  <2>1. TypeOK' /\ ThreadsInv'
    <3>1. TypeOK'
      BY <1>0, <1>2 DEF LoopExit, TypeOK, Live
    <3>2. ThreadsInv'
      BY <1>0, <1>2 DEF LoopExit, TypeOK, ThreadsInv, Live
    <3> QED
      BY <3>1, <3>2
  <2>9. UNCHANGED <<mode, cur, ucommit, waitCommit, waitDestroy, heap, held>>
    BY <1>2 DEF LoopExit
  <2> QED
    BY <2>1, <2>9, <1>a DEF TypeInv
<1>3. CASE PollNothing
  <2>1. TypeOK' /\ ThreadsInv'
    <3>1. TypeOK'
      BY <1>0, <1>3 DEF PollNothing, TypeOK, Live
    <3>2. ThreadsInv'
      BY <1>0, <1>3 DEF PollNothing, TypeOK, ThreadsInv, Live
    <3> QED
      BY <3>1, <3>2
  <2>9. UNCHANGED <<mode, cur, ucommit, waitCommit, waitDestroy, heap, held>>
    BY <1>3 DEF PollNothing
  <2> QED
    BY <2>1, <2>9, <1>a DEF TypeInv
<1>4. CASE CallbackReturn
  <2>1. done' \in [Partitions -> Nat]
    <3>1. CASE mode = "user"
      BY <1>0, <1>4, <3>1 DEF CallbackReturn, TypeOK
    <3>2. CASE mode # "user"
      <4>1. cur \in Live
        BY <1>0, <1>4, <3>2 DEF CallbackReturn, ThreadsInv
      <4>2. heap[cur].part \in Partitions /\ heap[cur].off \in Nat
        BY <1>0, <4>1 DEF TypeOK, Live, Message
      <4>3. Processed(heap[cur].part, heap[cur].off + 1)
        BY <1>4, <3>2 DEF CallbackReturn
      <4> QED
        BY <1>0, <4>2, <4>3 DEF TypeOK, Processed
    <3> QED
      BY <3>1, <3>2
  <2>2. DOMAIN heap' \subseteq Obj /\ heap' \in [DOMAIN heap' -> Message]
    BY <1>0, <1>4 DEF CallbackReturn, TypeOK, Live, Restrict
  <2>3. TypeOK' /\ ThreadsInv'
    BY <1>0, <1>4, <2>1, <2>2 DEF CallbackReturn, TypeOK, ThreadsInv, Live
  <2>4. ModeInv'
    BY <1>0, <1>4 DEF CallbackReturn, ModeInv
  <2>5. ASSUME mode' # "user" PROVE WaitInv'
    <3>1. CASE mode = "auto"
      BY <1>0, <1>4, <3>1 DEF CallbackReturn, ModeInv, WaitInv
    <3>2. CASE mode = "internal"
      BY <1>0, <1>4, <3>2 DEF CallbackReturn, WaitInv, Live, Key
    <3> QED
      BY <1>0, <1>4, <2>5, <3>1, <3>2 DEF CallbackReturn
  <2> QED
    BY <2>3, <2>4, <2>5 DEF TypeInv
<1>5. CASE Tick \/ ExitTick
  <2>1. CommitUnlessAuto(FALSE)
    BY <1>0, <1>5 DEF Tick, ExitTick, ThreadsInv, CommitUnlessAuto
  <2>2. TypeOK' /\ ThreadsInv'
    BY <1>0, <1>5, <2>1, CommitTypes DEF Tick, ExitTick, TypeOK, ThreadsInv, Live
  <2>3. ModeInv'
    BY <1>0, <1>5 DEF Tick, ExitTick, ModeInv, ThreadsInv
  <2>4. mode' # "user" => WaitInv'
    BY <1>0, <1>5, <2>1, CommitKeys DEF Tick, ExitTick
  <2> QED
    BY <2>2, <2>3, <2>4 DEF TypeInv
<1>6. ASSUME NEW p \in Partitions, NEW o \in Obj, Receive(p, o)
      PROVE  TypeInv'
  <2> DEFINE h == [x \in Live \cup {o} |->
                     IF x = o THEN [part |-> p, off |-> pos[p]] ELSE heap[x]]
  <2>1. DOMAIN h \subseteq Obj /\ h \in [DOMAIN h -> Message] /\ o \in DOMAIN h
    BY <1>0 DEF TypeOK, Live, Message
  <2>2. CASE mode = "internal"
    <3>1. AddWaitCommitOffset(o, h)
      BY <1>6, <2>2 DEF Receive
    <3>2. Live \subseteq DOMAIN h /\ \A x \in Live : h[x] = heap[x]
      BY <1>6 DEF Receive
    <3>3. \A k \in DOMAIN waitCommit : waitCommit[k] # o
      BY <1>0, <1>6, <2>2 DEF WaitInv, Receive
    <3> HIDE DEF h
    <3>4. WaitInv' /\ o \in Live'
      BY <1>0, <2>1, <2>2, <3>1, <3>2, <3>3, AddWaitKeys
    <3>5. /\ DOMAIN heap' \subseteq Obj
          /\ heap' \in [DOMAIN heap' -> Message]
          /\ misuse' \in BOOLEAN
          /\ DOMAIN waitCommit' \subseteq Keys
          /\ waitCommit' \in [DOMAIN waitCommit' -> Obj]
      BY <1>0, <2>1, <3>1, AddWaitTypes
    <3>6. TypeOK' /\ ThreadsInv'
      BY <1>0, <1>6, <2>2, <3>4, <3>5 DEF Receive, TypeOK, ThreadsInv, Live
    <3>7. ModeInv'
      BY <1>0, <1>6, <2>2 DEF Receive, ModeInv
    <3> QED
      BY <3>4, <3>6, <3>7 DEF TypeInv
  <2>3. CASE mode = "auto"
    <3>1. heap' = h /\ UNCHANGED <<waitCommit, waitDestroy, held, misuse>>
      BY <1>6, <2>3 DEF Receive
    <3>2. TypeOK' /\ ThreadsInv'
      BY <1>0, <1>6, <2>1, <2>3, <3>1 DEF Receive, TypeOK, ThreadsInv, Live
    <3>3. ModeInv' /\ WaitInv'
      BY <1>0, <1>6, <2>3, <3>1 DEF Receive, ModeInv, WaitInv
    <3> QED
      BY <3>2, <3>3 DEF TypeInv
  <2>4. CASE mode = "user"
    <3>1. /\ heap' = h
          /\ waitDestroy' = [waitDestroy EXCEPT ![KeyOf[p]] = Append(@, o)]
          /\ held' = held \cup {o}
          /\ UNCHANGED <<waitCommit, misuse>>
      BY <1>6, <2>4 DEF Receive
    <3>2. waitDestroy' \in [Keys -> Seq(Obj)]
      BY <1>0, <3>1 DEF TypeOK
    <3>3. TypeOK' /\ ThreadsInv'
      BY <1>0, <1>6, <2>1, <2>4, <3>1, <3>2 DEF Receive, TypeOK, ThreadsInv, Live
    <3>4. ModeInv' /\ mode' = "user"
      BY <1>0, <1>6, <2>4, <3>1 DEF Receive, ModeInv
    <3> QED
      BY <3>3, <3>4 DEF TypeInv
  <2> QED
    BY <1>0, <2>2, <2>3, <2>4 DEF TypeOK
<1>7. ASSUME NEW S \in SUBSET Partitions, Assign(S)
      PROVE  TypeInv'
  <2>1. TypeOK' /\ ThreadsInv'
    <3>1. TypeOK'
      BY <1>0, <1>7 DEF Assign, TypeOK, Live
    <3>2. ThreadsInv'
      BY <1>0, <1>7 DEF Assign, TypeOK, ThreadsInv, Live
    <3> QED
      BY <3>1, <3>2
  <2>9. UNCHANGED <<mode, cur, ucommit, waitCommit, waitDestroy, heap, held>>
    BY <1>7 DEF Assign
  <2> QED
    BY <2>1, <2>9, <1>a DEF TypeInv
<1>8. CASE Revoke
  <2>1. TypeOK' /\ ThreadsInv'
    BY <1>0, <1>8, CommitTypes DEF Revoke, RevokeCallback, TypeOK, ThreadsInv, Live
  <2>2. ModeInv'
    BY <1>0, <1>8 DEF Revoke, RevokeCallback, CommitUnlessAuto, ModeInv
  <2>3. mode' # "user" => WaitInv'
    BY <1>0, <1>8, CommitKeys DEF Revoke, RevokeCallback
  <2> QED
    BY <2>1, <2>2, <2>3 DEF TypeInv
<1>9. CASE RebalanceError
  <2>1. TypeOK' /\ ThreadsInv'
    <3>1. TypeOK'
      BY <1>0, <1>9 DEF RebalanceError, TypeOK, Live
    <3>2. ThreadsInv'
      BY <1>0, <1>9 DEF RebalanceError, TypeOK, ThreadsInv, Live
    <3> QED
      BY <3>1, <3>2
  <2>9. UNCHANGED <<mode, cur, ucommit, waitCommit, waitDestroy, heap, held>>
    BY <1>9 DEF RebalanceError
  <2> QED
    BY <2>1, <2>9, <1>a DEF TypeInv
<1> QED
  BY <1>1, <1>2, <1>3, <1>4, <1>5, <1>6, <1>7, <1>8, <1>9 DEF PollThread

\* The user's step: only in the user's mode.
LEMMA UserThreadTypes == TypeInv /\ UserThread => TypeInv'
<1> USE DEF pauseVars, waitVars, brokerVars, userVars, threadVars
<1> SUFFICES ASSUME TypeInv, UserThread PROVE TypeInv'
  OBVIOUS
<1>0. TypeOK /\ ThreadsInv /\ ModeInv
  BY DEF TypeInv
<1>1. ASSUME NEW o \in Obj, UserCommit(o) PROVE TypeInv'
  <2>1. mode = "user" /\ mode' = "user"
    BY <1>1 DEF UserCommit, MayCommit
  <2>2. CASE o \in Live
    <3>1. /\ AddWaitCommitOffset(o, heap)
          /\ Processed(heap[o].part, heap[o].off + 1)
          /\ held' \subseteq held /\ ucommit' = o /\ waitDestroy' = waitDestroy
      BY <1>1, <2>2 DEF UserCommit, ReadDestroyed
    <3>2. /\ DOMAIN heap' \subseteq Obj
          /\ heap' \in [DOMAIN heap' -> Message]
          /\ misuse' \in BOOLEAN
          /\ DOMAIN waitCommit' \subseteq Keys
          /\ waitCommit' \in [DOMAIN waitCommit' -> Obj]
      BY <1>0, <2>2, <3>1, AddWaitTypes DEF TypeOK, Live
    <3>3. heap[o].part \in Partitions /\ heap[o].off \in Nat
      BY <1>0, <2>2 DEF TypeOK, Live, Message
    <3>4. done' \in [Partitions -> Nat]
      BY <1>0, <3>1, <3>3 DEF TypeOK, Processed
    <3>5. TypeOK' /\ ThreadsInv' /\ ModeInv'
      BY <1>0, <1>1, <2>1, <3>1, <3>2, <3>4
         DEF UserCommit, TypeOK, ThreadsInv, ModeInv, Live
    <3> QED
      BY <2>1, <3>5 DEF TypeInv
  <2>3. CASE o \notin Live
    <3>1. ReadDestroyed /\ held' \subseteq held
      BY <1>1, <2>3 DEF UserCommit
    <3>2. TypeOK' /\ ThreadsInv' /\ ModeInv'
      BY <1>0, <1>1, <2>1, <3>1
         DEF UserCommit, ReadDestroyed, TypeOK, ThreadsInv, ModeInv, Live
    <3> QED
      BY <2>1, <3>2 DEF TypeInv
  <2> QED
    BY <2>2, <2>3
<1>2. CASE UserCommitEnd
  <2>1. mode = "user" /\ mode' = "user"
    BY <1>0, <1>2 DEF UserCommitEnd, ThreadsInv
  <2>2. CASE ucommit \in Live
    <3>1. RemoveWaitDestroyMsgs(ucommit) /\ ucommit' = None /\ UNCHANGED <<waitCommit, done>>
      BY <1>2, <2>2 DEF UserCommitEnd
    <3>2. /\ DOMAIN heap' \subseteq Obj
          /\ heap' \in [DOMAIN heap' -> Message]
          /\ misuse' \in BOOLEAN
          /\ waitDestroy' \in [Keys -> Seq(Obj)]
      BY <1>0, <2>2, <3>1, RemoveTypes
    <3>3. TypeOK' /\ ThreadsInv' /\ ModeInv'
      BY <1>0, <1>2, <2>1, <3>1, <3>2 DEF UserCommitEnd, TypeOK, ThreadsInv, ModeInv, Live
    <3> QED
      BY <2>1, <3>3 DEF TypeInv
  <2>3. CASE ucommit \notin Live
    <3>1. TypeOK'
      <4>1. /\ misuse' = TRUE /\ ucommit' = None
            /\ UNCHANGED <<mode, startFlag, pollPc, appPc, cur, pauseVars, due,
                           brokerVars, held, waitCommit, waitDestroy, heap, done>>
        BY <1>2, <2>3 DEF UserCommitEnd, ReadDestroyed
      <4> QED
        BY <1>0, <4>1 DEF TypeOK, Live
    <3>2. ThreadsInv' /\ ModeInv'
      BY <1>0, <1>2, <2>1, <2>3
         DEF UserCommitEnd, ReadDestroyed, TypeOK, ThreadsInv, ModeInv, Live
    <3> QED
      BY <2>1, <3>1, <3>2 DEF TypeInv
  <2> QED
    BY <2>2, <2>3
<1> QED
  BY <1>1, <1>2 DEF UserThread

\* The application's step.
LEMMA AppThreadTypes == TypeInv /\ AppThread => TypeInv'
<1> USE DEF pauseVars, waitVars, brokerVars, userVars, threadVars
<1> SUFFICES ASSUME TypeInv, AppThread PROVE TypeInv'
  OBVIOUS
<1>0. TypeOK /\ ThreadsInv /\ ModeInv /\ (mode # "user" => WaitInv)
  BY DEF TypeInv
<1>a. ASSUME UNCHANGED <<mode, cur, ucommit, waitCommit, waitDestroy, heap, held>>
      PROVE  ModeInv' /\ (mode' # "user" => WaitInv')
  BY <1>0, <1>a DEF ModeInv, WaitInv, Live, Key
<1>1. CASE Start
  <2>1. TypeOK' /\ ThreadsInv'
    <3>1. TypeOK'
      BY <1>0, <1>1 DEF Start, TypeOK, Live
    <3>2. ThreadsInv'
      BY <1>0, <1>1 DEF Start, TypeOK, ThreadsInv, Live
    <3> QED
      BY <3>1, <3>2
  <2>9. UNCHANGED <<mode, cur, ucommit, waitCommit, waitDestroy, heap, held>>
    BY <1>1 DEF Start
  <2> QED
    BY <2>1, <2>9, <1>a DEF TypeInv
<1>2. CASE Stop
  <2>1. TypeOK' /\ ThreadsInv'
    <3>1. TypeOK'
      BY <1>0, <1>2 DEF Stop, TypeOK, Live
    <3>2. ThreadsInv'
      BY <1>0, <1>2 DEF Stop, TypeOK, ThreadsInv, Live
    <3> QED
      BY <3>1, <3>2
  <2>9. UNCHANGED <<mode, cur, ucommit, waitCommit, waitDestroy, heap, held>>
    BY <1>2 DEF Stop
  <2> QED
    BY <2>1, <2>9, <1>a DEF TypeInv
<1>3. CASE StopCommit
  <2>1. TypeOK' /\ ThreadsInv'
    BY <1>0, <1>3, CommitTypes DEF StopCommit, TypeOK, ThreadsInv, Live
  <2>2. ModeInv'
    BY <1>0, <1>3 DEF StopCommit, CommitUnlessAuto, ModeInv
  <2>3. mode' # "user" => WaitInv'
    BY <1>0, <1>3, CommitKeys DEF StopCommit
  <2> QED
    BY <2>1, <2>2, <2>3 DEF TypeInv
<1>4. CASE StopClear
  <2>1. DOMAIN heap' \subseteq Obj /\ heap' \in [DOMAIN heap' -> Message]
    BY <1>0, <1>4 DEF StopClear, ClearWaitDestroyMsgs, TypeOK, Live, Restrict
  <2>2. cur = None
    BY <1>0, <1>4 DEF StopClear, ThreadsInv
  <2>3. TypeOK' /\ ThreadsInv' /\ ModeInv'
    BY <1>0, <1>4, <2>1, <2>2 DEF StopClear, ClearWaitDestroyMsgs, TypeOK,
                                  ThreadsInv, ModeInv, Live
  <2>4. ASSUME mode' # "user" PROVE WaitInv'
    <3>1. Listed = {}
      BY <1>0, <1>4, <2>4 DEF StopClear, ModeInv, Listed, Range
    <3>2. heap' = Restrict(heap, Live)
      BY <1>4, <3>1 DEF StopClear, ClearWaitDestroyMsgs
    <3>3. Live' = Live /\ \A x \in Live : heap'[x] = heap[x]
      BY <3>2 DEF Live, Restrict
    <3> QED
      BY <1>0, <1>4, <2>4, <3>3 DEF StopClear, WaitInv, Key
  <2> QED
    BY <2>3, <2>4 DEF TypeInv
<1>5. CASE StopClose
  <2>1. CASE RevokeCallback
    <3>1. TypeOK' /\ ThreadsInv'
      BY <1>0, <1>5, <2>1, CommitTypes DEF StopClose, RevokeCallback, TypeOK,
                                           ThreadsInv, Live
    <3>2. ModeInv'
      BY <1>0, <1>5, <2>1 DEF StopClose, RevokeCallback, CommitUnlessAuto, ModeInv
    <3>3. mode' # "user" => WaitInv'
      BY <1>0, <1>5, <2>1, CommitKeys DEF StopClose, RevokeCallback
    <3> QED
      BY <3>1, <3>2, <3>3 DEF TypeInv
  <2>2. CASE UNCHANGED <<committed, heap, misuse, waitCommit, due, assigned,
                         hasAssigned, paused>>
    <3>1. TypeOK' /\ ThreadsInv'
      BY <1>0, <1>5, <2>2 DEF StopClose, TypeOK, ThreadsInv, Live
    <3> QED
      BY <3>1, <2>2, <1>a, <1>5 DEF StopClose, TypeInv
  <2> QED
    BY <1>5, <2>1, <2>2 DEF StopClose
<1>6. CASE Stopped
  BY <1>6 DEF Stopped, vars, TypeInv, TypeOK, ThreadsInv, ModeInv, WaitInv, Live, Key
<1>7. ASSUME NEW op \in {"pause", "resume"}, NEW ts \in PauseSets, PauseCheck(op, ts)
      PROVE  TypeInv'
  <2>1. TypeOK' /\ ThreadsInv'
    <3>1. TypeOK'
      BY <1>0, <1>7 DEF PauseCheck, TypeOK, Live
    <3>2. ThreadsInv'
      BY <1>0, <1>7 DEF PauseCheck, TypeOK, ThreadsInv, Live
    <3> QED
      BY <3>1, <3>2
  <2>9. UNCHANGED <<mode, cur, ucommit, waitCommit, waitDestroy, heap, held>>
    BY <1>7 DEF PauseCheck
  <2> QED
    BY <2>1, <2>9, <1>a DEF TypeInv
<1>8. CASE PauseFind
  <2>1. {p \in tps : TopicOf[p] \in pauseReq.topics} \subseteq Partitions
    BY <1>0 DEF TypeOK
  <2>2. TypeOK' /\ ThreadsInv'
    BY <1>0, <1>8, <2>1 DEF PauseFind, TypeOK, ThreadsInv, Live
  <2>9. UNCHANGED <<mode, cur, ucommit, waitCommit, waitDestroy, heap, held>>
    BY <1>8 DEF PauseFind
  <2> QED
    BY <2>2, <2>9, <1>a DEF TypeInv
<1>9. CASE PauseApply
  <2>1. paused' \subseteq Partitions
    BY <1>0, <1>9 DEF PauseApply, TypeOK
  <2>2. TypeOK' /\ ThreadsInv'
    BY <1>0, <1>9, <2>1 DEF PauseApply, NoRequest, TypeOK, ThreadsInv, Live
  <2>9. UNCHANGED <<mode, cur, ucommit, waitCommit, waitDestroy, heap, held>>
    BY <1>9 DEF PauseApply
  <2> QED
    BY <2>2, <2>9, <1>a DEF TypeInv
<1> QED
  BY <1>1, <1>2, <1>3, <1>4, <1>5, <1>6, <1>7, <1>8, <1>9 DEF AppThread

\* Commits and progress of librdkafka and of the other members keep the types.
LEMMA EnvironmentTypes == TypeInv /\ Environment => TypeInv'
<1> USE DEF pauseVars, waitVars, brokerVars, userVars, threadVars
<1> SUFFICES ASSUME TypeInv, Environment PROVE TypeInv'
  OBVIOUS
<1>0. TypeOK /\ ThreadsInv /\ ModeInv /\ (mode # "user" => WaitInv)
  BY DEF TypeInv
<1>1. UNCHANGED <<mode, startFlag, pollPc, appPc, cur, ucommit, pauseReq, tps,
                  hasAssigned, paused, waitCommit, waitDestroy, heap, assigned, pos,
                  held, misuse>>
  BY DEF Environment, AutoCommit, OtherProcesses, OtherCommits, TimePasses
<1>2. ModeInv' /\ ThreadsInv' /\ (mode' # "user" => WaitInv')
  BY <1>0, <1>1 DEF ModeInv, ThreadsInv, WaitInv, Live, Key
<1>3. /\ committed' \in [Partitions -> Nat]
      /\ done' \in [Partitions -> Nat]
      /\ due' \in BOOLEAN
  <2>1. ASSUME NEW p \in Partitions, AutoCommit(p) \/ OtherProcesses(p) \/ OtherCommits(p)
        PROVE  /\ committed' \in [Partitions -> Nat]
               /\ done' \in [Partitions -> Nat]
               /\ due' = due
    <3>1. CASE AutoCommit(p)
      BY <1>0, <3>1 DEF AutoCommit, TypeOK
    <3>2. CASE OtherProcesses(p)
      BY <1>0, <3>2 DEF OtherProcesses, TypeOK
    <3>3. CASE OtherCommits(p)
      BY <1>0, <3>3 DEF OtherCommits, TypeOK
    <3> QED
      BY <2>1, <3>1, <3>2, <3>3
  <2>2. CASE TimePasses
    BY <1>0, <2>2 DEF TimePasses, TypeOK
  <2> QED
    BY <1>0, <2>1, <2>2 DEF Environment, TypeOK
<1>4. TypeOK'
  BY <1>0, <1>1, <1>3 DEF TypeOK, Live
<1> QED
  BY <1>2, <1>4 DEF TypeInv

\* Every step keeps the types.
LEMMA TypesStep == TypeInv /\ [Next]_vars => TypeInv'
<1>1. ASSUME TypeInv, UNCHANGED vars PROVE TypeInv'
  <2> USE <1>1 DEF vars, threadVars, pauseVars, waitVars, brokerVars, userVars, TypeInv
  <2>1. TypeOK'
    BY DEF TypeOK, Live
  <2>2. ThreadsInv' /\ ModeInv'
    BY DEF ThreadsInv, ModeInv, Live
  <2>3. mode' # "user" => WaitInv'
    BY DEF WaitInv, Live, Key
  <2> QED
    BY <2>1, <2>2, <2>3
<1> QED
  BY <1>1, PollThreadTypes, UserThreadTypes, AppThreadTypes, EnvironmentTypes DEF Next

\* Every variable keeps its type in every behaviour, in all commit modes and
\* wherever the user commits.
THEOREM TypeCorrect == Spec => []TypeOK
<1>1. TypeInv => TypeOK
  BY DEF TypeInv
<1> QED
  BY <1>1, InitTypes, TypesStep, PTL DEF Spec

-----------------------------------------------------------------------------
(* No destroyed message is touched, no unprocessed message is committed *)

\* What the SDK leaves to its users: commit in the callback, as CONFIGURATION.md
\* says, and no two partitions whose names run together to one key.
SafeUse == /\ CommitPolicy # "worker"
           /\ \A p, q \in Partitions : KeyOf[p] = KeyOf[q] => p = q

Ending == {"closing", "stopped"}

\* The parts of SafetyInv about the maps, when a step leaves them alone.
LEMMA MapsFrame ==
    ASSUME SafetyInv,
           UNCHANGED <<mode, ucommit, waitCommit, waitDestroy, heap, held, misuse>>,
           appPc \in Ending => appPc' \in Ending,
           appPc' \in Ending => appPc \in Ending \/ mode # "user",
           ucommit # None => pollPc' = pollPc
    PROVE  WaitInv' /\ ListInv' /\ HeldInv' /\ ~misuse'
<1>1. WaitInv' /\ ~misuse'
  BY DEF SafetyInv, WaitInv, Live, Key
<1>2. ListInv'
  <2>1. CASE mode = "user"
    BY <2>1 DEF SafetyInv, ListInv, Ending, Live, Key
  <2>2. CASE mode # "user"
    BY <2>2 DEF SafetyInv, TypeInv, ModeInv, ListInv
  <2> QED
    BY <2>1, <2>2
<1>3. HeldInv'
  <2>1. CASE mode = "user"
    BY <2>1 DEF SafetyInv, HeldInv, Ending, Live, Key
  <2>2. CASE mode # "user"
    BY <2>2 DEF SafetyInv, TypeInv, ModeInv, ThreadsInv, HeldInv
  <2> QED
    BY <2>1, <2>2
<1> QED
  BY <1>1, <1>2, <1>3

\* The part about offsets, when a step commits nothing and leaves the callback
\* where it is.
LEMMA OffsetFrame ==
    ASSUME SafetyInv,
           UNCHANGED <<mode, cur, waitCommit, heap, committed, done, pos>>,
           assigned' \subseteq assigned,
           pollPc' = "callback" <=> pollPc = "callback"
    PROVE  OffsetInv'
<1>1. \A p \in Partitions : Reached(p)' = Reached(p)
  BY DEF Reached
<1>2. OffsetInv /\ assigned \subseteq Partitions
  BY DEF SafetyInv, TypeInv, TypeOK
<1> QED
  BY <1>1, <1>2 DEF OffsetInv

\* A commit round outside the callback: what waits is processed, and the lists
\* share no message with it.
LEMMA CommitSafety ==
    ASSUME SafetyInv, NEW face, CommitUnlessAuto(face),
           pollPc # "callback", pollPc' # "callback",
           UNCHANGED <<mode, cur, ucommit, waitDestroy, held, done, pos>>,
           assigned' \subseteq assigned,
           appPc \in Ending => appPc' \in Ending,
           appPc' \in Ending => appPc \in Ending \/ mode # "user"
    PROVE  WaitInv' /\ ListInv' /\ HeldInv' /\ OffsetInv' /\ ~misuse'
<1>0. TypeOK /\ ThreadsInv /\ ModeInv /\ WaitInv /\ ListInv /\ HeldInv /\ OffsetInv /\ ~misuse
  BY DEF SafetyInv, TypeInv
<1>1. cur = None /\ ucommit = None
  BY <1>0 DEF ThreadsInv, HeldInv
<1>2. /\ misuse' = misuse
      /\ WaitInv'
      /\ Live' \subseteq Live
      /\ \A x \in Live' : heap'[x] = heap[x]
      /\ \A x \in Live : x \in Live' \/ \E k \in DOMAIN waitCommit : waitCommit[k] = x
      /\ \A k \in DOMAIN waitCommit' : k \in DOMAIN waitCommit /\ waitCommit'[k] = waitCommit[k]
      /\ \A p \in Partitions :
            \/ committed'[p] = committed[p]
            \/ \E k \in DOMAIN waitCommit :
                  /\ heap[waitCommit[k]].part = p
                  /\ committed'[p] = heap[waitCommit[k]].off + 1
  BY <1>0, CommitKeys
<1>3. ASSUME appPc \notin Ending, NEW k \in Keys, NEW i \in DOMAIN waitDestroy[k]
      PROVE  waitDestroy[k][i] \in Live' /\ Key(waitDestroy[k][i])' = k
  <2>1. waitDestroy[k][i] \in Live /\ Key(waitDestroy[k][i]) = k
    BY <1>0, <1>3 DEF ListInv, Ending
  <2>2. \A x \in DOMAIN waitCommit : waitCommit[x] # waitDestroy[k][i]
    <3>1. waitDestroy[k][i] # ucommit
      BY <1>0, <1>1, <2>1 DEF TypeOK
    <3> QED
      BY <1>0, <1>3, <3>1 DEF ListInv, Ending
  <2> QED
    BY <1>2, <2>1, <2>2 DEF Key
<1>4. ListInv'
  <2> SUFFICES ASSUME appPc' \notin Ending,
                      NEW k \in Keys, NEW i \in DOMAIN waitDestroy[k]
               PROVE  LET o == waitDestroy[k][i]
                      IN  /\ o \in Live' /\ Key(o)' = k
                          /\ \A j \in DOMAIN waitDestroy[k] :
                                waitDestroy[k][j] = o => i = j
                          /\ o # ucommit =>
                                \A x \in DOMAIN waitCommit' : waitCommit'[x] # o
    BY <1>0 DEF ListInv, Ending, Key
  <2>1. appPc \notin Ending
    OBVIOUS
  <2>2. /\ \A j \in DOMAIN waitDestroy[k] : waitDestroy[k][j] = waitDestroy[k][i] => i = j
        /\ waitDestroy[k][i] # ucommit =>
              \A x \in DOMAIN waitCommit : waitCommit[x] # waitDestroy[k][i]
    BY <1>0, <2>1 DEF ListInv, Ending
  <2> QED
    BY <1>2, <1>3, <2>1, <2>2
<1>5. HeldInv'
  <2>1. appPc' \in Ending => held' = {}
    BY <1>0 DEF HeldInv, ModeInv, Ending
  <2>2. ASSUME NEW o \in held
        PROVE  o \in Live' /\ \E i \in DOMAIN waitDestroy[Key(o)'] :
                                    waitDestroy[Key(o)'][i] = o
    <3>1. appPc \notin Ending
      BY <1>0, <2>2 DEF HeldInv, Ending
    <3>2. PICK i \in DOMAIN waitDestroy[Key(o)] : waitDestroy[Key(o)][i] = o
      BY <1>0, <2>2 DEF HeldInv
    <3>3. Key(o) \in Keys
      BY <1>0, <2>2 DEF HeldInv, TypeOK, Key, Live, Message
    <3> QED
      BY <1>3, <3>1, <3>2, <3>3
  <2> QED
    BY <1>1, <2>1, <2>2 DEF HeldInv, Ending
<1>6. OffsetInv'
  <2>1. ASSUME NEW k \in DOMAIN waitCommit
        PROVE  heap[waitCommit[k]].off + 1 <= done[heap[waitCommit[k]].part]
    BY <1>0, <1>1 DEF OffsetInv, TypeOK
  <2>2. \A p \in Partitions : Reached(p) = done[p] /\ Reached(p)' = done[p]
    BY DEF Reached
  <2>3. \A p \in Partitions : committed'[p] <= done[p]
    BY <1>0, <1>2, <2>1, <2>2 DEF OffsetInv
  <2>4. \A k \in DOMAIN waitCommit' :
           heap'[waitCommit'[k]].off + 1 <= done[heap'[waitCommit'[k]].part]
    BY <1>2, <2>1 DEF WaitInv
  <2>5. mode = "auto" => \A p \in assigned' : pos[p] <= done[p]
    BY <1>0, <2>2 DEF OffsetInv, TypeOK
  <2> QED
    BY <1>0, <1>1, <2>2, <2>3, <2>4, <2>5 DEF OffsetInv, TypeOK
<1> QED
  BY <1>0, <1>2, <1>4, <1>5, <1>6

\* poll() returns a message at an address nothing refers to.
LEMMA ReceiveSafety ==
    ASSUME SafetyInv, TypeInv', NEW p \in Partitions, NEW o \in Obj, Receive(p, o)
    PROVE  WaitInv' /\ ListInv' /\ HeldInv' /\ OffsetInv' /\ ~misuse'
<1> USE DEF pauseVars
<1> DEFINE h == [x \in Live \cup {o} |->
                     IF x = o THEN [part |-> p, off |-> pos[p]] ELSE heap[x]]
<1>0. TypeOK /\ ThreadsInv /\ ModeInv /\ WaitInv /\ ListInv /\ HeldInv /\ OffsetInv /\ ~misuse
  BY DEF SafetyInv, TypeInv
<1>1. /\ DOMAIN h = Live \cup {o} /\ h \in [DOMAIN h -> Message] /\ DOMAIN h \subseteq Obj
      /\ \A x \in Live : h[x] = heap[x]
      /\ h[o].part = p /\ h[o].off = pos[p]
  BY <1>0 DEF TypeOK, Live, Message, Receive
<1>2. /\ pollPc = "poll" /\ pollPc' = "callback" /\ cur = None /\ cur' = o
      /\ ucommit = None /\ ucommit' = None
      /\ appPc \notin Ending /\ appPc' = appPc
      /\ o \notin Live /\ p \in assigned
      /\ UNCHANGED <<mode, assigned, committed, done>>
      /\ pos' = [pos EXCEPT ![p] = @ + 1]
  BY <1>0 DEF Receive, ThreadsInv, HeldInv, Ending
<1>3. \A q \in Partitions : Reached(q) = done[q]
  BY <1>2 DEF Reached
<1>4. \A k \in DOMAIN waitCommit : waitCommit[k] \in Live /\ waitCommit[k] # o
  BY <1>0, <1>2 DEF WaitInv
<1>5. ASSUME NEW k \in DOMAIN waitCommit
      PROVE  heap[waitCommit[k]].off + 1 <= done[heap[waitCommit[k]].part]
  BY <1>0, <1>2 DEF OffsetInv, TypeOK
<1>6. CASE mode = "auto"
  <2>1. heap' = h /\ UNCHANGED <<waitCommit, waitDestroy, held, misuse>>
    BY <1>6 DEF Receive
  <2>2. DOMAIN waitCommit = {} /\ held = {} /\ \A k \in Keys : waitDestroy[k] = <<>>
    BY <1>0, <1>6 DEF ModeInv
  <2>3. WaitInv' /\ ListInv' /\ HeldInv' /\ ~misuse'
    BY <1>0, <1>2, <2>1, <2>2 DEF WaitInv, ListInv, HeldInv
  <2>4. pos[p] <= done[p] /\ pos[p] \in Nat /\ \A q \in Partitions : done[q] \in Nat /\ pos[q] \in Nat
    BY <1>0, <1>2, <1>3, <1>6 DEF OffsetInv, TypeOK
  <2>5. \A q \in Partitions : done[q] <= Reached(q)'
    BY <1>1, <1>2, <2>1, <2>4 DEF Reached
  <2>6. pos[p] + 1 <= Reached(p)'
    BY <1>1, <1>2, <1>6, <2>1, <2>4 DEF Reached
  <2>7. \A q \in Partitions : committed'[q] <= Reached(q)'
    <3>1. \A q \in Partitions : committed[q] \in Nat /\ Reached(q)' \in Nat
      BY <1>1, <1>2, <2>1, <2>4, <1>0 DEF Reached, TypeOK
    <3> QED
      BY <1>0, <1>2, <1>3, <2>4, <2>5, <3>1 DEF OffsetInv
  <2>8. \A q \in assigned' : pos'[q] <= Reached(q)'
    <3>1. \A q \in Partitions : Reached(q)' \in Nat
      BY <1>1, <1>2, <2>1, <2>4 DEF Reached
    <3> QED
      BY <1>0, <1>2, <1>3, <1>6, <2>4, <2>5, <2>6, <3>1 DEF OffsetInv, TypeOK
  <2>9. OffsetInv'
    BY <1>1, <1>2, <2>1, <2>2, <2>4, <2>7, <2>8 DEF OffsetInv
  <2> QED
    BY <2>3, <2>9
<1>7. CASE mode = "internal"
  <2>1. AddWaitCommitOffset(o, h) /\ UNCHANGED <<waitDestroy, held>>
    BY <1>7 DEF Receive
  <2> HIDE DEF h
  <2>2. /\ misuse' = misuse
        /\ WaitInv'
        /\ o \in Live' /\ Live' \subseteq DOMAIN h
        /\ \A x \in Live' : heap'[x] = h[x]
        /\ \A x \in DOMAIN h : x \in Live' \/ \E k \in DOMAIN waitCommit : waitCommit[k] = x
    BY <1>0, <1>1, <1>4, <2>1, AddWaitKeys
  <2>3. ListInv' /\ HeldInv'
    BY <1>0, <1>2, <1>7, <2>1 DEF ModeInv, ListInv, HeldInv
  <2>4. ASSUME NEW k \in DOMAIN waitCommit', waitCommit'[k] # o
        PROVE  heap'[waitCommit'[k]].off + 1 <= done[heap'[waitCommit'[k]].part]
    <3>1. k \in DOMAIN waitCommit /\ waitCommit'[k] = waitCommit[k]
      BY <2>1, <2>4 DEF AddWaitCommitOffset
    <3>2. heap'[waitCommit[k]] = heap[waitCommit[k]]
      BY <1>1, <1>4, <2>2, <3>1 DEF WaitInv
    <3> QED
      BY <1>5, <3>1, <3>2
  <2>5. \A q \in Partitions : committed'[q] <= Reached(q)'
    BY <1>0, <1>2, <1>3, <1>7 DEF OffsetInv, Reached
  <2>6. OffsetInv'
    BY <1>2, <1>7, <2>4, <2>5 DEF OffsetInv
  <2> QED
    BY <1>0, <2>2, <2>3, <2>6
<1>8. CASE mode = "user"
  <2> DEFINE k0 == KeyOf[p]
  <2>1. /\ heap' = h
        /\ waitDestroy' = [waitDestroy EXCEPT ![k0] = Append(@, o)]
        /\ held' = held \cup {o}
        /\ UNCHANGED <<waitCommit, misuse>>
    BY <1>8 DEF Receive
  <2> HIDE DEF h
  <2>2. WaitInv'
    BY <1>0, <1>1, <1>4, <2>1 DEF WaitInv, Live, Key
  <2>3. \A k \in Keys : waitDestroy[k] \in Seq(Obj)
    BY <1>0 DEF TypeOK
  <2>4. k0 \in Keys /\ waitDestroy'[k0] = Append(waitDestroy[k0], o)
    BY <1>0, <2>1 DEF TypeOK
  <2>5. /\ DOMAIN waitDestroy'[k0] = 1 .. Len(waitDestroy[k0]) + 1
        /\ DOMAIN waitDestroy[k0] = 1 .. Len(waitDestroy[k0])
        /\ Len(waitDestroy[k0]) \in Nat
        /\ waitDestroy'[k0][Len(waitDestroy[k0]) + 1] = o
        /\ \A i \in DOMAIN waitDestroy[k0] : waitDestroy'[k0][i] = waitDestroy[k0][i]
    BY <2>3, <2>4
  <2>6. \A k \in Keys : k # k0 => waitDestroy'[k] = waitDestroy[k]
    BY <1>0, <2>1 DEF TypeOK
  <2>7. \A k \in Keys : \A i \in DOMAIN waitDestroy[k] :
           waitDestroy[k][i] \in Live /\ waitDestroy[k][i] # o
    BY <1>0, <1>2 DEF ListInv, Ending
  <2>8. \A x \in Live : /\ x \in Live' /\ heap'[x] = heap[x]
                         /\ KeyOf[heap'[x].part] = Key(x) /\ Key(x)' = Key(x)
    BY <1>1, <2>1 DEF Live, Key
  <2>9. o \in Live' /\ Key(o)' = k0 /\ KeyOf[heap'[o].part] = k0
    BY <1>1, <2>1 DEF Live, Key
  <2>10. ASSUME NEW k \in Keys, NEW i \in DOMAIN waitDestroy'[k]
         PROVE  LET x == waitDestroy'[k][i]
                IN  /\ x \in Live' /\ KeyOf[heap'[x].part] = k
                    /\ \A j \in DOMAIN waitDestroy'[k] : waitDestroy'[k][j] = x => i = j
                    /\ \A y \in DOMAIN waitCommit' : waitCommit'[y] # x
    <3>1. CASE i \in DOMAIN waitDestroy[k] /\ waitDestroy'[k][i] = waitDestroy[k][i]
      <4>1. /\ waitDestroy[k][i] \in Live /\ Key(waitDestroy[k][i]) = k
            /\ \A j \in DOMAIN waitDestroy[k] :
                  waitDestroy[k][j] = waitDestroy[k][i] => i = j
            /\ \A y \in DOMAIN waitCommit : waitCommit[y] # waitDestroy[k][i]
        BY <1>0, <1>2, <3>1 DEF ListInv, Ending, TypeOK
      <4>2. \A j \in DOMAIN waitDestroy'[k] : waitDestroy'[k][j] = waitDestroy[k][i] => i = j
        BY <2>5, <2>6, <2>7, <3>1, <4>1
      <4> QED
        BY <2>1, <2>8, <3>1, <4>1, <4>2
    <3>2. CASE k = k0 /\ i = Len(waitDestroy[k0]) + 1
      <4>1. \A j \in DOMAIN waitDestroy'[k] : waitDestroy'[k][j] = o => i = j
        BY <2>4, <2>5, <2>7, <3>2
      <4> QED
        BY <1>4, <2>1, <2>5, <2>9, <3>2, <4>1
    <3> QED
      BY <2>5, <2>6, <3>1, <3>2
  <2>11. ListInv'
    BY <2>10 DEF ListInv, Key
  <2>12. ASSUME NEW x \in held'
         PROVE  x \in Live' /\ \E i \in DOMAIN waitDestroy'[Key(x)'] :
                                     waitDestroy'[Key(x)'][i] = x
    <3>1. CASE x = o
      BY <2>5, <2>9, <3>1
    <3>2. CASE x \in held
      <4>1. x \in Live
        BY <1>0, <3>2 DEF HeldInv
      <4>2. PICK i \in DOMAIN waitDestroy[Key(x)] : waitDestroy[Key(x)][i] = x
        BY <1>0, <3>2 DEF HeldInv
      <4>3. Key(x) \in Keys
        BY <1>0, <4>1 DEF TypeOK, Key, Live, Message
      <4> QED
        BY <2>5, <2>6, <2>8, <4>1, <4>2, <4>3
    <3> QED
      BY <2>1, <3>1, <3>2
  <2>13. HeldInv'
    BY <1>0, <1>2, <2>12 DEF HeldInv, Ending
  <2>14. ASSUME NEW k \in DOMAIN waitCommit'
         PROVE  heap'[waitCommit'[k]].off + 1 <= done[heap'[waitCommit'[k]].part]
    BY <1>4, <1>5, <2>1, <2>8
  <2>15. \A q \in Partitions : committed'[q] <= Reached(q)'
    BY <1>0, <1>2, <1>3, <1>8 DEF OffsetInv, Reached
  <2>16. OffsetInv'
    BY <1>2, <1>8, <2>14, <2>15 DEF OffsetInv
  <2> QED
    BY <1>0, <2>1, <2>2, <2>11, <2>13, <2>16
<1> QED
  BY <1>0, <1>6, <1>7, <1>8 DEF TypeOK

\* The callback returns.
LEMMA CallbackReturnSafety ==
    ASSUME SafeUse, SafetyInv, TypeInv', CallbackReturn
    PROVE  WaitInv' /\ ListInv' /\ HeldInv' /\ OffsetInv' /\ ~misuse'
<1> USE DEF pauseVars, waitVars, brokerVars, userVars
<1>0. TypeOK /\ ThreadsInv /\ ModeInv /\ WaitInv /\ ListInv /\ HeldInv /\ OffsetInv /\ ~misuse
  BY DEF SafetyInv, TypeInv
<1>1. /\ ucommit = None /\ cur # None /\ cur' = None
      /\ pollPc = "callback" /\ pollPc' \in {"head", "tick"}
      /\ UNCHANGED <<mode, ucommit, appPc, waitCommit, waitDestroy, committed, pos,
                     assigned, held, misuse>>
  BY <1>0 DEF CallbackReturn, SafeUse, ThreadsInv
<1>2. \A p \in Partitions : Reached(p)' = done'[p]
  BY <1>1 DEF Reached
<1>3. CASE mode = "user"
  <2>1. UNCHANGED <<heap, done>>
    BY <1>3 DEF CallbackReturn
  <2>2. WaitInv' /\ ListInv' /\ HeldInv' /\ ~misuse'
    BY <1>1, <2>1, MapsFrame, <1>0 DEF HeldInv
  <2>3. \A p \in Partitions : Reached(p) = done[p]
    BY <1>3 DEF Reached
  <2>4. OffsetInv'
    BY <1>0, <1>1, <1>2, <1>3, <2>1, <2>3 DEF OffsetInv
  <2> QED
    BY <2>2, <2>4
<1>4. CASE mode # "user"
  <2>1. cur \in Live /\ heap[cur].part \in Partitions /\ heap[cur].off \in Nat
    BY <1>0, <1>1, <1>4 DEF ThreadsInv, TypeOK, Live, Message
  <2> DEFINE p0 == heap[cur].part
             n0 == heap[cur].off + 1
  <2>2. /\ \A p \in Partitions : done[p] \in Nat /\ committed[p] \in Nat /\ pos[p] \in Nat
        /\ \A p \in Partitions : done'[p] \in Nat /\ done[p] <= done'[p]
        /\ n0 <= done'[p0]
    <3>1. done' = [done EXCEPT ![p0] = IF n0 > @ THEN n0 ELSE @]
      BY <1>4 DEF CallbackReturn, Processed
    <3> QED
      BY <1>0, <2>1, <3>1 DEF TypeOK
  <2>3. \A p \in Partitions : Reached(p) <= done'[p]
    BY <2>1, <2>2 DEF Reached
  <2>4. \A p \in Partitions : committed'[p] <= Reached(p)'
    <3>1. \A p \in Partitions : Reached(p) \in Nat
      BY <2>1, <2>2 DEF Reached
    <3> QED
      BY <1>0, <1>1, <1>2, <2>2, <2>3, <3>1 DEF OffsetInv
  <2>5. ASSUME mode = "auto", NEW p \in assigned
        PROVE  pos'[p] <= Reached(p)'
    <3>1. p \in Partitions /\ Reached(p) \in Nat
      BY <1>0, <2>1, <2>2 DEF Reached, TypeOK
    <3>2. pos[p] <= Reached(p)
      BY <1>0, <2>5 DEF OffsetInv
    <3> QED
      BY <1>1, <1>2, <2>2, <2>3, <3>1, <3>2
  <2>6. held = {} /\ \A k \in Keys : waitDestroy[k] = <<>>
    BY <1>0, <1>4 DEF ModeInv
  <2>7. ListInv' /\ HeldInv' /\ ~misuse'
    BY <1>0, <1>1, <2>6 DEF ListInv, HeldInv
  <2>8. CASE mode = "auto"
    <3>1. DOMAIN waitCommit = {}
      BY <1>0, <2>8 DEF ModeInv
    <3>2. WaitInv'
      BY <1>1, <3>1 DEF WaitInv
    <3>3. OffsetInv'
      BY <1>1, <2>4, <2>5, <3>1 DEF OffsetInv
    <3> QED
      BY <2>7, <3>2, <3>3
  <2>9. CASE mode = "internal"
    <3>1. UNCHANGED heap
      BY <2>9 DEF CallbackReturn
    <3>2. WaitInv'
      BY <1>0, <1>1, <3>1 DEF WaitInv, Live, Key
    <3>3. ASSUME NEW k \in DOMAIN waitCommit
          PROVE  heap[waitCommit[k]].off + 1 <= done'[heap[waitCommit[k]].part]
      <4>1. CASE waitCommit[k] = cur
        BY <2>2, <4>1
      <4>2. CASE waitCommit[k] # cur
        <5>1. heap[waitCommit[k]].part \in Partitions /\ heap[waitCommit[k]].off \in Nat
          BY <1>0 DEF WaitInv, TypeOK, Live, Message
        <5>2. heap[waitCommit[k]].off + 1 <= done[heap[waitCommit[k]].part]
          BY <1>0, <4>2 DEF OffsetInv
        <5> QED
          BY <2>2, <5>1, <5>2
      <4> QED
        BY <4>1, <4>2
    <3>4. OffsetInv'
      BY <1>1, <2>4, <2>5, <2>9, <3>1, <3>3 DEF OffsetInv
    <3> QED
      BY <2>7, <3>2, <3>4
  <2> QED
    BY <1>0, <1>4, <2>8, <2>9 DEF TypeOK
<1> QED
  BY <1>3, <1>4

\* The poll thread touches only live messages and commits only processed ones.
LEMMA PollThreadSafety == SafeUse /\ SafetyInv /\ TypeInv' /\ PollThread => SafetyInv'
<1> USE DEF pauseVars, waitVars, brokerVars, userVars, threadVars
<1> SUFFICES ASSUME SafeUse, SafetyInv, TypeInv', PollThread
             PROVE  WaitInv' /\ ListInv' /\ HeldInv' /\ OffsetInv' /\ ~misuse'
  BY DEF SafetyInv
<1>0. TypeOK /\ ThreadsInv /\ ModeInv /\ WaitInv /\ HeldInv /\ OffsetInv
  BY DEF SafetyInv, TypeInv
<1>1. CASE LoopAgain \/ LoopExit \/ PollNothing
  <2>1. /\ UNCHANGED <<mode, ucommit, waitCommit, waitDestroy, heap, held, misuse,
                       appPc, cur, committed, done, pos, assigned>>
        /\ pollPc # "callback" /\ pollPc' # "callback"
    BY <1>1 DEF LoopAgain, LoopExit, PollNothing
  <2>2. ucommit = None
    BY <1>0, <2>1 DEF HeldInv
  <2> QED
    BY <2>1, <2>2, MapsFrame, OffsetFrame
<1>2. CASE CallbackReturn
  BY <1>2, CallbackReturnSafety
<1>3. CASE Tick \/ ExitTick
  <2>1. CommitUnlessAuto(FALSE)
    BY <1>0, <1>3 DEF Tick, ExitTick, ThreadsInv, CommitUnlessAuto
  <2>2. /\ UNCHANGED <<mode, cur, ucommit, waitDestroy, held, done, pos, assigned, appPc>>
        /\ pollPc # "callback" /\ pollPc' # "callback"
    BY <1>3 DEF Tick, ExitTick
  <2> QED
    BY <2>1, <2>2, CommitSafety
<1>4. ASSUME NEW p \in Partitions, NEW o \in Obj, Receive(p, o)
      PROVE  WaitInv' /\ ListInv' /\ HeldInv' /\ OffsetInv' /\ ~misuse'
  BY <1>4, ReceiveSafety
<1>5. ASSUME NEW S \in SUBSET Partitions, Assign(S)
      PROVE  WaitInv' /\ ListInv' /\ HeldInv' /\ OffsetInv' /\ ~misuse'
  <2>1. /\ UNCHANGED <<mode, ucommit, waitCommit, waitDestroy, heap, held, misuse,
                       appPc, pollPc, cur, committed, done>>
        /\ pollPc # "callback"
        /\ assigned' = S
        /\ pos' = [p \in Partitions |-> IF p \in S THEN committed[p] ELSE pos[p]]
    BY <1>5 DEF Assign
  <2>2. WaitInv' /\ ListInv' /\ HeldInv' /\ ~misuse'
    BY <2>1, MapsFrame
  <2>3. \A p \in Partitions : Reached(p)' = Reached(p)
    BY <2>1 DEF Reached
  <2>4. \A p \in S : pos'[p] <= Reached(p)'
    BY <1>0, <2>1, <2>3 DEF OffsetInv
  <2>5. OffsetInv'
    BY <1>0, <2>1, <2>3, <2>4 DEF OffsetInv
  <2> QED
    BY <2>2, <2>5
<1>6. CASE Revoke
  <2>1. /\ UNCHANGED <<mode, cur, ucommit, waitDestroy, held, done, pos, appPc, pollPc>>
        /\ pollPc # "callback" /\ CommitUnlessAuto(TRUE) /\ assigned' \subseteq assigned
    BY <1>6 DEF Revoke, RevokeCallback
  <2> QED
    BY <2>1, CommitSafety
<1>7. CASE RebalanceError
  <2>1. /\ UNCHANGED <<mode, ucommit, waitCommit, waitDestroy, heap, held, misuse,
                       appPc, pollPc, cur, committed, done, pos>>
        /\ assigned' \subseteq assigned
    BY <1>7 DEF RebalanceError
  <2> QED
    BY <2>1, MapsFrame, OffsetFrame
<1> QED
  BY <1>1, <1>2, <1>3, <1>4, <1>5, <1>6, <1>7 DEF PollThread

\* The first half of commitOffset(): the message is the user's, hence listed and
\* not waiting; what it replaces was waiting, hence not listed.
LEMMA UserCommitSafety ==
    ASSUME SafeUse, SafetyInv, TypeInv', NEW o \in Obj, UserCommit(o)
    PROVE  WaitInv' /\ ListInv' /\ HeldInv' /\ OffsetInv' /\ ~misuse'
<1> USE DEF pauseVars, brokerVars
<1>0. TypeOK /\ ThreadsInv /\ ModeInv /\ WaitInv /\ ListInv /\ HeldInv /\ OffsetInv /\ ~misuse
  BY DEF SafetyInv, TypeInv
<1>1. /\ mode = "user" /\ ucommit = None /\ ucommit' = o /\ pollPc = "callback"
      /\ o \in held /\ o \in Live
      /\ AddWaitCommitOffset(o, heap)
      /\ Processed(heap[o].part, heap[o].off + 1)
      /\ held' = held \ (Superseded(o) \cup {o})
      /\ UNCHANGED <<mode, pollPc, appPc, cur, waitDestroy, committed, pos, assigned>>
  <2>1. held \subseteq Live
    BY <1>0 DEF HeldInv
  <2> QED
    BY <2>1 DEF UserCommit, MayCommit, SafeUse
<1>2. appPc \notin Ending
  BY <1>0, <1>1 DEF HeldInv, Ending
<1>3. ASSUME NEW k \in Keys, NEW i \in DOMAIN waitDestroy[k]
      PROVE  /\ waitDestroy[k][i] \in Live /\ Key(waitDestroy[k][i]) = k
             /\ \A j \in DOMAIN waitDestroy[k] :
                   waitDestroy[k][j] = waitDestroy[k][i] => i = j
             /\ \A x \in DOMAIN waitCommit : waitCommit[x] # waitDestroy[k][i]
  <2>1. appPc \notin {"closing", "stopped"} /\ ucommit = None
    BY <1>1, <1>2 DEF Ending
  <2>2. /\ waitDestroy[k][i] \in Live /\ Key(waitDestroy[k][i]) = k
        /\ \A j \in DOMAIN waitDestroy[k] : waitDestroy[k][j] = waitDestroy[k][i] => i = j
        /\ waitDestroy[k][i] # ucommit =>
              \A x \in DOMAIN waitCommit : waitCommit[x] # waitDestroy[k][i]
    BY <1>0, <2>1 DEF ListInv
  <2>3. waitDestroy[k][i] # None
    BY <1>0, <2>2 DEF TypeOK
  <2> QED
    BY <2>1, <2>2, <2>3
<1>4. heap[o].part \in Partitions /\ heap[o].off \in Nat /\ Key(o) \in Keys
  BY <1>0, <1>1 DEF TypeOK, Live, Message, Key
<1>5. \A x \in DOMAIN waitCommit : waitCommit[x] # o
  <2>1. PICK i \in DOMAIN waitDestroy[Key(o)] : waitDestroy[Key(o)][i] = o
    BY <1>0, <1>1 DEF HeldInv
  <2> QED
    BY <1>3, <1>4, <2>1
<1>6. /\ misuse' = misuse
      /\ WaitInv'
      /\ o \in Live' /\ Live' \subseteq Live
      /\ \A x \in Live' : heap'[x] = heap[x]
      /\ \A x \in Live : x \in Live' \/ \E k \in DOMAIN waitCommit : waitCommit[k] = x
  BY <1>0, <1>1, <1>5, AddWaitKeys DEF TypeOK, Live
<1>7. /\ DOMAIN waitCommit' = DOMAIN waitCommit \cup {Key(o)}
      /\ waitCommit'[Key(o)] = o
      /\ \A x \in DOMAIN waitCommit' :
            \/ waitCommit'[x] = o
            \/ x \in DOMAIN waitCommit /\ waitCommit'[x] = waitCommit[x]
  <2>1. AddWaitCommitOffset(o, heap)
    BY <1>1
  <2>2. waitCommit' = [x \in DOMAIN waitCommit \cup {Key(o)} |->
                          IF x = Key(o) THEN o ELSE waitCommit[x]]
    BY <2>1 DEF AddWaitCommitOffset, Key
  <2>3. DOMAIN waitCommit' = DOMAIN waitCommit \cup {Key(o)}
    BY <2>2
  <2>4. \A x \in DOMAIN waitCommit' :
           waitCommit'[x] = IF x = Key(o) THEN o ELSE waitCommit[x]
    BY <2>2
  <2> QED
    BY <2>3, <2>4
<1>8. ListInv'
  <2>1. ASSUME NEW k \in Keys, NEW i \in DOMAIN waitDestroy[k]
        PROVE  /\ waitDestroy[k][i] \in Live' /\ Key(waitDestroy[k][i])' = k
               /\ waitDestroy[k][i] # o =>
                     \A x \in DOMAIN waitCommit' : waitCommit'[x] # waitDestroy[k][i]
    <3>1. waitDestroy[k][i] \in Live'
      BY <1>3, <1>6
    <3>2. waitDestroy'[k][i] = waitDestroy[k][i]
      BY <1>1
    <3> QED
      BY <1>3, <1>6, <1>7, <3>1, <3>2 DEF Key
  <2> QED
    BY <1>1, <1>3, <2>1 DEF ListInv, Key
<1>9. HeldInv'
  <2>1. appPc' \notin {"closing", "stopped"}
    BY <1>1, <1>2 DEF Ending
  <2>2. ASSUME NEW x \in held'
        PROVE  x \in Live' /\ \E i \in DOMAIN waitDestroy[Key(x)'] :
                                    waitDestroy[Key(x)'][i] = x
    <3>1. PICK i \in DOMAIN waitDestroy[Key(x)] : waitDestroy[Key(x)][i] = x
      BY <1>0, <1>1 DEF HeldInv
    <3>2. x \in Live /\ Key(x) \in Keys
      BY <1>0, <1>1 DEF HeldInv, TypeOK, Key, Live, Message
    <3>3. x \in Live'
      BY <1>3, <1>6, <3>1, <3>2
    <3> QED
      BY <1>6, <3>1, <3>3 DEF Key
  <2>3. Key(o)' = Key(o)
    BY <1>6 DEF Key
  <2>4. ASSUME NEW i \in DOMAIN waitDestroy[Key(o)], waitDestroy[Key(o)][i] = o,
               NEW j \in 1 .. i
        PROVE  waitDestroy[Key(o)][j] \notin held'
    <3> DEFINE y == waitDestroy[Key(o)][j]
    <3>1. j \in DOMAIN waitDestroy[Key(o)]
      <4>1. waitDestroy[Key(o)] \in Seq(Obj)
        BY <1>0, <1>4 DEF TypeOK
      <4> QED
        BY <2>4, <4>1
    <3>2. y \in Live /\ Key(y) = Key(o)
      BY <1>3, <1>4, <3>1
    <3>3. heap[y].part = heap[o].part
      <4>1. heap[y].part \in Partitions
        BY <1>0, <3>2 DEF TypeOK, Live, Message
      <4> QED
        BY <1>4, <3>2, <4>1 DEF SafeUse, Key
    <3>4. y \in held => y \in Superseded(o)
      BY <2>4, <3>2, <3>3 DEF Superseded
    <3> QED
      BY <1>1, <3>4
  <2> QED
    BY <1>1, <1>7, <2>1, <2>2, <2>3, <2>4 DEF HeldInv
<1>10. OffsetInv'
  <2>1. /\ \A p \in Partitions : done[p] \in Nat /\ done'[p] \in Nat /\ done[p] <= done'[p]
        /\ heap[o].off + 1 <= done'[heap[o].part]
    <3>1. Processed(heap[o].part, heap[o].off + 1)
      BY <1>1
    <3>2. done \in [Partitions -> Nat]
      BY <1>0 DEF TypeOK
    <3> QED
      BY <1>4, <3>1, <3>2 DEF Processed
  <2>2. \A p \in Partitions : Reached(p) = done[p] /\ Reached(p)' = done'[p]
    BY <1>1 DEF Reached
  <2>3. ASSUME NEW p \in Partitions
        PROVE  committed'[p] <= Reached(p)'
    <3>1. committed[p] <= done[p] /\ committed[p] \in Nat /\ committed' = committed
      BY <1>0, <1>1, <2>2 DEF OffsetInv, TypeOK
    <3> QED
      BY <2>1, <2>2, <3>1
  <2>4. ASSUME NEW k \in DOMAIN waitCommit'
        PROVE  heap'[waitCommit'[k]].off + 1 <= done'[heap'[waitCommit'[k]].part]
    <3>1. CASE waitCommit'[k] = o
      BY <1>6, <2>1, <3>1
    <3>2. CASE k \in DOMAIN waitCommit /\ waitCommit'[k] = waitCommit[k]
      <4>1. heap[waitCommit[k]].part \in Partitions /\ heap[waitCommit[k]].off \in Nat
        BY <1>0, <3>2 DEF WaitInv, TypeOK, Live, Message
      <4>2. heap[waitCommit[k]].off + 1 <= done[heap[waitCommit[k]].part]
        BY <1>0, <1>1, <3>2 DEF OffsetInv
      <4>3. heap'[waitCommit'[k]] = heap[waitCommit[k]]
        BY <1>6, <3>2 DEF WaitInv
      <4> QED
        BY <2>1, <4>1, <4>2, <4>3
    <3> QED
      BY <1>7, <3>1, <3>2
  <2> QED
    BY <1>1, <2>3, <2>4 DEF OffsetInv
<1> QED
  BY <1>0, <1>6, <1>8, <1>9, <1>10

\* The second half: what is listed before the message is neither waiting nor
\* the user's any more.
LEMMA UserCommitEndSafety ==
    ASSUME SafetyInv, TypeInv', UserCommitEnd
    PROVE  WaitInv' /\ ListInv' /\ HeldInv' /\ OffsetInv' /\ ~misuse'
<1> USE DEF pauseVars, brokerVars, userVars
<1> DEFINE K == Key(ucommit)
           msgs == waitDestroy[K]
<1>0. TypeOK /\ ThreadsInv /\ ModeInv /\ WaitInv /\ ListInv /\ HeldInv /\ OffsetInv /\ ~misuse
  BY DEF SafetyInv, TypeInv
<1>1. /\ ucommit \in Live /\ ucommit' = None
      /\ RemoveWaitDestroyMsgs(ucommit)
      /\ UNCHANGED <<mode, pollPc, appPc, cur, waitCommit, committed, pos, assigned, held, done>>
  <2>1. ucommit # None => ucommit \in Live
    BY <1>0 DEF HeldInv, WaitInv
  <2> QED
    BY <2>1 DEF UserCommitEnd
<1>2. ucommit # None /\ mode = "user" /\ K \in Keys /\ msgs \in Seq(Obj)
  BY <1>0, <1>1 DEF TypeOK, ThreadsInv, Live, Key, Message
<1>3. \A i \in DOMAIN msgs : msgs[i] = ucommit => \A j \in 1 .. i : msgs[j] \notin held
  BY <1>0, <1>2 DEF HeldInv
<1>4. ASSUME appPc \notin Ending, NEW k \in Keys, NEW i \in DOMAIN waitDestroy[k]
      PROVE  /\ waitDestroy[k][i] \in Live /\ Key(waitDestroy[k][i]) = k
             /\ waitDestroy[k][i] # None
             /\ \A j \in DOMAIN waitDestroy[k] :
                   waitDestroy[k][j] = waitDestroy[k][i] => i = j
             /\ waitDestroy[k][i] # ucommit =>
                   \A x \in DOMAIN waitCommit : waitCommit[x] # waitDestroy[k][i]
  BY <1>0, <1>4 DEF ListInv, Ending, TypeOK
<1>5. ASSUME NEW x \in held
      PROVE  /\ x \in Live /\ Key(x) \in Keys
             /\ appPc \notin Ending
             /\ \E i \in DOMAIN waitDestroy[Key(x)] : waitDestroy[Key(x)][i] = x
  BY <1>0 DEF HeldInv, TypeOK, Live, Key, Message, Ending
<1>6. appPc \notin Ending
  BY <1>0, <1>2 DEF HeldInv, ThreadsInv, Ending
<1>7. CASE ucommit \notin Range(msgs) /\ UNCHANGED <<heap, waitDestroy, misuse>>
  <2>1. \A k \in Keys : \A i \in DOMAIN waitDestroy[k] : waitDestroy[k][i] # ucommit
    BY <1>4, <1>6, <1>7 DEF Range
  <2>2. ListInv'
    BY <1>0, <1>1, <1>4, <1>6, <1>7, <2>1 DEF ListInv, Ending, Live, Key
  <2>3. WaitInv' /\ HeldInv' /\ ~misuse'
    BY <1>0, <1>1, <1>7 DEF WaitInv, HeldInv, Live, Key
  <2>4. OffsetInv'
    BY <1>1, <1>7, OffsetFrame
  <2> QED
    BY <2>2, <2>3, <2>4
<1>8. ASSUME NEW i \in DOMAIN msgs,
             msgs[i] = ucommit,
             heap' = Restrict(heap, Live \ {msgs[j] : j \in 1 .. i - 1}),
             misuse' = (misuse \/ ~({msgs[j] : j \in 1 .. i - 1} \subseteq Live)),
             waitDestroy' = [waitDestroy EXCEPT ![K] = SubSeq(@, i + 1, Len(@))]
      PROVE  WaitInv' /\ ListInv' /\ HeldInv' /\ OffsetInv' /\ ~misuse'
  <2> DEFINE before == {msgs[j] : j \in 1 .. i - 1}
  <2>1. DOMAIN msgs = 1 .. Len(msgs) /\ Len(msgs) \in Nat
    BY <1>2
  <2>2. ASSUME NEW x \in before
        PROVE  /\ x \in Live /\ Key(x) = K /\ x \notin held
               /\ \A y \in DOMAIN waitCommit : waitCommit[y] # x
               /\ \A n \in DOMAIN msgs : n > i => msgs[n] # x
    <3>1. PICK j \in 1 .. i - 1 : x = msgs[j]
      OBVIOUS
    <3>2. j \in DOMAIN msgs /\ j # i /\ j \in 1 .. i
      BY <2>1
    <3>3. x # ucommit
      BY <1>2, <1>4, <1>6, <1>8, <3>1, <3>2
    <3>4. x \notin held
      BY <1>3, <1>8, <3>1, <3>2
    <3>5. \A n \in DOMAIN msgs : msgs[n] = x => n = j
      BY <1>2, <1>4, <1>6, <3>1, <3>2
    <3> QED
      BY <1>2, <1>4, <1>6, <2>1, <3>1, <3>2, <3>3, <3>4, <3>5
  <2>3. /\ Live' = Live \ before
        /\ \A x \in Live' : heap'[x] = heap[x] /\ Key(x)' = Key(x) /\ KeyOf[heap'[x].part] = Key(x)
    BY <1>8 DEF Live, Restrict, Key
  <2>4. ~misuse'
    BY <1>0, <1>8, <2>2
  <2>5. WaitInv'
    BY <1>0, <1>1, <2>2, <2>3 DEF WaitInv
  <2>6. \A k \in Keys : k # K => waitDestroy'[k] = waitDestroy[k]
    BY <1>0, <1>8 DEF TypeOK
  <2>7. /\ waitDestroy'[K] = SubSeq(msgs, i + 1, Len(msgs))
        /\ DOMAIN waitDestroy'[K] = 1 .. Len(msgs) - i
        /\ \A n \in DOMAIN waitDestroy'[K] :
              n + i \in DOMAIN msgs /\ waitDestroy'[K][n] = msgs[n + i]
    <3>1. waitDestroy'[K] = SubSeq(msgs, i + 1, Len(msgs))
      BY <1>0, <1>2, <1>8 DEF TypeOK
    <3>2. /\ DOMAIN SubSeq(msgs, i + 1, Len(msgs)) = 1 .. Len(msgs) - i
          /\ \A n \in DOMAIN SubSeq(msgs, i + 1, Len(msgs)) :
                /\ n + i \in DOMAIN msgs
                /\ SubSeq(msgs, i + 1, Len(msgs))[n] = msgs[n + i]
      BY <1>2, TailAfter
    <3> QED
      BY <3>1, <3>2
  <2>8. ASSUME NEW k \in Keys, NEW n \in DOMAIN waitDestroy'[k]
        PROVE  LET x == waitDestroy'[k][n]
               IN  /\ x \in Live' /\ KeyOf[heap'[x].part] = k
                   /\ \A j \in DOMAIN waitDestroy'[k] : waitDestroy'[k][j] = x => n = j
                   /\ \A y \in DOMAIN waitCommit : waitCommit[y] # x
    <3>1. CASE k # K
      <4>1. n \in DOMAIN waitDestroy[k] /\ waitDestroy'[k] = waitDestroy[k]
        BY <2>6, <3>1
      <4>2. waitDestroy[k][n] \notin before /\ waitDestroy[k][n] # ucommit
        BY <1>4, <1>6, <2>2, <3>1, <4>1
      <4> QED
        BY <1>4, <1>6, <2>3, <4>1, <4>2
    <3>2. CASE k = K
      <4>0. n \in DOMAIN waitDestroy'[K] /\ waitDestroy'[k] = waitDestroy'[K]
        BY <3>2
      <4>1. /\ n + i \in DOMAIN msgs /\ n + i > i /\ n \in Nat
            /\ waitDestroy'[k][n] = msgs[n + i]
        <5> HIDE DEF K, msgs
        <5>1. n \in 1 .. Len(msgs) - i /\ i \in 1 .. Len(msgs)
          BY <2>1, <2>7, <4>0
        <5> QED
          BY <2>1, <2>7, <4>0, <5>1
      <4>2. msgs[n + i] \notin before
        BY <2>2, <4>1
      <4>3. /\ msgs[n + i] \in Live /\ Key(msgs[n + i]) = K /\ msgs[n + i] # ucommit
            /\ \A y \in DOMAIN waitCommit : waitCommit[y] # msgs[n + i]
        BY <1>2, <1>4, <1>6, <1>8, <4>1
      <4>4. ASSUME NEW j \in DOMAIN waitDestroy'[k], waitDestroy'[k][j] = msgs[n + i]
            PROVE  n = j
        <5>1. j + i \in DOMAIN msgs /\ msgs[j + i] = msgs[n + i] /\ j \in Nat
          <6> HIDE DEF K, msgs
          <6>1. j \in DOMAIN waitDestroy'[K]
            BY <3>2
          <6> QED
            BY <2>1, <2>7, <4>0, <4>4, <6>1
        <5>2. n + i = j + i
          BY <1>2, <1>4, <1>6, <4>1, <5>1
        <5> QED
          BY <2>1, <4>1, <5>1, <5>2
      <4> QED
        BY <2>3, <3>2, <4>1, <4>2, <4>3, <4>4
    <3> QED
      BY <3>1, <3>2
  <2>9. ListInv'
    BY <1>1, <2>8 DEF ListInv, Key
  <2>10. ASSUME NEW x \in held
         PROVE  x \in Live' /\ \E n \in DOMAIN waitDestroy'[Key(x)'] :
                                     waitDestroy'[Key(x)'][n] = x
    <3>1. x \in Live' /\ Key(x)' = Key(x)
      BY <1>5, <2>2, <2>3
    <3>2. PICK n \in DOMAIN waitDestroy[Key(x)] : waitDestroy[Key(x)][n] = x
      BY <1>5
    <3>3. CASE Key(x) # K
      BY <1>5, <2>6, <3>1, <3>2, <3>3
    <3>4. CASE Key(x) = K
      <4>1. n \in DOMAIN msgs /\ ~(n \in 1 .. i)
        BY <1>3, <1>8, <3>2, <3>4
      <4>2. n - i \in DOMAIN waitDestroy'[K] /\ (n - i) + i = n
        BY <2>1, <2>7, <4>1
      <4>3. waitDestroy'[K][n - i] = x
        BY <2>7, <3>2, <3>4, <4>2
      <4> QED
        BY <3>1, <3>4, <4>2, <4>3
    <3> QED
      BY <3>3, <3>4
  <2>11. HeldInv'
    BY <1>0, <1>1, <2>10 DEF HeldInv
  <2>12. OffsetInv'
    <3>1. \A p \in Partitions : Reached(p) = done[p] /\ Reached(p)' = done[p]
      BY <1>1, <1>2 DEF Reached
    <3>2. \A k \in DOMAIN waitCommit : waitCommit[k] \in Live'
      BY <1>1, <2>5 DEF WaitInv
    <3> QED
      BY <1>0, <1>1, <1>2, <2>3, <3>1, <3>2 DEF OffsetInv
  <2> QED
    BY <2>4, <2>5, <2>9, <2>11, <2>12
<1> QED
  BY <1>1, <1>7, <1>8 DEF RemoveWaitDestroyMsgs

LEMMA UserThreadSafety == SafeUse /\ SafetyInv /\ TypeInv' /\ UserThread => SafetyInv'
<1> SUFFICES ASSUME SafeUse, SafetyInv, TypeInv', UserThread PROVE SafetyInv'
  OBVIOUS
<1>1. ASSUME NEW o \in Obj, UserCommit(o) PROVE SafetyInv'
  BY <1>1, UserCommitSafety DEF SafetyInv
<1>2. CASE UserCommitEnd
  BY <1>2, UserCommitEndSafety DEF SafetyInv
<1> QED
  BY <1>1, <1>2 DEF UserThread

\* stop() commits, clears the lists and closes, in that order, after the join.
LEMMA AppThreadSafety == SafetyInv /\ TypeInv' /\ AppThread => SafetyInv'
<1> USE DEF pauseVars, waitVars, brokerVars, userVars, threadVars
<1> SUFFICES ASSUME SafetyInv, TypeInv', AppThread
             PROVE  WaitInv' /\ ListInv' /\ HeldInv' /\ OffsetInv' /\ ~misuse'
  BY DEF SafetyInv
<1>0. TypeOK /\ ThreadsInv /\ ModeInv /\ WaitInv /\ ListInv /\ HeldInv /\ OffsetInv /\ ~misuse
  BY DEF SafetyInv, TypeInv
<1>1. CASE Start
  <2>1. /\ UNCHANGED <<mode, ucommit, waitCommit, waitDestroy, heap, held, misuse,
                       cur, committed, done, pos, assigned>>
        /\ appPc = "ready" /\ appPc' = "run" /\ pollPc' = "head" /\ pollPc = "idle"
    BY <1>0, <1>1 DEF Start, ThreadsInv
  <2>2. ucommit = None
    BY <1>0, <2>1 DEF HeldInv
  <2> QED
    BY <2>1, <2>2, MapsFrame, OffsetFrame DEF Ending
<1>2. ASSUME Stop \/ PauseFind \/ PauseApply
                  \/ \E op \in {"pause", "resume"}, ts \in PauseSets : PauseCheck(op, ts)
      PROVE  WaitInv' /\ ListInv' /\ HeldInv' /\ OffsetInv' /\ ~misuse'
  <2>1. /\ UNCHANGED <<mode, ucommit, waitCommit, waitDestroy, heap, held, misuse,
                       pollPc, cur, committed, done, pos, assigned>>
        /\ appPc \notin Ending /\ appPc' \notin Ending
    BY <1>2 DEF Stop, PauseFind, PauseApply, PauseCheck, Ending
  <2> QED
    BY <2>1, MapsFrame, OffsetFrame
<1>3. CASE StopCommit
  <2>1. /\ UNCHANGED <<mode, cur, ucommit, waitDestroy, held, done, pos, pollPc, assigned>>
        /\ pollPc # "callback" /\ CommitUnlessAuto(TRUE)
        /\ appPc \notin Ending /\ (appPc' \in Ending => mode # "user")
    BY <1>3 DEF StopCommit, Ending
  <2> QED
    BY <2>1, CommitSafety
<1>4. CASE StopClear
  <2>1. /\ UNCHANGED <<mode, pollPc, cur, ucommit, waitDestroy, waitCommit,
                       committed, pos, assigned, done>>
        /\ appPc = "clearing" /\ appPc' = "closing" /\ held' = {}
        /\ heap' = Restrict(heap, Live \ Listed)
        /\ misuse' = (misuse \/ ~(Listed \subseteq Live))
    BY <1>4 DEF StopClear, ClearWaitDestroyMsgs
  <2>2. ucommit = None
    BY <1>0, <2>1 DEF HeldInv, ThreadsInv
  <2>3. ASSUME NEW o \in Listed
        PROVE  o \in Live /\ \A x \in DOMAIN waitCommit : waitCommit[x] # o
    <3>1. PICK k \in Keys : o \in Range(waitDestroy[k])
      BY DEF Listed
    <3>2. PICK i \in DOMAIN waitDestroy[k] : o = waitDestroy[k][i]
      BY <3>1 DEF Range
    <3>3. appPc \notin {"closing", "stopped"}
      BY <2>1
    <3>4. /\ waitDestroy[k][i] \in Live
          /\ waitDestroy[k][i] # ucommit =>
                \A x \in DOMAIN waitCommit : waitCommit[x] # waitDestroy[k][i]
      BY <1>0, <3>3 DEF ListInv
    <3>5. waitDestroy[k][i] # None
      BY <1>0, <3>4 DEF TypeOK
    <3> QED
      BY <2>2, <3>2, <3>4, <3>5
  <2>4. ~misuse'
    BY <1>0, <2>1, <2>3
  <2>5. /\ Live' = Live \ Listed
        /\ \A x \in Live' : heap'[x] = heap[x]
    BY <2>1 DEF Live, Restrict
  <2>6. WaitInv'
    <3>1. \A x \in DOMAIN waitCommit : waitCommit[x] \in Live'
      BY <1>0, <2>3, <2>5 DEF WaitInv
    <3>2. UNCHANGED waitCommit
      BY <2>1
    <3> QED
      BY <1>0, <2>5, <3>1, <3>2 DEF WaitInv, Key
  <2>7. ListInv' /\ HeldInv'
    BY <2>1, <2>2 DEF ListInv, HeldInv
  <2>8. OffsetInv'
    <3>1. pollPc # "callback" /\ cur = None
      BY <1>0, <2>1 DEF ThreadsInv
    <3>2. \A p \in Partitions : Reached(p)' = Reached(p)
      BY <2>1, <3>1 DEF Reached
    <3>3. \A k \in DOMAIN waitCommit : heap'[waitCommit[k]] = heap[waitCommit[k]]
      BY <2>1, <2>5, <2>6 DEF WaitInv
    <3>4. ASSUME NEW k \in DOMAIN waitCommit', mode' = "user" \/ waitCommit'[k] # cur'
          PROVE  heap'[waitCommit'[k]].off + 1 <= done'[heap'[waitCommit'[k]].part]
      <4>1. k \in DOMAIN waitCommit /\ waitCommit'[k] = waitCommit[k]
        BY <2>1, <3>4
      <4>2. heap'[waitCommit'[k]] = heap[waitCommit[k]]
        BY <3>3, <4>1
      <4>3. heap[waitCommit[k]].off + 1 <= done[heap[waitCommit[k]].part]
        BY <1>0, <2>1, <3>4, <4>1 DEF OffsetInv
      <4> QED
        BY <2>1, <4>2, <4>3
    <3>5. \A p \in Partitions : committed'[p] <= Reached(p)'
      BY <1>0, <2>1, <3>2 DEF OffsetInv
    <3>6. mode' = "auto" => \A p \in assigned' : pos'[p] <= Reached(p)'
      BY <1>0, <2>1, <3>2 DEF OffsetInv, TypeOK
    <3>7. cur' = None
      BY <2>1, <3>1
    <3> QED
      BY <3>4, <3>5, <3>6, <3>7 DEF OffsetInv
  <2> QED
    BY <2>4, <2>6, <2>7, <2>8
<1>5. CASE StopClose
  <2>0. /\ UNCHANGED <<mode, pollPc, cur, ucommit, waitDestroy, pos, held, done>>
        /\ appPc \in Ending /\ appPc' \in Ending
    BY <1>5 DEF StopClose, Ending
  <2>1. pollPc # "callback"
    BY <1>0, <2>0 DEF ThreadsInv, Ending
  <2>2. CASE RevokeCallback
    <3>1. CommitUnlessAuto(TRUE) /\ assigned' \subseteq assigned
      BY <2>2 DEF RevokeCallback
    <3> QED
      BY <2>0, <2>1, <3>1, CommitSafety
  <2>3. CASE UNCHANGED <<committed, heap, misuse, waitCommit, due, assigned,
                         hasAssigned, paused>>
    BY <2>0, <2>3, MapsFrame, OffsetFrame
  <2> QED
    BY <1>5, <2>2, <2>3 DEF StopClose
<1>6. CASE Stopped
  <2>1. UNCHANGED <<mode, ucommit, waitCommit, waitDestroy, heap, held, misuse,
                    appPc, pollPc, cur, committed, done, pos, assigned>>
    BY <1>6 DEF Stopped, vars
  <2> QED
    BY <2>1, MapsFrame, OffsetFrame
<1> QED
  BY <1>1, <1>2, <1>3, <1>4, <1>5, <1>6 DEF AppThread

\* Automatic commits stop at what poll() returned, other members' at what is
\* processed.
LEMMA EnvironmentSafety == SafetyInv /\ TypeInv' /\ Environment => SafetyInv'
<1> USE DEF pauseVars, waitVars, brokerVars, userVars, threadVars
<1> SUFFICES ASSUME SafetyInv, TypeInv', Environment
             PROVE  WaitInv' /\ ListInv' /\ HeldInv' /\ OffsetInv' /\ ~misuse'
  BY DEF SafetyInv
<1>0. TypeOK /\ OffsetInv /\ WaitInv
  BY DEF SafetyInv, TypeInv
<1>1. /\ UNCHANGED <<mode, ucommit, waitCommit, waitDestroy, heap, held, misuse,
                     appPc, pollPc, cur, pos, assigned>>
  BY DEF Environment, AutoCommit, OtherProcesses, OtherCommits, TimePasses
<1>2. WaitInv' /\ ListInv' /\ HeldInv' /\ ~misuse'
  BY <1>1, MapsFrame
<1>3. ASSUME NEW p \in Partitions, AutoCommit(p) PROVE OffsetInv'
  <2>1. /\ mode = "auto" /\ p \in assigned /\ done' = done
        /\ committed' = [committed EXCEPT ![p] = pos[p]]
    BY <1>3 DEF AutoCommit
  <2>2. \A q \in Partitions : Reached(q)' = Reached(q)
    BY <1>1, <2>1 DEF Reached
  <2>3. \A q \in Partitions : committed'[q] <= Reached(q)'
    BY <1>0, <2>1, <2>2 DEF OffsetInv, TypeOK
  <2>4. assigned \subseteq Partitions
    BY <1>0 DEF TypeOK
  <2> QED
    BY <1>0, <1>1, <2>1, <2>2, <2>3, <2>4 DEF OffsetInv
<1>4. ASSUME NEW p \in Partitions, OtherProcesses(p) PROVE OffsetInv'
  <2>1. /\ committed' = committed /\ p \notin assigned
        /\ done' = [done EXCEPT ![p] = @ + 1]
    BY <1>4 DEF OtherProcesses
  <2>2. \A q \in Partitions : done[q] \in Nat /\ done'[q] \in Nat /\ done[q] <= done'[q]
    BY <1>0, <2>1 DEF TypeOK
  <2>3. mode = "auto" /\ cur # None => heap[cur].part \in Partitions /\ heap[cur].off \in Nat
    <3>1. mode = "auto" /\ cur # None => cur \in Live
      BY DEF SafetyInv, TypeInv, ThreadsInv
    <3> QED
      BY <1>0, <3>1 DEF TypeOK, Live, Message
  <2>4. pollPc = "callback" => cur # None
    BY DEF SafetyInv, TypeInv, ThreadsInv
  <2>5. \A q \in Partitions : /\ Reached(q) <= Reached(q)'
                              /\ Reached(q) \in Nat /\ Reached(q)' \in Nat
    BY <1>1, <2>2, <2>3, <2>4 DEF Reached
  <2>6. \A q \in Partitions : committed'[q] <= Reached(q)'
    <3> TAKE q \in Partitions
    <3>1. committed[q] <= Reached(q) /\ committed[q] \in Nat
      BY <1>0 DEF OffsetInv, TypeOK
    <3> QED
      BY <2>1, <2>5, <3>1
  <2>7. ASSUME mode = "auto", NEW q \in assigned PROVE pos[q] <= Reached(q)'
    <3>1. pos[q] <= Reached(q) /\ pos[q] \in Nat /\ q \in Partitions
      BY <1>0, <2>7 DEF OffsetInv, TypeOK
    <3> QED
      BY <2>5, <3>1
  <2>8. ASSUME NEW k \in DOMAIN waitCommit, mode = "user" \/ waitCommit[k] # cur
        PROVE  heap[waitCommit[k]].off + 1 <= done'[heap[waitCommit[k]].part]
    <3>1. heap[waitCommit[k]].part \in Partitions /\ heap[waitCommit[k]].off \in Nat
      BY <1>0 DEF WaitInv, TypeOK, Live, Message
    <3>2. heap[waitCommit[k]].off + 1 <= done[heap[waitCommit[k]].part]
      BY <1>0, <2>8 DEF OffsetInv
    <3> QED
      BY <2>2, <3>1, <3>2
  <2>9. mode = "auto" /\ cur # None => heap[cur].off <= done'[heap[cur].part]
    <3>1. mode = "auto" /\ cur # None => heap[cur].off <= done[heap[cur].part]
      BY <1>0 DEF OffsetInv
    <3> QED
      BY <2>2, <2>3, <3>1
  <2> QED
    BY <1>1, <2>6, <2>7, <2>8, <2>9 DEF OffsetInv
<1>5. ASSUME NEW p \in Partitions, OtherCommits(p) PROVE OffsetInv'
  <2>1. /\ done' = done /\ p \notin assigned /\ committed[p] < done[p]
        /\ committed' = [committed EXCEPT ![p] = @ + 1]
    BY <1>5 DEF OtherCommits
  <2>2. \A q \in Partitions : Reached(q)' = Reached(q)
    BY <1>1, <2>1 DEF Reached
  <2>3. done[p] <= Reached(p) /\ Reached(p) \in Nat
    <3>1. mode = "auto" /\ pollPc = "callback" => cur \in Live
      BY DEF SafetyInv, TypeInv, ThreadsInv
    <3>2. mode = "auto" /\ pollPc = "callback" => heap[cur].off \in Nat
      BY <1>0, <3>1 DEF TypeOK, Live, Message
    <3> QED
      BY <1>0, <3>2 DEF Reached, TypeOK
  <2>4. ASSUME NEW q \in Partitions PROVE committed'[q] <= Reached(q)'
    <3>1. committed[q] <= Reached(q)
      BY <1>0 DEF OffsetInv
    <3>2. committed'[p] = committed[p] + 1 /\ committed[p] \in Nat /\ done[p] \in Nat
      BY <1>0, <2>1 DEF TypeOK
    <3>3. q # p => committed'[q] = committed[q]
      BY <1>0, <2>1 DEF TypeOK
    <3> QED
      BY <2>1, <2>2, <2>3, <3>1, <3>2, <3>3
  <2> QED
    BY <1>0, <1>1, <2>1, <2>2, <2>4 DEF OffsetInv, TypeOK
<1>6. CASE TimePasses
  <2>1. UNCHANGED <<committed, done>>
    BY <1>6 DEF TimePasses
  <2> QED
    BY <1>1, <1>2, <2>1, OffsetFrame
<1> QED
  BY <1>2, <1>3, <1>4, <1>5, <1>6 DEF Environment

\* The consumer starts with nothing waiting and nothing listed.
LEMMA InitSafety == Init => SafetyInv
<1> SUFFICES ASSUME Init PROVE SafetyInv
  OBVIOUS
<1>1. DOMAIN waitCommit = {}
  BY DEF Init, EmptyMap
<1>2. WaitInv /\ ListInv /\ HeldInv /\ ~misuse
  BY <1>1 DEF Init, WaitInv, ListInv, HeldInv
<1>3. OffsetInv
  BY <1>1 DEF Init, OffsetInv, Reached
<1> QED
  BY <1>2, <1>3, InitTypes DEF SafetyInv

\* Every step of a safely used consumer keeps the inductive invariant.
LEMMA SafetyStep == SafeUse /\ SafetyInv /\ [Next]_vars => SafetyInv'
<1> SUFFICES ASSUME SafeUse, SafetyInv, [Next]_vars PROVE SafetyInv'
  OBVIOUS
<1>1. TypeInv'
  BY TypesStep DEF SafetyInv
<1>2. CASE UNCHANGED vars
  <2>1. UNCHANGED <<mode, ucommit, waitCommit, waitDestroy, heap, held, misuse,
                    appPc, pollPc, cur, committed, done, pos, assigned>>
    BY <1>2 DEF vars, threadVars, pauseVars, waitVars, brokerVars, userVars
  <2> QED
    BY <1>1, <2>1, MapsFrame, OffsetFrame DEF SafetyInv
<1> QED
  BY <1>1, <1>2, PollThreadSafety, UserThreadSafety, AppThreadSafety,
     EnvironmentSafety DEF Next

\* The offsets an invariant state lets the group commit are processed, but for
\* one message that automatic mode has in its callback.
LEMMA SafetyImplies == SafetyInv => NoMisuse /\ AtLeastOnce
<1> SUFFICES ASSUME SafetyInv PROVE AtLeastOnce
  BY DEF SafetyInv, NoMisuse
<1>0. TypeOK /\ ThreadsInv /\ OffsetInv
  BY DEF SafetyInv, TypeInv
<1> SUFFICES ASSUME NEW p \in Partitions PROVE committed[p] <= done[p] + InFlight(p)
  BY DEF AtLeastOnce
<1>1. committed[p] <= Reached(p) /\ committed[p] \in Nat /\ done[p] \in Nat
  BY <1>0 DEF OffsetInv, TypeOK
<1>2. CASE mode = "auto" /\ pollPc = "callback" /\ heap[cur].part = p
  <2>1. cur \in Live /\ cur # None
    BY <1>0, <1>2 DEF ThreadsInv
  <2>2. heap[cur].off \in Nat
    BY <1>0, <2>1 DEF TypeOK, Live, Message
  <2>3. heap[cur].off <= done[p]
    BY <1>0, <1>2, <2>1 DEF OffsetInv
  <2> QED
    BY <1>1, <1>2, <2>2, <2>3 DEF Reached, InFlight
<1>3. CASE ~(mode = "auto" /\ pollPc = "callback" /\ heap[cur].part = p)
  BY <1>1, <1>3 DEF Reached, InFlight
<1> QED
  BY <1>2, <1>3

\* With commits made in the callback and distinct keys, no destroyed message is
\* touched, for every number of partitions, messages and rebalances.
THEOREM NoMisuseAlways == SafeUse => (Spec => []NoMisuse)
<1> SUFFICES ASSUME SafeUse PROVE Spec => []NoMisuse
  OBVIOUS
<1>1. SafetyInv /\ [Next]_vars => SafetyInv'
  BY SafetyStep
<1>2. SafetyInv => NoMisuse
  BY SafetyImplies
<1> QED
  BY <1>1, <1>2, InitSafety, PTL DEF Spec

\* Under the same conditions only processed messages are committed, in every
\* mode and across rebalances, failed commits and stop().
THEOREM AtLeastOnceAlways == SafeUse => (Spec => []AtLeastOnce)
<1> SUFFICES ASSUME SafeUse PROVE Spec => []AtLeastOnce
  OBVIOUS
<1>1. SafetyInv /\ [Next]_vars => SafetyInv'
  BY SafetyStep
<1>2. SafetyInv => AtLeastOnce
  BY SafetyImplies
<1> QED
  BY <1>1, <1>2, InitSafety, PTL DEF Spec

-----------------------------------------------------------------------------
(* The set pause() and resume() look partitions up in *)

\* The poll thread has not started before start(), so nothing is assigned yet.
PauseInv == /\ pollPc = "idle" => ~hasAssigned
            /\ PauseCoversAssignment

LEMMA PauseStep == TypeInv /\ PauseInv /\ [Next]_vars => PauseInv'
<1> USE DEF pauseVars, waitVars, brokerVars, userVars, threadVars
<1> SUFFICES ASSUME TypeInv, PauseInv, [Next]_vars PROVE PauseInv'
  OBVIOUS
<1>0. TypeOK /\ ThreadsInv
  BY DEF TypeInv
<1>1. CASE /\ UNCHANGED <<startFlag, hasAssigned, assigned, tps>>
           /\ pollPc' = "idle" => pollPc = "idle"
  BY <1>1 DEF PauseInv, PauseCoversAssignment
<1>2. CASE ~hasAssigned'
  BY <1>2 DEF PauseInv, PauseCoversAssignment
<1>3. ASSUME NEW S \in SUBSET Partitions, Assign(S) PROVE PauseInv'
  BY <1>3 DEF Assign, PauseInv, PauseCoversAssignment
<1>4. CASE Start
  BY <1>0, <1>4 DEF Start, PauseInv, PauseCoversAssignment, ThreadsInv
<1>5. CASE Stop
  BY <1>0, <1>5 DEF Stop, PauseInv, PauseCoversAssignment, ThreadsInv
<1>6. CASE PollThread
  <2>1. CASE LoopAgain \/ LoopExit \/ PollNothing \/ CallbackReturn \/ Tick \/ ExitTick
    BY <1>1, <2>1 DEF LoopAgain, LoopExit, PollNothing, CallbackReturn, Tick, ExitTick
  <2>2. ASSUME NEW p \in Partitions, NEW o \in Obj, Receive(p, o) PROVE PauseInv'
    BY <1>1, <2>2 DEF Receive
  <2>3. CASE Revoke \/ RebalanceError
    BY <1>2, <2>3 DEF Revoke, RevokeCallback, RebalanceError
  <2> QED
    BY <1>3, <1>6, <2>1, <2>2, <2>3 DEF PollThread
<1>7. CASE UserThread
  BY <1>1, <1>7 DEF UserThread, UserCommit, UserCommitEnd
<1>8. CASE AppThread
  <2>1. CASE StopCommit \/ StopClear \/ PauseFind \/ PauseApply
    BY <1>1, <2>1 DEF StopCommit, StopClear, PauseFind, PauseApply
  <2>2. CASE StopClose
    BY <1>1, <1>2, <2>2 DEF StopClose, RevokeCallback
  <2>3. ASSUME NEW op \in {"pause", "resume"}, NEW ts \in PauseSets, PauseCheck(op, ts)
        PROVE  PauseInv'
    BY <1>1, <2>3 DEF PauseCheck
  <2>4. CASE Stopped
    BY <1>1, <2>4 DEF Stopped, vars
  <2> QED
    BY <1>4, <1>5, <1>8, <2>1, <2>2, <2>3, <2>4 DEF AppThread
<1>9. CASE Environment
  BY <1>1, <1>9 DEF Environment, AutoCommit, OtherProcesses, OtherCommits, TimePasses
<1>10. CASE UNCHANGED vars
  BY <1>1, <1>10 DEF vars
<1> QED
  BY <1>6, <1>7, <1>8, <1>9, <1>10 DEF Next

\* Whatever the user commits and however often the group rebalances, pause()
\* and resume() find every assigned partition of a running consumer.
THEOREM PauseCoversAssignmentAlways == Spec => []PauseCoversAssignment
<1>1. Init => PauseInv
  BY DEF Init, PauseInv, PauseCoversAssignment
<1>2. PauseInv => PauseCoversAssignment
  BY DEF PauseInv
<1> QED
  BY <1>1, <1>2, InitTypes, TypesStep, PauseStep, PTL DEF Spec

-----------------------------------------------------------------------------
(* Who owns a message *)

\* What stop() has committed is gone, and nothing is registered any more.
OwnedInv == /\ appPc \in {"clearing", "closing", "stopped"} => DOMAIN waitCommit = {}
            /\ MessagesOwned

LEMMA WaitingMember ==
    \A x : x \in Waiting <=> \E k \in DOMAIN waitCommit : waitCommit[k] = x
BY DEF Waiting, Range

LEMMA ListedMember ==
    \A x : x \in Listed <=> \E k \in Keys : \E i \in DOMAIN waitDestroy[k] : waitDestroy[k][i] = x
BY DEF Listed, Range

\* No object is None, so outside commitOffset() the two maps are disjoint.
LEMMA Disjoint ==
    ASSUME SafetyInv, OwnedInv, ucommit = None
    PROVE  Waiting \cap Listed = {}
<1>1. Waiting \subseteq Obj
  BY WaitingMember DEF SafetyInv, TypeInv, TypeOK
<1> QED
  BY <1>1 DEF OwnedInv, MessagesOwned

\* A commit round does nothing, or destroys and forgets all that waits.
LEMMA CommitEffect ==
    ASSUME TypeOK, WaitInv, NEW face, CommitUnlessAuto(face)
    PROVE  \/ /\ UNCHANGED <<committed, heap, waitCommit>>
              /\ face => mode = "auto"
           \/ /\ Live' = Live \ Waiting /\ \A x \in Live' : heap'[x] = heap[x]
              /\ DOMAIN waitCommit' = {} /\ Waiting' = {}
<1>1. CASE face => mode = "auto"
  <2>1. CASE UNCHANGED <<committed, heap, waitCommit>>
    BY <1>1, <2>1
  <2>2. CASE ~UNCHANGED <<committed, heap, waitCommit>>
    BY <2>2 DEF CommitUnlessAuto, ManualCommitWaitOffset, Restrict, Live, EmptyMap,
                Waiting, Range
  <2> QED
    BY <2>1, <2>2
<1>2. CASE ~(face => mode = "auto")
  BY <1>2 DEF CommitUnlessAuto, ManualCommitWaitOffset, Restrict, Live, EmptyMap,
              Waiting, Range
<1> QED
  BY <1>1, <1>2

\* Registering a message destroys at most the one that waited under its key.
LEMMA AddWaitEffect ==
    ASSUME TypeOK, WaitInv, NEW h, DOMAIN h \subseteq Obj, h \in [DOMAIN h -> Message],
           Live \subseteq DOMAIN h, \A x \in Live : h[x] = heap[x],
           NEW o \in DOMAIN h, \A k \in DOMAIN waitCommit : waitCommit[k] # o,
           AddWaitCommitOffset(o, h)
    PROVE  \E D \in SUBSET Waiting :
              /\ Live' = DOMAIN h \ D
              /\ Waiting' = (Waiting \ D) \cup {o}
<1> DEFINE k0 == KeyOf[h[o].part]
           D == {waitCommit[x] : x \in DOMAIN waitCommit \cap {k0}}
<1>1. DOMAIN heap' = DOMAIN h \ D
  BY DEF AddWaitCommitOffset, Restrict
<1>2. /\ DOMAIN waitCommit' = DOMAIN waitCommit \cup {k0}
      /\ \A x \in DOMAIN waitCommit' :
            waitCommit'[x] = IF x = k0 THEN o ELSE waitCommit[x]
  BY DEF AddWaitCommitOffset
<1>3. D \in SUBSET Waiting
  BY WaitingMember
<1>4. \A x, y \in DOMAIN waitCommit : waitCommit[x] = waitCommit[y] => x = y
  BY DEF WaitInv
<1>5. \A x : x \in Waiting' <=> \E k \in DOMAIN waitCommit' : waitCommit'[k] = x
  BY DEF Waiting, Range
<1>6. \A x : x \in D <=> k0 \in DOMAIN waitCommit /\ waitCommit[k0] = x
  OBVIOUS
<1> HIDE DEF k0, D
<1>7. Waiting' \subseteq (Waiting \ D) \cup {o}
  <2> SUFFICES ASSUME NEW x \in Waiting', x # o PROVE x \in Waiting /\ x \notin D
    OBVIOUS
  <2>1. PICK k \in DOMAIN waitCommit' : waitCommit'[k] = x
    BY <1>5
  <2>2. k # k0 /\ k \in DOMAIN waitCommit /\ waitCommit[k] = x
    BY <1>2, <2>1
  <2> QED
    BY <1>4, <1>6, <2>2, WaitingMember
<1>8. ASSUME NEW x \in (Waiting \ D) \cup {o} PROVE x \in Waiting'
  <2>1. CASE x = o
    BY <1>2, <1>5, <2>1
  <2>2. CASE x \in Waiting \ D
    <3>1. PICK k \in DOMAIN waitCommit : waitCommit[k] = x
      BY <2>2, WaitingMember
    <3>2. k # k0
      BY <1>6, <2>2, <3>1
    <3> QED
      BY <1>2, <1>5, <3>1, <3>2
  <2> QED
    BY <2>1, <2>2
<1>9. Waiting' = (Waiting \ D) \cup {o}
  BY <1>7, <1>8
<1> WITNESS D \in SUBSET Waiting
<1> QED
  BY <1>1, <1>9 DEF Live

\* The second half of commitOffset() destroys what is listed before the message
\* and takes it and them from the list, or finds it unlisted.
LEMMA RemoveEffect ==
    ASSUME TypeOK, ListInv, ucommit \in Live, appPc \notin Ending,
           RemoveWaitDestroyMsgs(ucommit)
    PROVE  \/ Live' = Live /\ Listed' = Listed /\ ucommit \notin Listed
           \/ \E B \in SUBSET Listed :
                 /\ Live' = Live \ B
                 /\ Listed' = Listed \ (B \cup {ucommit})
                 /\ B \cap Waiting = {}
<1> DEFINE K == Key(ucommit)
           msgs == waitDestroy[K]
<1>0. TypeOK /\ ListInv
  OBVIOUS
<1>1. K \in Keys /\ msgs \in Seq(Obj)
  BY <1>0 DEF TypeOK, Live, Key, Message
<1>2. ASSUME NEW k \in Keys, NEW i \in DOMAIN waitDestroy[k]
      PROVE  /\ waitDestroy[k][i] \in Live /\ Key(waitDestroy[k][i]) = k
             /\ \A j \in DOMAIN waitDestroy[k] :
                   waitDestroy[k][j] = waitDestroy[k][i] => i = j
             /\ waitDestroy[k][i] # ucommit => waitDestroy[k][i] \notin Waiting
  BY <1>0, WaitingMember DEF ListInv, Ending
<1>3. \A x : x \in Listed' <=> \E k \in Keys : \E i \in DOMAIN waitDestroy'[k] : waitDestroy'[k][i] = x
  BY DEF Listed, Range
<1>4. CASE ucommit \notin Range(msgs) /\ UNCHANGED <<heap, waitDestroy, misuse>>
  <2>1. Live' = Live /\ Listed' = Listed
    BY <1>4 DEF Live, Listed
  <2>2. \A i \in DOMAIN msgs : msgs[i] # ucommit
    BY <1>4 DEF Range
  <2>3. ASSUME ucommit \in Listed PROVE FALSE
    <3>1. PICK k \in Keys : \E i \in DOMAIN waitDestroy[k] : waitDestroy[k][i] = ucommit
      BY <2>3, ListedMember
    <3>2. k = K
      BY <1>2, <3>1
    <3> QED
      BY <2>2, <3>1, <3>2
  <2> QED
    BY <2>1, <2>3
<1>5. ASSUME NEW i \in DOMAIN msgs,
             msgs[i] = ucommit,
             heap' = Restrict(heap, Live \ {msgs[j] : j \in 1 .. i - 1}),
             waitDestroy' = [waitDestroy EXCEPT ![K] = SubSeq(@, i + 1, Len(@))]
      PROVE  \E B \in SUBSET Listed :
                /\ Live' = Live \ B
                /\ Listed' = Listed \ (B \cup {ucommit})
                /\ B \cap Waiting = {}
  <2> DEFINE B == {msgs[j] : j \in 1 .. i - 1}
  <2>1. DOMAIN msgs = 1 .. Len(msgs) /\ Len(msgs) \in Nat
    BY <1>1
  <2>2. Live' = Live \ B
    BY <1>5 DEF Live, Restrict
  <2>3. ASSUME NEW x \in B
        PROVE  /\ x \in Listed /\ x # ucommit /\ x \notin Waiting
    <3>1. PICK j \in 1 .. i - 1 : x = msgs[j]
      OBVIOUS
    <3>2. j \in DOMAIN msgs /\ j # i
      BY <2>1
    <3>3. x # ucommit
      BY <1>1, <1>2, <1>5, <3>1, <3>2
    <3>4. x \in Listed
      BY <1>1, <3>1, <3>2, ListedMember
    <3> QED
      BY <1>1, <1>2, <3>1, <3>2, <3>3, <3>4
  <2>4. \A k \in Keys : k # K => waitDestroy'[k] = waitDestroy[k]
    BY <1>0, <1>5 DEF TypeOK
  <2>5. /\ DOMAIN waitDestroy'[K] = 1 .. Len(msgs) - i
        /\ \A n \in DOMAIN waitDestroy'[K] :
              n + i \in DOMAIN msgs /\ waitDestroy'[K][n] = msgs[n + i]
    <3>1. waitDestroy'[K] = SubSeq(msgs, i + 1, Len(msgs))
      BY <1>0, <1>1, <1>5 DEF TypeOK
    <3>2. /\ DOMAIN SubSeq(msgs, i + 1, Len(msgs)) = 1 .. Len(msgs) - i
          /\ \A n \in DOMAIN SubSeq(msgs, i + 1, Len(msgs)) :
                /\ n + i \in DOMAIN msgs
                /\ SubSeq(msgs, i + 1, Len(msgs))[n] = msgs[n + i]
      BY <1>1, TailAfter
    <3> QED
      BY <3>1, <3>2
  <2>6. ASSUME NEW j \in DOMAIN msgs
        PROVE  msgs[j] \in B \cup {ucommit} <=> j \in 1 .. i
    <3>1. j \in 1 .. i => msgs[j] \in B \cup {ucommit}
      BY <1>5, <2>1
    <3>2. ASSUME msgs[j] \in B \cup {ucommit} PROVE j \in 1 .. i
      <4>1. PICK n \in 1 .. i : msgs[n] = msgs[j]
        BY <1>5, <2>1, <3>2
      <4>2. n \in DOMAIN msgs
        BY <2>1
      <4>3. n = j
        BY <1>1, <1>2, <4>1, <4>2
      <4> QED
        BY <4>3
    <3> QED
      BY <3>1, <3>2
  <2>7. ASSUME NEW x \in B \cup {ucommit}, NEW k \in Keys, NEW n \in DOMAIN waitDestroy[k],
               waitDestroy[k][n] = x
        PROVE  k = K
    <3>1. PICK j \in 1 .. i : msgs[j] = x
      BY <1>5, <2>1, <2>7
    <3>2. j \in DOMAIN msgs
      BY <2>1
    <3> QED
      BY <1>1, <1>2, <2>7, <3>1, <3>2
  <2> HIDE DEF B, K, msgs
  <2>8. ASSUME NEW x, x \in Listed' PROVE x \in Listed \ (B \cup {ucommit})
    <3>0. PICK k \in Keys : \E n \in DOMAIN waitDestroy'[k] : waitDestroy'[k][n] = x
      BY <1>3, <2>8
    <3>1. PICK n \in DOMAIN waitDestroy'[k] : waitDestroy'[k][n] = x
      BY <3>0
    <3>2. CASE k # K
      <4>1. n \in DOMAIN waitDestroy[k] /\ waitDestroy[k][n] = x
        BY <2>4, <3>1, <3>2
      <4> QED
        BY <2>7, <3>2, <4>1, ListedMember
    <3>3. CASE k = K
      <4>1. n \in DOMAIN waitDestroy'[K] /\ waitDestroy'[K][n] = x
        BY <3>1, <3>3
      <4>2. n + i \in DOMAIN msgs /\ msgs[n + i] = x
        BY <2>5, <4>1
      <4>3. ~(n + i \in 1 .. i)
        BY <2>1, <2>5, <4>1
      <4>4. x \notin B \cup {ucommit}
        BY <2>6, <4>2, <4>3
      <4>5. x \in Listed
        BY <1>1, <4>2, ListedMember DEF msgs
      <4> QED
        BY <4>4, <4>5
    <3> QED
      BY <3>2, <3>3
  <2>9. ASSUME NEW x \in Listed \ (B \cup {ucommit}) PROVE x \in Listed'
    <3>0. PICK k \in Keys : \E n \in DOMAIN waitDestroy[k] : waitDestroy[k][n] = x
      BY ListedMember
    <3>1. PICK n \in DOMAIN waitDestroy[k] : waitDestroy[k][n] = x
      BY <3>0
    <3>2. CASE k # K
      BY <1>3, <2>4, <3>1, <3>2
    <3>3. CASE k = K
      <4>1. n \in DOMAIN msgs /\ msgs[n] = x
        BY <3>1, <3>3 DEF msgs
      <4>2. n \in Nat /\ n > i /\ n <= Len(msgs) /\ i \in Nat
        BY <2>1, <2>6, <4>1
      <4>3. n - i \in 1 .. Len(msgs) - i /\ (n - i) + i = n
        BY <2>1, <4>2
      <4>4. n - i \in DOMAIN waitDestroy'[K] /\ waitDestroy'[K][n - i] = x
        BY <2>5, <4>1, <4>3
      <4> QED
        BY <1>1, <1>3, <4>4
    <3> QED
      BY <3>2, <3>3
  <2>10. B \in SUBSET Listed /\ B \cap Waiting = {}
    BY <2>3
  <2>11. Listed' = Listed \ (B \cup {ucommit})
    BY <2>8, <2>9
  <2> QED
    BY <2>2, <2>10, <2>11
<1> QED
  BY <1>4, <1>5 DEF RemoveWaitDestroyMsgs

StopPast == {"clearing", "closing", "stopped"}

\* What the lists own, and the callback of automatic mode.
ListedNow == IF appPc \in Ending THEN {} ELSE Listed
InCallback == IF mode = "auto" THEN {cur} \ {None} ELSE {}

\* A state that accounts for every live message leaves none once stopped.
LEMMA OwnedIntro ==
    ASSUME TypeInv',
           Live' = (Waiting' \cup ListedNow') \cup InCallback',
           Waiting' \cap Listed' \subseteq {ucommit'},
           appPc' \in StopPast => DOMAIN waitCommit' = {}
    PROVE  OwnedInv'
<1>1. appPc' = "stopped" => Waiting' = {}
  BY DEF StopPast, Waiting, Range
<1>2. appPc' = "stopped" => InCallback' = {} /\ ListedNow' = {}
  BY DEF TypeInv, ThreadsInv, InCallback, ListedNow, Ending
<1> QED
  BY <1>1, <1>2 DEF OwnedInv, MessagesOwned, StopPast, ListedNow, InCallback, Ending

LEMMA OwnedElim ==
    ASSUME OwnedInv
    PROVE  /\ Live = (Waiting \cup ListedNow) \cup InCallback
           /\ Waiting \cap Listed \subseteq {ucommit}
           /\ appPc \in StopPast => DOMAIN waitCommit = {}
BY DEF OwnedInv, MessagesOwned, StopPast, ListedNow, InCallback, Ending

\* What each mode leaves out.
LEMMA ModeOwned ==
    ASSUME TypeInv
    PROVE  /\ mode = "auto" => Waiting = {}
           /\ mode # "user" => Listed = {} /\ ListedNow = {}
           /\ mode # "auto" => InCallback = {}
BY DEF TypeInv, ModeInv, Waiting, Listed, Range, ListedNow, InCallback

\* Steps that leave the maps, the heap and the callback alone.
LEMMA OwnedFrame ==
    ASSUME OwnedInv, TypeInv',
           UNCHANGED <<mode, cur, ucommit, waitCommit, waitDestroy, heap>>,
           appPc' \in Ending <=> appPc \in Ending,
           appPc' \in StopPast => appPc \in StopPast
    PROVE  OwnedInv'
<1>1. /\ Live' = Live /\ Waiting' = Waiting /\ Listed' = Listed
      /\ ListedNow' = ListedNow /\ InCallback' = InCallback
  BY DEF Live, Waiting, Listed, ListedNow, InCallback
<1> QED
  BY <1>1, OwnedElim, OwnedIntro

\* A commit round outside the callback.
LEMMA CommitOwned ==
    ASSUME SafetyInv, OwnedInv, TypeInv', NEW face, CommitUnlessAuto(face),
           pollPc # "callback",
           UNCHANGED <<mode, cur, ucommit, waitDestroy>>,
           appPc \in Ending => appPc' \in Ending,
           appPc' \in Ending => appPc \in Ending \/ mode # "user",
           appPc' \in StopPast => face = TRUE
    PROVE  OwnedInv'
<1>0. TypeInv /\ TypeOK /\ WaitInv
  BY DEF SafetyInv, TypeInv
<1>1. ucommit = None
  BY DEF SafetyInv, HeldInv
<1>2. /\ Live = (Waiting \cup ListedNow) \cup InCallback
      /\ Waiting \cap Listed = {}
  BY <1>1, OwnedElim, Disjoint
<1>3. /\ Listed' = Listed /\ InCallback' = InCallback
      /\ ListedNow' = ListedNow /\ ListedNow \subseteq Listed
  <2>1. Listed' = Listed /\ InCallback' = InCallback
    BY DEF Listed, InCallback
  <2>2. mode # "user" => ListedNow = {} /\ Listed = {}
    BY <1>0, ModeOwned
  <2> QED
    BY <2>1, <2>2 DEF ListedNow
<1>4. mode = "auto" => Waiting = {} /\ DOMAIN waitCommit = {}
  BY <1>0, ModeOwned DEF TypeInv, ModeInv
<1>5. CASE UNCHANGED <<committed, heap, waitCommit>> /\ (face => mode = "auto")
  <2>1. Live' = Live /\ Waiting' = Waiting
    BY <1>5 DEF Live, Waiting
  <2>2. appPc' \in StopPast => DOMAIN waitCommit' = {}
    BY <1>4, <1>5
  <2> QED
    BY <1>2, <1>3, <2>1, <2>2, OwnedIntro
<1>6. CASE Live' = Live \ Waiting /\ DOMAIN waitCommit' = {} /\ Waiting' = {}
  <2>1. InCallback = {} \/ Waiting = {}
    BY <1>0, <1>4, ModeOwned
  <2>2. Live' = (Waiting' \cup ListedNow') \cup InCallback'
    BY <1>2, <1>3, <1>6, <2>1
  <2> QED
    BY <1>6, <2>2, OwnedIntro
<1> QED
  BY <1>0, <1>5, <1>6, CommitEffect

\* poll() returns a message, which one of the maps or the callback then owns.
LEMMA ReceiveOwned ==
    ASSUME SafetyInv, OwnedInv, TypeInv', NEW p \in Partitions, NEW o \in Obj, Receive(p, o)
    PROVE  OwnedInv'
<1> DEFINE h == [x \in Live \cup {o} |->
                     IF x = o THEN [part |-> p, off |-> pos[p]] ELSE heap[x]]
<1>0. TypeInv /\ TypeOK /\ ThreadsInv /\ ModeInv /\ WaitInv /\ HeldInv
  BY DEF SafetyInv, TypeInv
<1>1. /\ pollPc = "poll" /\ cur = None /\ cur' = o /\ o # None
      /\ ucommit = None /\ appPc \notin StopPast /\ appPc' = appPc
      /\ o \notin Live /\ mode' = mode /\ appPc \notin Ending
  BY <1>0 DEF Receive, ThreadsInv, HeldInv, StopPast, Ending
<1>2. /\ Live = (Waiting \cup Listed) \cup InCallback
      /\ Waiting \cap Listed = {}
      /\ ListedNow' = Listed'
  BY <1>1, OwnedElim, Disjoint DEF ListedNow
<1>3. /\ DOMAIN h = Live \cup {o} /\ h \in [DOMAIN h -> Message] /\ DOMAIN h \subseteq Obj
      /\ \A x \in Live : h[x] = heap[x]
  BY <1>0, <1>1 DEF TypeOK, Live, Message
<1>4. CASE mode = "auto"
  <2>1. heap' = h /\ UNCHANGED <<waitCommit, waitDestroy>>
    BY <1>4 DEF Receive
  <2>2. /\ Live' = Live \cup {o} /\ Waiting' = Waiting /\ Listed' = Listed
    BY <1>3, <2>1 DEF Live, Waiting, Listed
  <2>3. InCallback = {} /\ InCallback' = {o}
    BY <1>1, <1>4 DEF InCallback
  <2> QED
    BY <1>1, <1>2, <2>2, <2>3, OwnedIntro
<1>5. CASE mode = "internal"
  <2>1. AddWaitCommitOffset(o, h) /\ waitDestroy' = waitDestroy
    BY <1>5 DEF Receive
  <2>2. \A k \in DOMAIN waitCommit : waitCommit[k] # o
    BY <1>0, <1>1 DEF WaitInv
  <2> HIDE DEF h
  <2>3. Live \subseteq DOMAIN h /\ o \in DOMAIN h
    BY <1>3
  <2>4. \E D \in SUBSET Waiting :
           /\ Live' = DOMAIN h \ D
           /\ Waiting' = (Waiting \ D) \cup {o}
    BY <1>0, <1>3, <2>1, <2>2, <2>3, AddWaitEffect
  <2>5. /\ Listed = {} /\ Listed' = {} /\ InCallback = {} /\ InCallback' = {}
    BY <1>0, <1>1, <1>5, <2>1, ModeOwned DEF Listed, InCallback
  <2> QED
    BY <1>1, <1>2, <1>3, <2>4, <2>5, OwnedIntro
<1>6. CASE mode = "user"
  <2>1. /\ heap' = h
        /\ waitDestroy' = [waitDestroy EXCEPT ![KeyOf[p]] = Append(@, o)]
        /\ waitCommit' = waitCommit
    BY <1>6 DEF Receive
  <2>2. Live' = Live \cup {o} /\ Waiting' = Waiting
    BY <1>3, <2>1 DEF Live, Waiting
  <2>3. \A k \in Keys : waitDestroy[k] \in Seq(Obj)
    BY <1>0 DEF TypeOK
  <2>4. KeyOf[p] \in Keys /\ waitDestroy'[KeyOf[p]] = Append(waitDestroy[KeyOf[p]], o)
    BY <1>0, <2>1 DEF TypeOK
  <2>5. \A k \in Keys : k # KeyOf[p] => waitDestroy'[k] = waitDestroy[k]
    BY <1>0, <2>1 DEF TypeOK
  <2>6. \A x : x \in Listed' <=> \E k \in Keys : \E i \in DOMAIN waitDestroy'[k] : waitDestroy'[k][i] = x
    BY DEF Listed, Range
  <2>7. /\ DOMAIN waitDestroy'[KeyOf[p]] = 1 .. Len(waitDestroy[KeyOf[p]]) + 1
        /\ DOMAIN waitDestroy[KeyOf[p]] = 1 .. Len(waitDestroy[KeyOf[p]])
        /\ Len(waitDestroy[KeyOf[p]]) \in Nat
        /\ waitDestroy'[KeyOf[p]][Len(waitDestroy[KeyOf[p]]) + 1] = o
        /\ \A i \in DOMAIN waitDestroy[KeyOf[p]] :
              waitDestroy'[KeyOf[p]][i] = waitDestroy[KeyOf[p]][i]
    BY <2>3, <2>4
  <2>8. ASSUME NEW x, x \in Listed' PROVE x \in Listed \cup {o}
    <3>1. PICK k \in Keys : \E i \in DOMAIN waitDestroy'[k] : waitDestroy'[k][i] = x
      BY <2>6, <2>8
    <3>2. PICK i \in DOMAIN waitDestroy'[k] : waitDestroy'[k][i] = x
      BY <3>1
    <3>3. CASE k = KeyOf[p] /\ i = Len(waitDestroy[KeyOf[p]]) + 1
      BY <2>7, <3>2, <3>3
    <3>4. CASE i \in DOMAIN waitDestroy[k] /\ waitDestroy[k][i] = x
      BY <3>4, ListedMember
    <3> QED
      BY <2>5, <2>7, <3>2, <3>3, <3>4
  <2>9. ASSUME NEW x \in Listed PROVE x \in Listed'
    <3>1. PICK k \in Keys : \E i \in DOMAIN waitDestroy[k] : waitDestroy[k][i] = x
      BY ListedMember
    <3> QED
      BY <2>5, <2>6, <2>7, <3>1
  <2>10. o \in Listed'
    BY <2>4, <2>6, <2>7
  <2>11. Listed' = Listed \cup {o}
    BY <2>8, <2>9, <2>10
  <2>12. InCallback = {} /\ InCallback' = {} /\ o \notin Waiting
    BY <1>0, <1>1, <1>2, <1>6, ModeOwned DEF InCallback
  <2> QED
    BY <1>1, <1>2, <2>2, <2>11, <2>12, OwnedIntro
<1> QED
  BY <1>0, <1>4, <1>5, <1>6 DEF TypeOK

\* The callback of automatic mode gives its message back.
LEMMA CallbackReturnOwned ==
    ASSUME SafetyInv, OwnedInv, TypeInv', CallbackReturn
    PROVE  OwnedInv'
<1> USE DEF pauseVars, waitVars, brokerVars
<1>0. TypeInv /\ TypeOK /\ ThreadsInv
  BY DEF SafetyInv, TypeInv
<1>1. /\ UNCHANGED <<mode, ucommit, appPc, waitCommit, waitDestroy>>
      /\ cur # None /\ cur' = None
  BY <1>0 DEF CallbackReturn, ThreadsInv
<1>2. /\ Waiting' = Waiting /\ Listed' = Listed /\ ListedNow' = ListedNow
      /\ InCallback' = {}
  BY <1>1 DEF Waiting, Listed, ListedNow, InCallback
<1>3. CASE mode = "auto"
  <2>1. heap' = Restrict(heap, Live \ {cur})
    BY <1>3 DEF CallbackReturn
  <2>2. Live' = Live \ {cur} /\ InCallback = {cur}
    BY <1>1, <1>3, <2>1 DEF Live, Restrict, InCallback
  <2>3. Waiting = {} /\ ListedNow = {} /\ Listed = {}
    BY <1>0, <1>3, ModeOwned
  <2> QED
    BY <1>1, <1>2, <2>2, <2>3, OwnedElim, OwnedIntro
<1>4. CASE mode # "auto"
  <2>1. Live' = Live
    BY <1>4 DEF CallbackReturn, Live
  <2>2. InCallback = {}
    BY <1>0, <1>4, ModeOwned
  <2> QED
    BY <1>1, <1>2, <2>1, <2>2, OwnedElim, OwnedIntro
<1> QED
  BY <1>3, <1>4

\* Between its two halves commitOffset() leaves its message in both maps.
LEMMA UserThreadOwned ==
    ASSUME SafeUse, SafetyInv, OwnedInv, TypeInv', UserThread
    PROVE  OwnedInv'
<1>0. TypeInv /\ TypeOK /\ ThreadsInv /\ WaitInv /\ ListInv /\ HeldInv
  BY DEF SafetyInv, TypeInv
<1>1. ASSUME NEW o \in Obj, UserCommit(o) PROVE OwnedInv'
  <2>1. /\ mode = "user" /\ ucommit = None /\ ucommit' = o
        /\ o \in held /\ o \in Live /\ pollPc = "callback"
        /\ AddWaitCommitOffset(o, heap)
        /\ UNCHANGED <<mode, appPc, cur, waitDestroy>>
    <3>1. held \subseteq Live
      BY <1>0 DEF HeldInv
    <3> QED
      BY <1>1, <3>1 DEF UserCommit, MayCommit, SafeUse
  <2>2. appPc \notin StopPast /\ appPc \notin Ending
    BY <1>0, <2>1 DEF ThreadsInv, StopPast, Ending
  <2>3. o \in Listed
    <3>1. Key(o) \in Keys
      BY <1>0, <2>1 DEF TypeOK, Live, Key, Message
    <3> QED
      BY <1>0, <2>1, <3>1, ListedMember DEF HeldInv
  <2>4. /\ Live = (Waiting \cup Listed) \cup InCallback
        /\ Waiting \cap Listed = {}
        /\ InCallback = {} /\ InCallback' = {}
        /\ Listed' = Listed /\ ListedNow' = Listed'
    BY <2>1, <2>2, OwnedElim, Disjoint DEF ListedNow, InCallback, Listed
  <2>5. \A k \in DOMAIN waitCommit : waitCommit[k] # o
    BY <2>3, <2>4, WaitingMember
  <2>6. \E D \in SUBSET Waiting :
           /\ Live' = DOMAIN heap \ D
           /\ Waiting' = (Waiting \ D) \cup {o}
    BY <1>0, <2>1, <2>5, AddWaitEffect DEF TypeOK, Live
  <2> QED
    BY <2>1, <2>2, <2>3, <2>4, <2>6, OwnedIntro DEF Live
<1>2. CASE UserCommitEnd
  <2>1. ucommit # None => ucommit \in Live /\ ucommit \in Waiting
    BY <1>0, WaitingMember DEF HeldInv, WaitInv
  <2>2. /\ ucommit \in Live /\ ucommit \in Waiting /\ ucommit' = None
        /\ RemoveWaitDestroyMsgs(ucommit)
        /\ UNCHANGED <<mode, appPc, cur, waitCommit>>
        /\ mode = "user"
    BY <1>0, <1>2, <2>1 DEF UserCommitEnd, ThreadsInv
  <2>3. appPc \notin StopPast /\ appPc \notin Ending
    BY <1>0, <1>2 DEF UserCommitEnd, HeldInv, ThreadsInv, StopPast, Ending
  <2>4. /\ Live = (Waiting \cup Listed) \cup InCallback
        /\ Waiting \cap Listed \subseteq {ucommit}
        /\ InCallback = {} /\ InCallback' = {}
        /\ Waiting' = Waiting /\ ListedNow' = Listed'
    BY <2>2, <2>3, OwnedElim DEF ListedNow, InCallback, Waiting
  <2>5. \/ Live' = Live /\ Listed' = Listed /\ ucommit \notin Listed
        \/ \E B \in SUBSET Listed :
              /\ Live' = Live \ B
              /\ Listed' = Listed \ (B \cup {ucommit})
              /\ B \cap Waiting = {}
    BY <1>0, <2>2, <2>3, RemoveEffect
  <2>6. Live' = (Waiting' \cup ListedNow') \cup InCallback'
    BY <2>2, <2>4, <2>5
  <2>7. Waiting' \cap Listed' \subseteq {ucommit'}
    BY <2>4, <2>5
  <2> QED
    BY <2>2, <2>3, <2>6, <2>7, OwnedIntro
<1> QED
  BY <1>1, <1>2 DEF UserThread

\* stop() commits what waits, clears the lists, and then has nothing left.
LEMMA AppThreadOwned ==
    ASSUME SafetyInv, OwnedInv, TypeInv', AppThread
    PROVE  OwnedInv'
<1> USE DEF pauseVars, waitVars, brokerVars, userVars, threadVars
<1>0. TypeInv /\ TypeOK /\ ThreadsInv /\ HeldInv
  BY DEF SafetyInv, TypeInv
<1>1. CASE Start \/ Stop \/ PauseFind \/ PauseApply
  BY <1>1, OwnedFrame DEF Start, Stop, PauseFind, PauseApply, Ending, StopPast
<1>2. ASSUME NEW op \in {"pause", "resume"}, NEW ts \in PauseSets, PauseCheck(op, ts)
      PROVE  OwnedInv'
  BY <1>2, OwnedFrame DEF PauseCheck, Ending, StopPast
<1>3. CASE Stopped
  BY <1>3, OwnedFrame DEF Stopped, vars
<1>4. CASE StopCommit
  <2>1. /\ UNCHANGED <<mode, cur, ucommit, waitDestroy>>
        /\ pollPc # "callback" /\ CommitUnlessAuto(TRUE)
        /\ appPc \notin Ending /\ (appPc' \in Ending => mode # "user")
    BY <1>4 DEF StopCommit, Ending
  <2> QED
    BY <2>1, CommitOwned
<1>5. CASE StopClear
  <2>1. /\ UNCHANGED <<mode, cur, ucommit, waitDestroy, waitCommit>>
        /\ appPc = "clearing" /\ appPc' = "closing"
        /\ heap' = Restrict(heap, Live \ Listed)
    BY <1>5 DEF StopClear, ClearWaitDestroyMsgs
  <2>2. Live' = Live \ Listed /\ Waiting' = Waiting /\ ListedNow' = {} /\ Listed' = Listed
    BY <2>1 DEF Live, Restrict, Waiting, ListedNow, Listed, Ending
  <2>3. DOMAIN waitCommit = {} /\ Waiting = {}
    BY <2>1, OwnedElim DEF StopPast, Waiting, Range
  <2>4. InCallback = {} /\ InCallback' = {}
    BY <1>0, <2>1 DEF InCallback, ThreadsInv
  <2>5. Live = (Waiting \cup Listed) \cup InCallback
    BY <2>1, OwnedElim DEF ListedNow, Ending
  <2> QED
    BY <2>1, <2>2, <2>3, <2>4, <2>5, OwnedIntro
<1>6. CASE StopClose
  <2>0. /\ UNCHANGED <<mode, cur, ucommit, waitDestroy>>
        /\ appPc \in Ending /\ appPc' \in Ending
        /\ pollPc # "callback" /\ appPc \in StopPast
    BY <1>0, <1>6 DEF StopClose, Ending, StopPast, ThreadsInv
  <2>1. CASE RevokeCallback
    <3>1. CommitUnlessAuto(TRUE)
      BY <2>1 DEF RevokeCallback
    <3> QED
      BY <2>0, <3>1, CommitOwned
  <2>2. CASE UNCHANGED <<heap, waitCommit>>
    BY <2>0, <2>2, OwnedFrame
  <2> QED
    BY <1>6, <2>1, <2>2 DEF StopClose
<1> QED
  BY <1>1, <1>2, <1>3, <1>4, <1>5, <1>6 DEF AppThread

LEMMA OwnedStep ==
    ASSUME SafeUse, SafetyInv, OwnedInv, TypeInv', [Next]_vars
    PROVE  OwnedInv'
<1> USE DEF pauseVars, waitVars, brokerVars, userVars, threadVars
<1>0. ThreadsInv
  BY DEF SafetyInv, TypeInv
<1>1. CASE LoopAgain \/ LoopExit \/ PollNothing
  BY <1>1, OwnedFrame DEF LoopAgain, LoopExit, PollNothing
<1>2. CASE Tick \/ ExitTick
  <2>1. CommitUnlessAuto(FALSE)
    BY <1>0, <1>2 DEF Tick, ExitTick, ThreadsInv, CommitUnlessAuto
  <2>2. /\ UNCHANGED <<mode, cur, ucommit, waitDestroy, appPc>>
        /\ pollPc # "callback" /\ pollPc # "done"
    BY <1>2 DEF Tick, ExitTick
  <2>3. appPc \notin StopPast
    BY <1>0, <2>2 DEF ThreadsInv, StopPast
  <2> QED
    BY <2>1, <2>2, <2>3, CommitOwned
<1>3. ASSUME NEW p \in Partitions, NEW o \in Obj, Receive(p, o) PROVE OwnedInv'
  BY <1>3, ReceiveOwned
<1>4. ASSUME NEW S \in SUBSET Partitions, Assign(S) PROVE OwnedInv'
  BY <1>4, OwnedFrame DEF Assign
<1>5. CASE Revoke
  BY <1>5, CommitOwned DEF Revoke, RevokeCallback
<1>6. CASE RebalanceError
  BY <1>6, OwnedFrame DEF RebalanceError
<1>7. CASE PollThread
  BY <1>1, <1>2, <1>3, <1>4, <1>5, <1>6, <1>7, CallbackReturnOwned DEF PollThread
<1>8. CASE Environment
  BY <1>8, OwnedFrame
     DEF Environment, AutoCommit, OtherProcesses, OtherCommits, TimePasses
<1>9. CASE UNCHANGED vars
  BY <1>9, OwnedFrame DEF vars
<1> QED
  BY <1>7, <1>8, <1>9, UserThreadOwned, AppThreadOwned DEF Next

\* With commits made in the callback and distinct keys every message that is not
\* destroyed has exactly one owner, but between the two halves of a
\* commitOffset(), and stop() leaves none behind.
THEOREM MessagesOwnedAlways == SafeUse => (Spec => []MessagesOwned)
<1> SUFFICES ASSUME SafeUse PROVE Spec => []MessagesOwned
  OBVIOUS
<1>1. Init => OwnedInv
  <2> SUFFICES ASSUME Init PROVE OwnedInv
    OBVIOUS
  <2>1. Live = {} /\ Waiting = {} /\ Listed = {}
    BY DEF Init, Live, EmptyMap, Waiting, Listed, Range
  <2> QED
    BY <2>1 DEF Init, OwnedInv, MessagesOwned
<1>2. SafetyInv /\ OwnedInv /\ [Next]_vars => SafetyInv' /\ OwnedInv'
  <2> SUFFICES ASSUME SafetyInv, OwnedInv, [Next]_vars PROVE SafetyInv' /\ OwnedInv'
    OBVIOUS
  <2>1. SafetyInv'
    BY SafetyStep
  <2>2. TypeInv'
    BY <2>1 DEF SafetyInv
  <2> QED
    BY <2>1, <2>2, OwnedStep
<1>3. OwnedInv => MessagesOwned
  BY DEF OwnedInv
<1> QED
  BY <1>1, <1>2, <1>3, InitSafety, PTL DEF Spec

-----------------------------------------------------------------------------
(* Offsets never go back *)

\* Each message is committed in its own callback, or by the SDK after it, and
\* the group reports no error.
InOrder == /\ SafeUse
           /\ CommitPolicy = "current"
           /\ ~RebalanceErrors

\* The offsets of an assigned partition, from the broker's to the next one
\* fetched, and where the messages that are or may be committed lie in between.
OrderInv ==
    /\ \A o \in Live : heap[o].off < MaxOffset
    /\ \A p \in Partitions : done[p] <= MaxOffset
    /\ \A p \in assigned : committed[p] <= pos[p]
    /\ \A k \in DOMAIN waitCommit :
          LET m == heap[waitCommit[k]]
          IN  /\ m.part \in assigned
              /\ committed[m.part] <= m.off + 1
              /\ m.off + 1 <= pos[m.part]
    /\ \A o \in held \cap {cur} :
          heap[o].part \in assigned /\ heap[o].off + 1 = pos[heap[o].part]

\* Steps that register nothing, and commit only what is not assigned.
LEMMA OrderFrame ==
    ASSUME SafetyInv, OrderInv, SafetyInv',
           Live' \subseteq Live, \A x \in Live' : heap'[x] = heap[x],
           waitCommit' = waitCommit, held' \subseteq held, cur' \in {cur, None},
           UNCHANGED <<assigned, pos>>,
           \A p \in Partitions : done'[p] <= MaxOffset,
           \A p \in assigned : committed'[p] = committed[p]
    PROVE  OrderInv'
<1>0. TypeOK /\ WaitInv /\ WaitInv' /\ HeldInv' /\ TypeOK'
  BY DEF SafetyInv, TypeInv
<1>1. \A k \in DOMAIN waitCommit : waitCommit[k] \in Live' /\ heap'[waitCommit[k]] = heap[waitCommit[k]]
  BY <1>0 DEF WaitInv
<1>2. \A o \in held' \cap {cur'} : o \in held \cap {cur} /\ heap'[o] = heap[o]
  BY <1>0 DEF HeldInv, TypeOK
<1>3. \A o \in Live' : heap'[o].off < MaxOffset
  BY DEF OrderInv
<1>4. \A p \in assigned' : committed'[p] <= pos'[p]
  BY DEF OrderInv
<1>5. ASSUME NEW k \in DOMAIN waitCommit'
      PROVE  LET m == heap'[waitCommit'[k]]
             IN  /\ m.part \in assigned'
                 /\ committed'[m.part] <= m.off + 1
                 /\ m.off + 1 <= pos'[m.part]
  BY <1>1 DEF OrderInv
<1> QED
  BY <1>2, <1>3, <1>4, <1>5 DEF OrderInv

\* A commit round moves offsets up to just behind a waiting message, which lies
\* before the next one fetched; it forgets all that waits before a revoke.
LEMMA CommitOrder ==
    ASSUME SafetyInv, OrderInv, SafetyInv', NEW face, CommitUnlessAuto(face),
           pollPc # "callback",
           UNCHANGED <<mode, cur, held, done, pos>>,
           assigned' = assigned \/ (assigned' = {} /\ face = TRUE)
    PROVE  /\ OrderInv'
           /\ \A p \in Partitions : \/ committed'[p] = committed[p]
                                    \/ committed[p] <= committed'[p] /\ committed'[p] <= done[p]
<1>0. TypeOK /\ ThreadsInv /\ ModeInv /\ WaitInv /\ OffsetInv /\ HeldInv
  BY DEF SafetyInv, TypeInv
<1>1. cur = None /\ cur' = None
  BY <1>0 DEF ThreadsInv
<1>2. held \cap {cur} = {} /\ held' \cap {cur'} = {}
  BY <1>0, <1>1 DEF TypeOK
<1>3. /\ Live' \subseteq Live
      /\ \A x \in Live' : heap'[x] = heap[x]
      /\ \A p \in Partitions :
            \/ committed'[p] = committed[p]
            \/ \E k \in DOMAIN waitCommit :
                  /\ heap[waitCommit[k]].part = p
                  /\ committed'[p] = heap[waitCommit[k]].off + 1
  BY <1>0, CommitKeys
<1>4. \/ UNCHANGED <<committed, heap, waitCommit>> /\ (face => mode = "auto")
      \/ DOMAIN waitCommit' = {}
  BY <1>0, CommitEffect
<1>5. \A o \in Live' : heap'[o].off < MaxOffset
  BY <1>3 DEF OrderInv
<1>6. ASSUME NEW p \in assigned' PROVE committed'[p] <= pos'[p]
  <2>1. p \in assigned /\ p \in Partitions /\ pos'[p] = pos[p]
    BY <1>0 DEF TypeOK
  <2>2. CASE committed'[p] = committed[p]
    BY <2>1, <2>2 DEF OrderInv
  <2>3. ASSUME NEW k \in DOMAIN waitCommit, heap[waitCommit[k]].part = p,
               committed'[p] = heap[waitCommit[k]].off + 1
        PROVE  committed'[p] <= pos'[p]
    BY <2>1, <2>3 DEF OrderInv
  <2> QED
    BY <1>3, <2>1, <2>2, <2>3
<1>7. ASSUME NEW k \in DOMAIN waitCommit'
      PROVE  LET m == heap'[waitCommit'[k]]
             IN  /\ m.part \in assigned'
                 /\ committed'[m.part] <= m.off + 1
                 /\ m.off + 1 <= pos'[m.part]
  <2>1. UNCHANGED <<committed, heap, waitCommit>> /\ (face => mode = "auto")
    BY <1>4
  <2>2. mode # "auto"
    BY <1>0, <2>1 DEF ModeInv
  <2>3. assigned' = assigned
    BY <2>1, <2>2
  <2> QED
    BY <2>1, <2>3 DEF OrderInv
<1>8. ASSUME NEW p \in Partitions
      PROVE  \/ committed'[p] = committed[p]
             \/ committed[p] <= committed'[p] /\ committed'[p] <= done[p]
  <2>1. ASSUME NEW k \in DOMAIN waitCommit, heap[waitCommit[k]].part = p,
               committed'[p] = heap[waitCommit[k]].off + 1
        PROVE  committed[p] <= committed'[p] /\ committed'[p] <= done[p]
    <3>1. mode = "user" \/ waitCommit[k] # cur
      BY <1>0, <1>1 DEF TypeOK
    <3>2. heap[waitCommit[k]].off + 1 <= done[p]
      BY <1>0, <2>1, <3>1 DEF OffsetInv
    <3>3. committed[p] <= heap[waitCommit[k]].off + 1
      BY <2>1 DEF OrderInv
    <3> QED
      BY <2>1, <3>2, <3>3
  <2> QED
    BY <1>3, <2>1
<1>9. \A p \in Partitions : done'[p] <= MaxOffset
  BY DEF OrderInv
<1>10. OrderInv'
  BY <1>2, <1>5, <1>6, <1>7, <1>9 DEF OrderInv
<1> QED
  BY <1>8, <1>10

\* What poll() returns lies just before the new position.
LEMMA ReceiveOrder ==
    ASSUME SafetyInv, OrderInv, SafetyInv', NEW p \in Partitions, NEW o \in Obj, Receive(p, o)
    PROVE  OrderInv'
<1> DEFINE h == [x \in Live \cup {o} |->
                     IF x = o THEN [part |-> p, off |-> pos[p]] ELSE heap[x]]
<1>0. TypeOK /\ ThreadsInv /\ ModeInv /\ WaitInv /\ HeldInv /\ WaitInv' /\ HeldInv' /\ TypeOK'
  BY DEF SafetyInv, TypeInv
<1>1. /\ cur' = o /\ p \in assigned /\ o \notin Live
      /\ pos[p] < MaxOffset /\ pos[p] \in Nat
      /\ UNCHANGED <<mode, assigned, committed, done>>
      /\ pos' = [pos EXCEPT ![p] = @ + 1]
  BY <1>0 DEF Receive, TypeOK
<1>2. /\ \A q \in assigned : q \in Partitions /\ committed[q] \in Nat /\ pos[q] \in Nat
      /\ \A q \in assigned : pos'[q] = IF q = p THEN pos[p] + 1 ELSE pos[q]
  BY <1>0, <1>1 DEF TypeOK
<1>3. \A q \in assigned : pos[q] <= pos'[q] /\ committed'[q] <= pos'[q] /\ pos'[q] \in Nat
  BY <1>1, <1>2 DEF OrderInv
<1>4. /\ DOMAIN h = Live \cup {o} /\ h \in [DOMAIN h -> Message] /\ DOMAIN h \subseteq Obj
      /\ \A x \in Live : h[x] = heap[x]
      /\ h[o].part = p /\ h[o].off = pos[p]
  BY <1>0, <1>1 DEF TypeOK, Live, Message
<1> HIDE DEF h
<1>5. \A x \in DOMAIN h : h[x].off < MaxOffset
  BY <1>1, <1>4 DEF OrderInv
<1>6. \A q \in Partitions : done'[q] <= MaxOffset
  BY <1>1 DEF OrderInv
<1>7. ASSUME NEW k \in DOMAIN waitCommit
      PROVE  LET m == h[waitCommit[k]]
             IN  /\ m.part \in assigned'
                 /\ committed'[m.part] <= m.off + 1
                 /\ m.off + 1 <= pos'[m.part]
                 /\ waitCommit[k] \in Live
  <2>1. waitCommit[k] \in Live /\ h[waitCommit[k]] = heap[waitCommit[k]]
    BY <1>0, <1>4 DEF WaitInv
  <2>2. /\ heap[waitCommit[k]].part \in assigned /\ heap[waitCommit[k]].off \in Nat
        /\ committed[heap[waitCommit[k]].part] <= heap[waitCommit[k]].off + 1
        /\ heap[waitCommit[k]].off + 1 <= pos[heap[waitCommit[k]].part]
    BY <1>0, <2>1 DEF OrderInv, TypeOK, Live, Message
  <2> QED
    BY <1>1, <1>2, <1>3, <2>1, <2>2
<1>8. CASE mode = "auto"
  <2>1. heap' = h /\ held' = held /\ waitCommit' = waitCommit
    BY <1>8 DEF Receive, h
  <2>2. held = {} /\ DOMAIN waitCommit = {}
    BY <1>0, <1>8 DEF ModeInv
  <2> QED
    BY <1>1, <1>3, <1>5, <1>6, <2>1, <2>2 DEF OrderInv, Live
<1>9. CASE mode = "internal"
  <2>1. AddWaitCommitOffset(o, h) /\ held' = held
    BY <1>9 DEF Receive, h
  <2>2. held = {}
    BY <1>0, <1>9 DEF ModeInv
  <2>3. \A k \in DOMAIN waitCommit : waitCommit[k] # o
    BY <1>1, <1>7
  <2>4. o \in DOMAIN h /\ Live \subseteq DOMAIN h
    BY <1>4
  <2>5. /\ Live' \subseteq DOMAIN h
        /\ \A x \in Live' : heap'[x] = h[x]
    BY <1>0, <1>4, <2>1, <2>3, <2>4, AddWaitKeys
  <2>6. \A k \in DOMAIN waitCommit' :
           \/ waitCommit'[k] = o
           \/ k \in DOMAIN waitCommit /\ waitCommit'[k] = waitCommit[k]
    BY <2>1 DEF AddWaitCommitOffset
  <2>7. ASSUME NEW k \in DOMAIN waitCommit'
        PROVE  LET m == heap'[waitCommit'[k]]
               IN  /\ m.part \in assigned'
                   /\ committed'[m.part] <= m.off + 1
                   /\ m.off + 1 <= pos'[m.part]
    <3>1. heap'[waitCommit'[k]] = h[waitCommit'[k]]
      BY <1>0, <2>5 DEF WaitInv
    <3>2. CASE waitCommit'[k] = o
      <4>1. /\ h[o].part \in assigned' /\ committed'[p] <= pos[p] + 1
            /\ pos'[p] = pos[p] + 1
        BY <1>1, <1>2, <1>4 DEF OrderInv
      <4> QED
        BY <1>1, <1>4, <3>1, <3>2, <4>1
    <3>3. CASE k \in DOMAIN waitCommit /\ waitCommit'[k] = waitCommit[k]
      BY <1>7, <3>1, <3>3
    <3> QED
      BY <2>6, <3>2, <3>3
  <2> QED
    BY <1>1, <1>3, <1>5, <1>6, <2>1, <2>2, <2>5, <2>7 DEF OrderInv
<1>10. CASE mode = "user"
  <2>1. heap' = h /\ waitCommit' = waitCommit
    BY <1>10 DEF Receive, h
  <2>2. h[o].part \in assigned' /\ h[o].off + 1 = pos'[h[o].part]
    BY <1>1, <1>2, <1>4
  <2> QED
    BY <1>1, <1>3, <1>5, <1>6, <1>7, <2>1, <2>2 DEF OrderInv, Live
<1> QED
  BY <1>0, <1>8, <1>9, <1>10 DEF TypeOK

\* The user commits the message that is in the callback.
LEMMA UserCommitOrder ==
    ASSUME InOrder, SafetyInv, OrderInv, SafetyInv', NEW o \in Obj, UserCommit(o)
    PROVE  /\ OrderInv'
           /\ o \in Live /\ heap[o].off < MaxOffset
           /\ Processed(heap[o].part, heap[o].off + 1)
<1> USE DEF brokerVars
<1>0. TypeOK /\ ListInv /\ WaitInv /\ WaitInv' /\ HeldInv /\ HeldInv'
  BY DEF SafetyInv, TypeInv
<1>1. /\ ucommit = None /\ o = cur /\ o \in held /\ o \in Live
      /\ AddWaitCommitOffset(o, heap)
      /\ Processed(heap[o].part, heap[o].off + 1)
      /\ held' = held \ (Superseded(o) \cup {o})
      /\ UNCHANGED <<cur, assigned, committed, pos>>
  <2>1. held \subseteq Live
    BY <1>0 DEF HeldInv
  <2> QED
    BY <2>1 DEF UserCommit, MayCommit, InOrder
<1>2. heap[o].part \in Partitions /\ heap[o].off \in Nat /\ heap[o].off < MaxOffset
  BY <1>0, <1>1 DEF TypeOK, Live, Message, OrderInv
<1>3. /\ heap[o].part \in assigned /\ heap[o].off + 1 = pos[heap[o].part]
      /\ committed[heap[o].part] <= heap[o].off + 1
  BY <1>1 DEF OrderInv
<1>4. \A k \in DOMAIN waitCommit : waitCommit[k] # o
  <2>1. appPc \notin {"closing", "stopped"}
    BY <1>0, <1>1 DEF HeldInv
  <2>2. PICK i \in DOMAIN waitDestroy[Key(o)] : waitDestroy[Key(o)][i] = o
    BY <1>0, <1>1 DEF HeldInv
  <2>3. Key(o) \in Keys /\ o # None
    BY <1>0, <1>1, <1>2 DEF Key
  <2> QED
    BY <1>0, <1>1, <2>1, <2>2, <2>3 DEF ListInv
<1>5. /\ Live' \subseteq Live
      /\ \A x \in Live' : heap'[x] = heap[x]
  BY <1>0, <1>1, <1>4, AddWaitKeys DEF TypeOK, Live
<1>6. \A k \in DOMAIN waitCommit' :
         \/ waitCommit'[k] = o
         \/ k \in DOMAIN waitCommit /\ waitCommit'[k] = waitCommit[k]
  BY <1>1 DEF AddWaitCommitOffset
<1>7. ASSUME NEW k \in DOMAIN waitCommit'
      PROVE  LET m == heap'[waitCommit'[k]]
             IN  /\ m.part \in assigned'
                 /\ committed'[m.part] <= m.off + 1
                 /\ m.off + 1 <= pos'[m.part]
  <2>1. heap'[waitCommit'[k]] = heap[waitCommit'[k]]
    BY <1>0, <1>5 DEF WaitInv
  <2>2. CASE waitCommit'[k] = o
    <3>1. /\ heap'[waitCommit'[k]] = heap[o] /\ assigned' = assigned
          /\ committed' = committed /\ pos' = pos
      BY <1>1, <2>1, <2>2
    <3>2. heap[o].off + 1 <= pos[heap[o].part]
      BY <1>2, <1>3
    <3> QED
      BY <1>3, <3>1, <3>2
  <2>3. CASE k \in DOMAIN waitCommit /\ waitCommit'[k] = waitCommit[k]
    BY <1>1, <2>1, <2>3 DEF OrderInv
  <2> QED
    BY <1>6, <2>2, <2>3
<1>8. \A p \in Partitions : done'[p] <= MaxOffset
  <2>1. heap[o].off + 1 <= MaxOffset
    BY <1>2
  <2> QED
    BY <1>0, <1>1, <2>1 DEF Processed, OrderInv, TypeOK
<1>9. held' \cap {cur'} = {}
  BY <1>1
<1>10. \A x \in Live' : heap'[x].off < MaxOffset
  BY <1>5 DEF OrderInv
<1>11. \A p \in assigned' : committed'[p] <= pos'[p]
  BY <1>1 DEF OrderInv
<1>12. OrderInv'
  BY <1>7, <1>8, <1>9, <1>10, <1>11 DEF OrderInv
<1> QED
  BY <1>1, <1>2, <1>12

\* A step processes messages of one partition, or commits what is processed, or
\* neither; without the automatic commits of librdkafka no offset goes back.
Progress ==
    \/ UNCHANGED <<done, committed>>
    \/ /\ committed' = committed
       /\ \E p \in Partitions, n \in Nat :
             Processed(p, n) /\ n <= MaxOffset
    \/ /\ done' = done
       /\ \A p \in Partitions : \/ committed'[p] = committed[p]
                                \/ committed[p] <= committed'[p] /\ committed'[p] <= done[p]

\* Every step of a consumer used in order keeps the order of the offsets.
LEMMA OrderStep ==
    ASSUME InOrder, SafetyInv, OrderInv, SafetyInv', [Next]_vars
    PROVE  OrderInv' /\ (mode # "auto" => Progress)
<1> USE DEF pauseVars, waitVars, brokerVars, userVars, threadVars
<1>0. TypeOK /\ ThreadsInv /\ WaitInv /\ \A p \in Partitions : done[p] <= MaxOffset
  BY DEF SafetyInv, TypeInv, OrderInv
<1>a. ASSUME /\ UNCHANGED <<heap, waitCommit, assigned, pos, done, committed>>
             /\ held' \subseteq held /\ cur' \in {cur, None}
      PROVE  OrderInv' /\ Progress
  <2>1. Live' \subseteq Live /\ \A x \in Live' : heap'[x] = heap[x]
    BY <1>a DEF Live
  <2>2. OrderInv'
    BY <1>0, <1>a, <2>1, OrderFrame
  <2> QED
    BY <1>a, <2>2 DEF Progress
<1>1. CASE LoopAgain \/ LoopExit \/ PollNothing
  BY <1>1, <1>a DEF LoopAgain, LoopExit, PollNothing
<1>2. CASE CallbackReturn
  <2>1. /\ UNCHANGED <<mode, waitCommit, assigned, pos, committed, held>>
        /\ cur' = None
    BY <1>2 DEF CallbackReturn
  <2>2. CASE mode = "user"
    BY <1>2, <1>a, <2>1, <2>2 DEF CallbackReturn
  <2>3. CASE mode # "user"
    <3>1. cur \in Live /\ heap[cur].part \in Partitions /\ heap[cur].off \in Nat
      BY <1>0, <1>2, <2>3 DEF CallbackReturn, ThreadsInv, TypeOK, Live, Message
    <3>2. heap[cur].off + 1 \in Nat /\ heap[cur].off + 1 <= MaxOffset
      BY <3>1 DEF OrderInv
    <3>3. Processed(heap[cur].part, heap[cur].off + 1)
      BY <1>2, <2>3 DEF CallbackReturn
    <3>4. \A p \in Partitions : done'[p] <= MaxOffset
      BY <1>0, <3>1, <3>2, <3>3 DEF Processed, TypeOK
    <3>5. Live' \subseteq Live /\ \A x \in Live' : heap'[x] = heap[x]
      BY <1>2 DEF CallbackReturn, Live, Restrict
    <3>6. OrderInv'
      BY <2>1, <3>4, <3>5, OrderFrame
    <3> QED
      BY <2>1, <3>1, <3>2, <3>3, <3>6 DEF Progress
  <2> QED
    BY <2>2, <2>3
<1>3. CASE Tick \/ ExitTick
  <2>1. CommitUnlessAuto(FALSE)
    BY <1>0, <1>3 DEF Tick, ExitTick, ThreadsInv, CommitUnlessAuto
  <2>2. pollPc # "callback" /\ UNCHANGED <<mode, cur, held, done, pos, assigned>>
    BY <1>3 DEF Tick, ExitTick
  <2> QED
    BY <2>1, <2>2, CommitOrder DEF Progress
<1>4. ASSUME NEW p \in Partitions, NEW o \in Obj, Receive(p, o)
      PROVE  OrderInv' /\ Progress
  BY <1>4, ReceiveOrder DEF Receive, Progress
<1>5. ASSUME NEW S \in SUBSET Partitions, Assign(S)
      PROVE  OrderInv' /\ Progress
  <2>1. /\ UNCHANGED <<waitCommit, heap, committed, done, held, cur>>
        /\ assigned = {} /\ assigned' = S
        /\ pos' = [p \in Partitions |-> IF p \in S THEN committed[p] ELSE pos[p]]
    BY <1>5 DEF Assign
  <2>2. DOMAIN waitCommit = {} /\ held \cap {cur} = {}
    BY <2>1 DEF OrderInv
  <2>3. \A p \in assigned' : committed'[p] <= pos'[p]
    BY <1>0, <2>1 DEF TypeOK
  <2>4. OrderInv'
    BY <2>1, <2>2, <2>3 DEF OrderInv, Live
  <2> QED
    BY <2>1, <2>4 DEF Progress
<1>6. CASE Revoke
  <2>1. /\ pollPc # "callback" /\ UNCHANGED <<mode, cur, held, done, pos>>
        /\ assigned' = {} /\ CommitUnlessAuto(TRUE)
    BY <1>6 DEF Revoke, RevokeCallback
  <2> QED
    BY <2>1, CommitOrder DEF Progress
<1>7. ~RebalanceError
  BY DEF RebalanceError, InOrder
<1>8. ASSUME NEW o \in Obj, UserCommit(o) PROVE OrderInv' /\ Progress
  <2>1. /\ OrderInv' /\ o \in Live /\ heap[o].off < MaxOffset
        /\ Processed(heap[o].part, heap[o].off + 1)
    BY <1>8, UserCommitOrder
  <2>2. heap[o].part \in Partitions /\ heap[o].off + 1 \in Nat /\ heap[o].off + 1 <= MaxOffset
    BY <1>0, <2>1 DEF TypeOK, Live, Message
  <2>3. committed' = committed
    BY <1>8 DEF UserCommit
  <2> QED
    BY <2>1, <2>2, <2>3 DEF Progress
<1>9. CASE UserCommitEnd
  <2>1. ucommit \in Live
    BY <1>0, <1>9 DEF SafetyInv, HeldInv, WaitInv, UserCommitEnd
  <2>2. /\ RemoveWaitDestroyMsgs(ucommit)
        /\ UNCHANGED <<waitCommit, done, held, cur, assigned, pos, committed>>
    BY <1>9, <2>1 DEF UserCommitEnd
  <2>3. Live' \subseteq Live /\ \A x \in Live' : heap'[x] = heap[x]
    BY <2>2 DEF RemoveWaitDestroyMsgs, Live, Restrict
  <2>4. OrderInv'
    BY <1>0, <2>2, <2>3, OrderFrame
  <2> QED
    BY <2>2, <2>4 DEF Progress
<1>10. CASE Start \/ Stop \/ PauseFind \/ PauseApply
  BY <1>10, <1>a DEF Start, Stop, PauseFind, PauseApply
<1>11. ASSUME NEW op \in {"pause", "resume"}, NEW ts \in PauseSets, PauseCheck(op, ts)
       PROVE  OrderInv' /\ Progress
  BY <1>11, <1>a DEF PauseCheck
<1>12. CASE StopCommit
  <2>1. /\ pollPc # "callback" /\ UNCHANGED <<mode, cur, held, done, pos, assigned>>
        /\ CommitUnlessAuto(TRUE)
    BY <1>12 DEF StopCommit
  <2> QED
    BY <2>1, CommitOrder DEF Progress
<1>13. CASE StopClear
  <2>1. /\ UNCHANGED <<waitCommit, done, cur, assigned, pos, committed>>
        /\ held' = {} /\ heap' = Restrict(heap, Live \ Listed)
    BY <1>13 DEF StopClear, ClearWaitDestroyMsgs
  <2>2. Live' \subseteq Live /\ \A x \in Live' : heap'[x] = heap[x]
    BY <2>1 DEF Live, Restrict
  <2>3. OrderInv'
    BY <1>0, <2>1, <2>2, OrderFrame
  <2> QED
    BY <2>1, <2>3 DEF Progress
<1>14. CASE StopClose
  <2>1. pollPc # "callback" /\ UNCHANGED <<mode, cur, held, done, pos>>
    BY <1>0, <1>14 DEF StopClose, ThreadsInv
  <2>2. CASE RevokeCallback
    <3>1. assigned' = {} /\ CommitUnlessAuto(TRUE)
      BY <2>2 DEF RevokeCallback
    <3> QED
      BY <2>1, <3>1, CommitOrder DEF Progress
  <2>3. CASE UNCHANGED <<committed, heap, waitCommit, assigned>>
    BY <1>a, <2>1, <2>3
  <2> QED
    BY <1>14, <2>2, <2>3 DEF StopClose
<1>15. CASE Stopped
  BY <1>15, <1>a DEF Stopped, vars
<1>16. ASSUME NEW p \in Partitions, AutoCommit(p) PROVE OrderInv' /\ mode = "auto"
  <2>1. /\ mode = "auto" /\ p \in assigned
        /\ committed' = [committed EXCEPT ![p] = pos[p]]
        /\ UNCHANGED <<heap, waitCommit, assigned, pos, done, held, cur>>
    BY <1>16 DEF AutoCommit
  <2>2. DOMAIN waitCommit = {} /\ held = {}
    BY <2>1 DEF SafetyInv, TypeInv, ModeInv
  <2>3. ASSUME NEW q \in assigned PROVE committed'[q] <= pos[q]
    <3>1. q \in Partitions /\ committed[q] <= pos[q] /\ pos[q] \in Nat
      BY <1>0 DEF OrderInv, TypeOK
    <3> QED
      BY <1>0, <2>1, <3>1 DEF TypeOK
  <2> QED
    BY <2>1, <2>2, <2>3 DEF OrderInv, Live
<1>17. ASSUME NEW p \in Partitions, OtherProcesses(p) PROVE OrderInv' /\ Progress
  <2>1. /\ UNCHANGED <<heap, waitCommit, assigned, pos, committed, held, cur>>
        /\ done' = [done EXCEPT ![p] = @ + 1] /\ done[p] < MaxOffset
    BY <1>17 DEF OtherProcesses
  <2>2. done[p] + 1 \in Nat /\ done[p] + 1 <= MaxOffset
    BY <1>0, <2>1 DEF TypeOK
  <2>3. \A q \in Partitions : done'[q] <= MaxOffset
    BY <1>0, <2>1, <2>2 DEF TypeOK
  <2>4. Live' \subseteq Live /\ \A x \in Live' : heap'[x] = heap[x]
    BY <2>1 DEF Live
  <2>5. OrderInv'
    BY <1>0, <2>1, <2>3, <2>4, OrderFrame
  <2>6. Processed(p, done[p] + 1)
    <3>1. done[p] + 1 > done[p]
      BY <1>0 DEF TypeOK
    <3>2. done' = [done EXCEPT ![p] = IF done[p] + 1 > done[p] THEN done[p] + 1 ELSE done[p]]
      BY <2>1, <3>1
    <3> QED
      BY <3>2 DEF Processed
  <2> QED
    BY <2>1, <2>2, <2>5, <2>6 DEF Progress
<1>18. ASSUME NEW p \in Partitions, OtherCommits(p) PROVE OrderInv' /\ Progress
  <2>1. /\ UNCHANGED <<heap, waitCommit, assigned, pos, done, held, cur>>
        /\ p \notin assigned /\ committed[p] < done[p]
        /\ committed' = [committed EXCEPT ![p] = @ + 1]
    BY <1>18 DEF OtherCommits
  <2>2. Live' \subseteq Live /\ \A x \in Live' : heap'[x] = heap[x]
    BY <2>1 DEF Live
  <2>3. \A q \in assigned : committed'[q] = committed[q]
    BY <1>0, <2>1 DEF TypeOK
  <2>4. OrderInv'
    BY <1>0, <2>1, <2>2, <2>3, OrderFrame
  <2>5. ASSUME NEW q \in Partitions
        PROVE  \/ committed'[q] = committed[q]
               \/ committed[q] <= committed'[q] /\ committed'[q] <= done[q]
    BY <1>0, <2>1 DEF TypeOK
  <2> QED
    BY <2>1, <2>4, <2>5 DEF Progress
<1>19. CASE TimePasses
  BY <1>19, <1>a DEF TimePasses
<1>20. CASE UNCHANGED vars
  BY <1>20, <1>a DEF vars
<1>21. CASE PollThread
  BY <1>1, <1>2, <1>3, <1>4, <1>5, <1>6, <1>7, <1>21 DEF PollThread
<1>22. CASE AppThread
  BY <1>10, <1>11, <1>12, <1>13, <1>14, <1>15, <1>22 DEF AppThread
<1>23. CASE Environment
  BY <1>16, <1>17, <1>18, <1>19, <1>23 DEF Environment
<1>24. CASE UserThread
  BY <1>8, <1>9, <1>24 DEF UserThread
<1> QED
  BY <1>20, <1>21, <1>22, <1>23, <1>24 DEF Next

\* In the beginning nothing is assigned.
LEMMA OrderInit == Init => OrderInv
<1> SUFFICES ASSUME Init PROVE OrderInv
  OBVIOUS
<1>1. Live = {} /\ DOMAIN waitCommit = {}
  BY DEF Init, Live, EmptyMap
<1> QED
  BY <1>1 DEF Init, OrderInv

\* Together.
LEMMA InOrderAlways ==
    ASSUME InOrder
    PROVE  Spec => [](SafetyInv /\ OrderInv)
<1>1. SafetyInv /\ OrderInv /\ [Next]_vars => (SafetyInv /\ OrderInv)'
  <2> SUFFICES ASSUME SafetyInv, OrderInv, [Next]_vars PROVE SafetyInv' /\ OrderInv'
    OBVIOUS
  <2>1. SafetyInv'
    BY SafetyStep DEF InOrder
  <2> QED
    BY <2>1, OrderStep
<1> QED
  BY <1>1, InitSafety, OrderInit, PTL DEF Spec

\* What waits for its commit is owned and not behind the broker, when every
\* message is committed in its callback and the group reports no error.
THEOREM WaitingIsOwnedAlways == InOrder => (Spec => []WaitingIsOwned)
<1> SUFFICES ASSUME InOrder PROVE Spec => []WaitingIsOwned
  OBVIOUS
<1>1. OrderInv => WaitingIsOwned
  BY DEF OrderInv, WaitingIsOwned
<1>2. Spec => [](SafetyInv /\ OrderInv)
  BY InOrderAlways
<1> QED
  BY <1>1, <1>2, PTL

\* Progress is what GroupOffsets allows.
LEMMA ProgressIsGroup ==
    ASSUME SafetyInv, OrderInv, mode # "auto", SafetyInv', OrderInv', Progress
    PROVE  [Group!Next]_(Group!vars)
<1>0. /\ done \in [Partitions -> Nat] /\ done' \in [Partitions -> Nat]
      /\ committed \in [Partitions -> Nat] /\ committed' \in [Partitions -> Nat]
      /\ MaxOffset \in Nat
  BY DEF SafetyInv, TypeInv, TypeOK
<1>1. \A p \in Partitions : committed[p] <= done[p]
  BY DEF SafetyInv, OffsetInv, Reached
<1>2. CASE UNCHANGED <<done, committed>>
  BY <1>2 DEF Group!vars
<1>3. ASSUME committed' = committed, NEW p \in Partitions, NEW n \in Nat,
             Processed(p, n), n <= MaxOffset
      PROVE  [Group!Next]_(Group!vars)
  <2>1. CASE n > done[p]
    <3>1. done' = [done EXCEPT ![p] = n]
      BY <1>0, <1>3, <2>1 DEF Processed
    <3>2. n \in done[p] + 1 .. MaxOffset
      BY <1>0, <1>3, <2>1
    <3>3. Group!Process(p)
      BY <1>3, <3>1, <3>2 DEF Group!Process
    <3> QED
      BY <3>3 DEF Group!Next
  <2>2. CASE ~(n > done[p])
    <3>1. done' = done
      BY <1>0, <1>3, <2>2 DEF Processed
    <3> QED
      BY <1>3, <3>1 DEF Group!vars
  <2> QED
    BY <2>1, <2>2
<1>4. ASSUME done' = done,
             \A p \in Partitions : \/ committed'[p] = committed[p]
                                   \/ committed[p] <= committed'[p] /\ committed'[p] <= done[p]
      PROVE  [Group!Next]_(Group!vars)
  <2>1. \A p \in Partitions : committed'[p] \in committed[p] .. done[p]
    BY <1>0, <1>1, <1>4
  <2>2. \A p \in Partitions : committed'[p] \in 0 .. MaxOffset
    <3> TAKE p \in Partitions
    <3>1. committed'[p] <= done[p] /\ done[p] <= MaxOffset
      BY <1>0, <2>1 DEF OrderInv
    <3> QED
      BY <1>0, <3>1
  <2>3. committed' \in [Partitions -> 0 .. MaxOffset]
    BY <1>0, <2>2
  <2>4. Group!Commit
    BY <1>4, <2>1, <2>3 DEF Group!Commit
  <2> QED
    BY <2>4 DEF Group!Next
<1> QED
  BY <1>2, <1>3, <1>4 DEF Progress

\* In the modes where this code commits, committed offsets never go back nor
\* ahead of the processing, whatever the group does.
THEOREM ImplementsGroupOffsetsHolds ==
    InOrder /\ "auto" \notin Modes => (Spec => ImplementsGroupOffsets)
<1> SUFFICES ASSUME InOrder, "auto" \notin Modes PROVE Spec => ImplementsGroupOffsets
  OBVIOUS
<1>1. Init => Group!Init
  BY DEF Init, Group!Init
<1>2. /\ SafetyInv /\ OrderInv /\ (SafetyInv /\ OrderInv)' /\ [Next]_vars
      => [Group!Next]_(Group!vars)
  <2> SUFFICES ASSUME SafetyInv, OrderInv, SafetyInv', OrderInv', [Next]_vars
               PROVE  [Group!Next]_(Group!vars)
    OBVIOUS
  <2>1. mode # "auto"
    BY DEF SafetyInv, TypeInv, TypeOK
  <2>2. Progress
    BY <2>1, OrderStep
  <2> QED
    BY <2>1, <2>2, ProgressIsGroup
<1>3. Spec => [](SafetyInv /\ OrderInv)
  BY InOrderAlways
<1> QED
  BY <1>1, <1>2, <1>3, PTL DEF Spec, ImplementsGroupOffsets, Group!Spec
=============================================================================
