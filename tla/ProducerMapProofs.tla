------------------------- MODULE ProducerMapProofs -------------------------
(***************************************************************************)
(* Proofs about ProducerMap for any objects, targets, keys and addresses.   *)
(* What carries them is that the live producers are those of the maps, each *)
(* under one key.                                                           *)
(***************************************************************************)
EXTENDS ProducerMap, TLAPS

Classes == {"kafka", "pulsar"}

-----------------------------------------------------------------------------
(* Types *)

LEMMA TypesInit == Init => TypeOK
<1> SUFFICES ASSUME Init PROVE TypeOK
  OBVIOUS
<1>1. Live = {} /\ heap \in [Live -> Producer]
  BY DEF Init, Live
<1>2. map \in [{"kafka", "pulsar"} -> [Keys -> Addr \cup {None}]]
  BY DEF Init
<1> QED
  BY <1>1, <1>2 DEF Init, TypeOK

LEMMA TypesInitialised ==
    ASSUME TypeOK, NEW o \in Objs, NEW t \in Targets, NEW class \in Classes,
           NEW r \in BOOLEAN, Initialised(o, t, class, r)
    PROVE  /\ kind' \in [Objs -> {"kafka", "pulsar", None}]
           /\ exiting' \in BOOLEAN
           /\ result' \in [Objs -> BOOLEAN \cup {None}]
           /\ asked' \in [Objs -> Targets \cup {None}]
           /\ settled' \in [Objs -> BOOLEAN] /\ found' \in [Objs -> BOOLEAN]
           /\ abandoned' \in BOOLEAN
<1>1. settled' \in [Objs -> BOOLEAN] /\ found' \in [Objs -> BOOLEAN]
  BY DEF TypeOK, Initialised
<1> QED
  BY <1>1 DEF TypeOK, Initialised, Classes

\* What an init() does to the heap and the maps.
LEMMA TypesMade ==
    ASSUME TypeOK, NEW o \in Objs, NEW t \in Targets, NEW class \in Classes,
           NEW a \in Addr, NEW ready \in BOOLEAN,
           PointsTo(o, a), Enters(class, t, a),
           heap' = With(a, [target |-> t, ready |-> ready, holds |-> FALSE])
    PROVE  /\ ptr' \in [Objs -> Addr \cup {None}]
           /\ Live' \subseteq Addr
           /\ heap' \in [Live' -> Producer]
           /\ map' \in [{"kafka", "pulsar"} -> [Keys -> Addr \cup {None}]]
<1>1. KeyOf[t] \in Keys
  BY MapAssumption
<1>2. Live' = Live \cup {a}
  BY DEF Live, With
<1>3. [target |-> t, ready |-> ready, holds |-> FALSE] \in Producer
  BY DEF Producer
<1>4. heap' \in [Live' -> Producer]
  BY <1>2, <1>3 DEF TypeOK, With
<1>5. map' \in [{"kafka", "pulsar"} -> [Keys -> Addr \cup {None}]]
  BY <1>1 DEF TypeOK, Enters, Classes
<1> QED
  BY <1>2, <1>4, <1>5 DEF TypeOK, PointsTo

LEMMA TypesOfInit ==
    ASSUME TypeOK, NEW o \in Objs, NEW t \in Targets, InitOf(o, t)
    PROVE  TypeOK'
<1>1. KeyOf[t] \in Keys
  BY MapAssumption
<1>2. CASE KafkaFound(o, t)
  <2>1. /\ Initialised(o, t, "kafka", TRUE)
        /\ UNCHANGED <<heap, map>>
        /\ ptr' \in [Objs -> Addr \cup {None}]
    BY <1>1, <1>2 DEF KafkaFound, PointsTo, Entry, TypeOK
  <2> QED
    BY <2>1, TypesInitialised DEF TypeOK, Classes, Live
<1>3. CASE PulsarAgain(o, t)
  <2>1. Initialised(o, t, "pulsar", TRUE) /\ UNCHANGED <<ptr, heap, map>>
    BY <1>3 DEF PulsarAgain
  <2> QED
    BY <2>1, TypesInitialised DEF TypeOK, Classes, Live
<1>4. ASSUME NEW a \in Addr, KafkaMade(o, t, a) PROVE TypeOK'
  <2>1. /\ Initialised(o, t, "kafka", TRUE)
        /\ PointsTo(o, a) /\ Enters("kafka", t, a)
        /\ heap' = With(a, [target |-> t, ready |-> TRUE, holds |-> FALSE])
    BY <1>4 DEF KafkaMade
  <2>2. /\ ptr' \in [Objs -> Addr \cup {None}] /\ Live' \subseteq Addr
        /\ heap' \in [Live' -> Producer]
        /\ map' \in [{"kafka", "pulsar"} -> [Keys -> Addr \cup {None}]]
    BY <2>1, TypesMade DEF Classes
  <2>3. /\ kind' \in [Objs -> {"kafka", "pulsar", None}]
        /\ exiting' \in BOOLEAN /\ abandoned' \in BOOLEAN
        /\ result' \in [Objs -> BOOLEAN \cup {None}]
        /\ asked' \in [Objs -> Targets \cup {None}]
        /\ settled' \in [Objs -> BOOLEAN] /\ found' \in [Objs -> BOOLEAN]
    BY <2>1, TypesInitialised DEF Classes
  <2> QED
    BY <2>2, <2>3 DEF TypeOK, Classes, Live
<1>5. ASSUME NEW a \in Addr, KafkaFailed(o, t, a) PROVE TypeOK'
  <2>1. /\ Initialised(o, t, "kafka", FALSE) /\ UNCHANGED <<heap, map>>
        /\ ptr' \in [Objs -> Addr \cup {None}]
    BY <1>5 DEF KafkaFailed, PointsTo, TypeOK
  <2> QED
    BY <2>1, TypesInitialised DEF TypeOK, Classes, Live
<1>6. ASSUME NEW a \in Addr, NEW ok \in BOOLEAN, PulsarFirst(o, t, a, ok) PROVE TypeOK'
  <2>1. /\ Initialised(o, t, "pulsar", ok)
        /\ PointsTo(o, a) /\ Enters("pulsar", t, a)
        /\ heap' = With(a, [target |-> t, ready |-> ok, holds |-> FALSE])
    BY <1>6 DEF PulsarFirst
  <2>2. /\ ptr' \in [Objs -> Addr \cup {None}] /\ Live' \subseteq Addr
        /\ heap' \in [Live' -> Producer]
        /\ map' \in [{"kafka", "pulsar"} -> [Keys -> Addr \cup {None}]]
    BY <2>1, TypesMade DEF Classes
  <2>3. /\ kind' \in [Objs -> {"kafka", "pulsar", None}]
        /\ exiting' \in BOOLEAN /\ abandoned' \in BOOLEAN
        /\ result' \in [Objs -> BOOLEAN \cup {None}]
        /\ asked' \in [Objs -> Targets \cup {None}]
        /\ settled' \in [Objs -> BOOLEAN] /\ found' \in [Objs -> BOOLEAN]
    BY <2>1, TypesInitialised DEF Classes
  <2> QED
    BY <2>2, <2>3 DEF TypeOK, Classes, Live
<1>7. ASSUME NEW ok \in BOOLEAN, PulsarShared(o, t, ok) PROVE TypeOK'
  <2>1. /\ Initialised(o, t, "pulsar", ok) /\ UNCHANGED map
        /\ ptr' \in [Objs -> Addr \cup {None}]
    BY <1>1, <1>7 DEF PulsarShared, PointsTo, Entry, TypeOK
  <2>2. Live' = Live /\ heap' \in [Live -> Producer]
    <3>1. heap \in [Live -> Producer] /\ DOMAIN heap = Live
      BY DEF TypeOK, Live
    <3>2. CASE ok
      <4> DEFINE a == Entry("pulsar", t)
      <4>1. heap' = [heap EXCEPT ![a].ready = TRUE, ![a].target = t]
        BY <1>7, <3>2 DEF PulsarShared
      <4> HIDE DEF a
      <4>2. \A x \in Live : [heap[x] EXCEPT !.ready = TRUE, !.target = t] \in Producer
        BY <3>1 DEF Producer
      <4>3. DOMAIN heap' = Live /\ \A x \in Live : heap'[x] \in Producer
        BY <3>1, <4>1, <4>2
      <4>4. heap' = [x \in Live |-> heap'[x]]
        BY <4>1, <4>3
      <4> QED
        BY <4>3, <4>4 DEF Live
    <3>3. CASE ~ok
      BY <1>7, <3>1, <3>3 DEF PulsarShared, Live
    <3> QED
      BY <3>2, <3>3
  <2> QED
    BY <2>1, <2>2, TypesInitialised DEF TypeOK, Classes
<1> QED
  BY <1>2, <1>3, <1>4, <1>5, <1>6, <1>7 DEF InitOf

\* A freed producer leaves the heap.
LEMMA Freeing ==
    ASSUME TypeOK, NEW gone, heap' = Restrict(heap, Live \ gone)
    PROVE  /\ Live' = Live \ gone /\ heap' \in [Live' -> Producer]
           /\ \A a \in Live' : heap'[a] = heap[a]
  BY DEF TypeOK, Live, Restrict

\* Every variable keeps its type.
THEOREM TypeCorrect == Spec => []TypeOK
<1>1. TypeOK /\ [Next]_vars => TypeOK'
  <2> SUFFICES ASSUME TypeOK, [Next]_vars PROVE TypeOK'
    OBVIOUS
  <2>1. ASSUME NEW o \in Objs, Produce(o) PROVE TypeOK'
    <3>1. Live' = Live /\ heap' \in [Live -> Producer]
      BY <2>1 DEF Produce, TypeOK, Live, Producer
    <3> QED
      BY <2>1, <3>1 DEF Produce, TypeOK
  <2>2. ASSUME NEW o \in Objs, Destruct(o) PROVE TypeOK'
    <3>1. Live' \subseteq Live /\ heap' \in [Live' -> Producer] /\ abandoned' \in BOOLEAN
      BY <2>2, Freeing DEF Destruct, Freed, TypeOK
    <3>2. settled' \in [Objs -> BOOLEAN] /\ found' \in [Objs -> BOOLEAN]
      BY <2>2 DEF Destruct, Forgotten, TypeOK
    <3> QED
      BY <2>2, <3>1, <3>2 DEF Destruct, Forgotten, PointsTo, TypeOK
  <2>3. ASSUME NEW c \in Classes, NEW k \in Keys, Clear(c, k) PROVE TypeOK'
    <3>1. Live' \subseteq Live /\ heap' \in [Live' -> Producer]
      BY <2>3, Freeing DEF Clear
    <3>2. map' \in [{"kafka", "pulsar"} -> [Keys -> Addr \cup {None}]]
      BY <2>3 DEF Clear, TypeOK, Classes
    <3> QED
      BY <2>3, <3>1, <3>2 DEF Clear, TypeOK
  <2>4. CASE Exit
    BY <2>4 DEF Exit, TypeOK, Live
  <2>5. CASE Exited \/ UNCHANGED vars
    BY <2>5 DEF Exited, vars, TypeOK, Live
  <2> QED
    BY <2>1, <2>2, <2>3, <2>4, <2>5, TypesOfInit DEF Next, Classes
<1> QED
  BY <1>1, TypesInit, PTL DEF Spec

-----------------------------------------------------------------------------
(* The maps *)

\* The live producers are those of the maps, each under one key, its own.
MapInv ==
    /\ \A c \in Classes, k \in Keys : map[c][k] # None =>
          /\ map[c][k] \in Live
          /\ KeyOf[heap[map[c][k]].target] = k
          /\ c = "kafka" => heap[map[c][k]].ready
    /\ \A c, d \in Classes : \A k, l \in Keys :
          map[c][k] # None /\ map[c][k] = map[d][l] => c = d /\ k = l
    /\ \A a \in Live : \E c \in Classes, k \in Keys : map[c][k] = a

\* The object's producer is the entry of what it asked for, and initialised.
Serves(o) ==
    /\ ptr[o] # None
    /\ ptr[o] = map[kind[o]][KeyOf[asked[o]]]
    /\ heap[ptr[o]].ready

ObjInv ==
    \A o \in Objs :
        /\ exiting => kind[o] = None
        /\ kind[o] = None => result[o] = None /\ ptr[o] = None
        /\ kind[o] # None => asked[o] # None
        /\ kind[o] = "pulsar" /\ settled[o] => result[o] = TRUE
        /\ Trusted(o) => Serves(o)

\* A producer that is made for a key without one.
LEMMA MapMade ==
    ASSUME TypeOK, MapInv, NEW t \in Targets, NEW class \in Classes,
           NEW a \in Addr, NEW ready \in BOOLEAN, class = "kafka" => ready,
           Entry(class, t) = None, a \notin Live, Enters(class, t, a),
           heap' = With(a, [target |-> t, ready |-> ready, holds |-> FALSE])
    PROVE  /\ MapInv'
           /\ map'[class][KeyOf[t]] = a /\ a # None /\ heap'[a].ready = ready
           /\ \A c \in Classes, k \in Keys : map[c][k] # None => map'[c][k] = map[c][k]
           /\ \A x \in Live : heap'[x] = heap[x]
<1>1. KeyOf[t] \in Keys /\ a # None
  BY MapAssumption
<1>2. /\ Live' = Live \cup {a}
      /\ heap'[a] = [target |-> t, ready |-> ready, holds |-> FALSE]
      /\ \A x \in Live : heap'[x] = heap[x]
  BY DEF Live, With
<1>3. \A c \in Classes, k \in Keys :
         map'[c][k] = IF c = class /\ k = KeyOf[t] THEN a ELSE map[c][k]
  BY <1>1 DEF TypeOK, Enters, Classes
<1>4. \A c \in Classes, k \in Keys : map[c][k] # None => map[c][k] \in Live
  BY DEF MapInv
<1>5. \A c \in Classes, k \in Keys : map'[c][k] # None =>
          /\ map'[c][k] \in Live'
          /\ KeyOf[heap'[map'[c][k]].target] = k
          /\ c = "kafka" => heap'[map'[c][k]].ready
  <2> TAKE c \in Classes, k \in Keys
  <2>1. CASE c = class /\ k = KeyOf[t]
    BY <1>2, <1>3, <2>1
  <2>2. CASE ~(c = class /\ k = KeyOf[t])
    <3> SUFFICES ASSUME map[c][k] # None
                 PROVE  /\ map[c][k] \in Live'
                        /\ KeyOf[heap'[map[c][k]].target] = k
                        /\ c = "kafka" => heap'[map[c][k]].ready
      BY <1>3, <2>2
    <3>1. map[c][k] \in Live
      BY <1>4
    <3>2. heap'[map[c][k]] = heap[map[c][k]]
      BY <1>2, <3>1
    <3> QED
      BY <1>2, <3>1, <3>2 DEF MapInv
  <2> QED
    BY <2>1, <2>2
<1>6. \A c, d \in Classes : \A k, l \in Keys :
          map'[c][k] # None /\ map'[c][k] = map'[d][l] => c = d /\ k = l
  BY <1>3, <1>4 DEF MapInv
<1>7. \A x \in Live' : \E c \in Classes, k \in Keys : map'[c][k] = x
  <2> SUFFICES ASSUME NEW x \in Live' PROVE \E c \in Classes, k \in Keys : map'[c][k] = x
    OBVIOUS
  <2>1. CASE x = a
    BY <1>1, <1>3, <2>1
  <2>2. CASE x \in Live
    <3>1. PICK c \in Classes, k \in Keys : map[c][k] = x
      BY <2>2 DEF MapInv
    <3>2. x # None
      BY <2>2, MapAssumption DEF TypeOK
    <3>3. map'[c][k] = x
      BY <1>1, <1>3, <3>1, <3>2 DEF Entry
    <3> QED
      BY <3>3
  <2> QED
    BY <1>2, <2>1, <2>2
<1>8. MapInv'
  BY <1>5, <1>6, <1>7 DEF MapInv
<1>9. heap'[a].ready = ready
  BY <1>2
<1> QED
  BY <1>1, <1>2, <1>3, <1>8, <1>9 DEF Entry

\* The maps, when the heap keeps its producers and their targets.
LEMMA MapKept ==
    ASSUME TypeOK, MapInv, UNCHANGED map, Live' = Live,
           \A a \in Live : /\ KeyOf[heap'[a].target] = KeyOf[heap[a].target]
                           /\ heap[a].ready => heap'[a].ready
    PROVE  MapInv'
  BY DEF MapInv

\* What init() does to the object and leaves to the others.
LEMMA InitOfObject ==
    ASSUME TypeOK, NEW o \in Objs, NEW t \in Targets, NEW class \in Classes,
           NEW r \in BOOLEAN, Initialised(o, t, class, r)
    PROVE  /\ kind'[o] = class /\ result'[o] = r /\ asked'[o] = t
           /\ settled'[o] => settled[o] /\ r /\ asked[o] \in {None, t}
           /\ kind[o] # None => kind[o] = class
           /\ ~exiting' /\ abandoned' = abandoned
           /\ \A q \in Objs \ {o} :
                 /\ kind'[q] = kind[q] /\ result'[q] = result[q]
                 /\ asked'[q] = asked[q] /\ settled'[q] = settled[q]
<1>1. settled'[o] = (settled[o] /\ r /\ asked[o] \in {None, t})
  BY DEF TypeOK, Initialised
<1>2. \A q \in Objs \ {o} : settled'[q] = settled[q]
  BY DEF TypeOK, Initialised
<1> QED
  BY <1>1, <1>2 DEF TypeOK, Initialised

\* Nothing an init() does for one object disturbs another.
LEMMA ObjInit ==
    ASSUME TypeOK, MapInv, ObjInv, NEW o \in Objs, NEW t \in Targets,
           NEW class \in Classes, NEW r \in BOOLEAN, Initialised(o, t, class, r),
           \A q \in Objs \ {o} : ptr'[q] = ptr[q],
           \A c \in Classes, k \in Keys : map[c][k] # None => map'[c][k] = map[c][k],
           \A a \in Live : heap[a].ready => heap'[a].ready,
           class = "pulsar" /\ settled'[o] => r,
           Trusted(o)' => Serves(o)'
    PROVE  ObjInv'
<1> SUFFICES ASSUME NEW q \in Objs
             PROVE  /\ exiting' => kind'[q] = None
                    /\ kind'[q] = None => result'[q] = None /\ ptr'[q] = None
                    /\ kind'[q] # None => asked'[q] # None
                    /\ kind'[q] = "pulsar" /\ settled'[q] => result'[q] = TRUE
                    /\ Trusted(q)' => Serves(q)'
  BY DEF ObjInv
<1>1. CASE q = o
  <2>1. t # None /\ class # None
    BY MapAssumption DEF Classes
  <2> QED
    BY <1>1, <2>1, InitOfObject
<1>2. CASE q # o
  <2>1. Trusted(q)' => Serves(q)'
    <3> SUFFICES ASSUME Trusted(q)' PROVE Serves(q)'
      OBVIOUS
    <3>1. Trusted(q)
      BY <1>2, InitOfObject DEF Trusted
    <3>2. Serves(q)
      BY <3>1 DEF ObjInv
    <3>3. kind[q] # None
      BY <3>1, MapAssumption DEF ObjInv, Trusted
    <3>4. kind[q] \in Classes /\ asked[q] \in Targets
      BY <3>3 DEF TypeOK, ObjInv, Classes
    <3>5. KeyOf[asked[q]] \in Keys
      BY <3>4, MapAssumption
    <3>6. ptr[q] \in Live
      BY <3>2, <3>4, <3>5 DEF MapInv, Serves
    <3> QED
      BY <1>2, <3>2, <3>4, <3>5, <3>6, InitOfObject DEF Serves
  <2> QED
    BY <1>2, <2>1, InitOfObject DEF ObjInv
<1> QED
  BY <1>1, <1>2

Inv == MapInv /\ ObjInv /\ ~abandoned

LEMMA InvOfInit ==
    ASSUME TypeOK, Inv, NEW o \in Objs, NEW t \in Targets, InitOf(o, t)
    PROVE  Inv'
<1> DEFINE Key == KeyOf[t]
<1>1. Key \in Keys
  BY MapAssumption
<1>2. CASE KafkaFound(o, t)
  <2>1. /\ Initialised(o, t, "kafka", TRUE) /\ UNCHANGED <<heap, map>>
        /\ map["kafka"][Key] # None /\ ptr' = [ptr EXCEPT ![o] = map["kafka"][Key]]
    BY <1>2 DEF KafkaFound, PointsTo, Entry
  <2>2. /\ kind'[o] = "kafka" /\ asked'[o] = t /\ abandoned' = abandoned
        /\ ptr'[o] = map["kafka"][Key] /\ \A q \in Objs \ {o} : ptr'[q] = ptr[q]
    BY <2>1, InitOfObject DEF TypeOK, Classes
  <2>3. Serves(o)'
    BY <1>1, <2>1, <2>2 DEF Serves, Inv, MapInv, Classes
  <2>4. MapInv'
    BY <2>1, MapKept DEF Inv, Live
  <2> QED
    BY <2>1, <2>2, <2>3, <2>4, ObjInit DEF Inv, Classes
<1>3. CASE PulsarAgain(o, t)
  <2>1. /\ Initialised(o, t, "pulsar", TRUE) /\ UNCHANGED <<ptr, heap, map>>
        /\ ptr[o] # None
    BY <1>3 DEF PulsarAgain
  <2>2. /\ kind'[o] = "pulsar" /\ asked'[o] = t /\ abandoned' = abandoned
        /\ settled'[o] => settled[o] /\ asked[o] \in {None, t}
        /\ kind[o] # None => kind[o] = "pulsar"
    BY <2>1, InitOfObject DEF Classes
  <2>3. kind[o] = "pulsar" /\ asked[o] # None
    BY <2>1, <2>2 DEF Inv, ObjInv
  <2>4. Trusted(o)' => Serves(o)'
    <3> SUFFICES ASSUME Trusted(o)' PROVE Serves(o)'
      OBVIOUS
    <3>1. settled[o] /\ asked[o] = t
      BY <2>2, <2>3 DEF Trusted
    <3>2. Serves(o)
      BY <2>3, <3>1 DEF Inv, ObjInv, Trusted
    <3> QED
      BY <2>1, <2>2, <2>3, <3>1, <3>2 DEF Serves
  <2>5. MapInv'
    BY <2>1, MapKept DEF Inv, Live
  <2> QED
    BY <2>1, <2>2, <2>4, <2>5, ObjInit DEF Inv, Classes
<1>4. ASSUME NEW a \in Addr, KafkaMade(o, t, a) PROVE Inv'
  <2>1. /\ Initialised(o, t, "kafka", TRUE) /\ Enters("kafka", t, a)
        /\ Entry("kafka", t) = None /\ a \notin Live
        /\ heap' = With(a, [target |-> t, ready |-> TRUE, holds |-> FALSE])
        /\ ptr'[o] = a /\ \A q \in Objs \ {o} : ptr'[q] = ptr[q]
    BY <1>4 DEF KafkaMade, PointsTo, TypeOK
  <2>2. kind'[o] = "kafka" /\ asked'[o] = t /\ abandoned' = abandoned
    BY <2>1, InitOfObject DEF Classes
  <2>3. /\ MapInv' /\ map'["kafka"][Key] = a /\ a # None /\ heap'[a].ready = TRUE
        /\ \A c \in Classes, k \in Keys : map[c][k] # None => map'[c][k] = map[c][k]
        /\ \A x \in Live : heap'[x] = heap[x]
    BY <2>1, MapMade DEF Inv, Classes
  <2>4. Serves(o)'
    BY <2>1, <2>2, <2>3 DEF Serves
  <2> QED
    BY <2>1, <2>2, <2>3, <2>4, ObjInit DEF Inv, Classes
<1>5. ASSUME NEW a \in Addr, KafkaFailed(o, t, a) PROVE Inv'
  <2>1. /\ Initialised(o, t, "kafka", FALSE) /\ UNCHANGED <<heap, map>>
        /\ \A q \in Objs \ {o} : ptr'[q] = ptr[q]
    BY <1>5 DEF KafkaFailed, PointsTo, TypeOK
  <2>2. result'[o] = FALSE /\ abandoned' = abandoned
    BY <2>1, InitOfObject DEF Classes
  <2>3. MapInv'
    BY <2>1, MapKept DEF Inv, Live
  <2> QED
    BY <2>1, <2>2, <2>3, ObjInit DEF Inv, Classes, Trusted
<1>6. ASSUME NEW a \in Addr, NEW ok \in BOOLEAN, PulsarFirst(o, t, a, ok) PROVE Inv'
  <2>1. /\ Initialised(o, t, "pulsar", ok) /\ Enters("pulsar", t, a)
        /\ Entry("pulsar", t) = None /\ a \notin Live
        /\ heap' = With(a, [target |-> t, ready |-> ok, holds |-> FALSE])
        /\ ptr'[o] = a /\ \A q \in Objs \ {o} : ptr'[q] = ptr[q]
    BY <1>6 DEF PulsarFirst, PointsTo, TypeOK
  <2>2. /\ kind'[o] = "pulsar" /\ asked'[o] = t /\ abandoned' = abandoned
        /\ result'[o] = ok /\ (settled'[o] => ok)
    BY <2>1, InitOfObject DEF Classes
  <2>3. /\ MapInv' /\ map'["pulsar"][Key] = a /\ a # None /\ heap'[a].ready = ok
        /\ \A c \in Classes, k \in Keys : map[c][k] # None => map'[c][k] = map[c][k]
        /\ \A x \in Live : heap'[x] = heap[x]
    BY <2>1, MapMade DEF Inv, Classes
  <2>4. Trusted(o)' => Serves(o)'
    BY <2>1, <2>2, <2>3 DEF Serves, Trusted
  <2> QED
    BY <2>1, <2>2, <2>3, <2>4, ObjInit DEF Inv, Classes
<1>7. ASSUME NEW ok \in BOOLEAN, PulsarShared(o, t, ok) PROVE Inv'
  <2> DEFINE a == map["pulsar"][Key]
  <2>1. /\ Initialised(o, t, "pulsar", ok) /\ UNCHANGED map /\ a # None
        /\ heap' = IF ok THEN [heap EXCEPT ![a].ready = TRUE, ![a].target = t] ELSE heap
        /\ ptr'[o] = a /\ \A q \in Objs \ {o} : ptr'[q] = ptr[q]
    BY <1>7 DEF PulsarShared, PointsTo, Entry, TypeOK
  <2>2. /\ kind'[o] = "pulsar" /\ asked'[o] = t /\ abandoned' = abandoned
        /\ result'[o] = ok /\ (settled'[o] => ok)
    BY <2>1, InitOfObject DEF Classes
  <2>3. a \in Live /\ KeyOf[heap[a].target] = Key
    BY <1>1, <2>1 DEF Inv, MapInv, Classes
  <2>4. /\ Live' = Live /\ \A x \in Live \ {a} : heap'[x] = heap[x]
        /\ ok => heap'[a].ready /\ heap'[a].target = t
        /\ ~ok => heap' = heap
    BY <2>1, <2>3 DEF TypeOK, Live, Producer
  <2>5. \A x \in Live : /\ KeyOf[heap'[x].target] = KeyOf[heap[x].target]
                        /\ heap[x].ready => heap'[x].ready
    BY <2>3, <2>4
  <2>6. MapInv'
    BY <2>1, <2>4, <2>5, MapKept DEF Inv
  <2>7. Trusted(o)' => Serves(o)'
    BY <2>1, <2>2, <2>4 DEF Serves, Trusted
  <2> QED
    BY <2>1, <2>2, <2>5, <2>6, <2>7, ObjInit DEF Inv, Classes
<1> QED
  BY <1>2, <1>3, <1>4, <1>5, <1>6, <1>7 DEF InitOf

\* Ending an object frees nothing: a map still has every producer.
LEMMA InvDestruct ==
    ASSUME TypeOK, Inv, NEW o \in Objs, Destruct(o)
    PROVE  Inv'
<1> DEFINE gone == IF kind[o] = "pulsar"
                   THEN {ptr[o]} \ (Mapped \cup {ptr[q] : q \in {x \in Objs \ {o} : kind[x] = "pulsar"}})
                   ELSE {}
<1>1. gone \cap Live = {}
  <2> SUFFICES ASSUME NEW a \in Live, a \in gone PROVE FALSE
    OBVIOUS
  <2>1. PICK c \in Classes, k \in Keys : map[c][k] = a
    BY DEF Inv, MapInv
  <2>2. a # None
    BY MapAssumption DEF TypeOK
  <2> QED
    BY <2>1, <2>2 DEF Mapped, Classes
<1>2. /\ heap' = Restrict(heap, Live \ gone)
      /\ abandoned' = (abandoned \/ \E a \in gone \cap Live : heap[a].holds)
      /\ Forgotten(o)
  BY DEF Destruct, Freed
<1>3. ~abandoned'
  BY <1>1, <1>2 DEF Inv
<1>4. Live' = Live /\ \A a \in Live : heap'[a] = heap[a]
  <2>1. heap' = Restrict(heap, Live \ gone)
    BY <1>2
  <2> HIDE DEF gone
  <2> QED
    BY <1>1, <2>1, Freeing
<1>5. UNCHANGED <<map, exiting>>
  BY <1>2 DEF Forgotten
<1>6. MapInv'
  BY <1>4, <1>5, MapKept DEF Inv
<1>7. ASSUME NEW q \in Objs
      PROVE  /\ exiting' => kind'[q] = None
             /\ kind'[q] = None => result'[q] = None /\ ptr'[q] = None
             /\ kind'[q] # None => asked'[q] # None
             /\ kind'[q] = "pulsar" /\ settled'[q] => result'[q] = TRUE
             /\ Trusted(q)' => Serves(q)'
  <2>1. CASE q = o
    <3>1. kind'[q] = None /\ result'[q] = None /\ ptr'[q] = None
      BY <1>2, <2>1 DEF Forgotten, PointsTo, TypeOK
    <3> QED
      BY <3>1, MapAssumption DEF Trusted
  <2>2. CASE q # o
    <3>1. /\ kind'[q] = kind[q] /\ result'[q] = result[q] /\ ptr'[q] = ptr[q]
          /\ asked'[q] = asked[q] /\ settled'[q] = settled[q]
      BY <1>2, <2>2 DEF Forgotten, PointsTo, TypeOK
    <3>2. Trusted(q)' => Serves(q)'
      <4> SUFFICES ASSUME Trusted(q)' PROVE Serves(q)'
        OBVIOUS
      <4>1. Serves(q) /\ kind[q] # None
        BY <3>1, MapAssumption DEF Trusted, Inv, ObjInv
      <4>2. kind[q] \in Classes /\ KeyOf[asked[q]] \in Keys
        BY <4>1, MapAssumption DEF TypeOK, Inv, ObjInv, Classes
      <4>3. ptr[q] \in Live
        BY <4>1, <4>2 DEF Inv, MapInv, Serves
      <4> QED
        BY <1>4, <1>5, <3>1, <4>1, <4>3 DEF Serves
    <3> QED
      BY <1>5, <3>1, <3>2 DEF Inv, ObjInv
  <2> QED
    BY <2>1, <2>2
<1> QED
  BY <1>3, <1>6, <1>7 DEF Inv, ObjInv

\* The end of the process: no object is left, and one entry goes at a time.
LEMMA InvClear ==
    ASSUME TypeOK, Inv, NEW c \in Classes, NEW k \in Keys, Clear(c, k)
    PROVE  Inv'
<1>1. /\ exiting /\ map[c][k] # None
      /\ heap' = Restrict(heap, Live \ {map[c][k]})
      /\ UNCHANGED <<kind, ptr, exiting, result, asked, settled, abandoned>>
  BY DEF Clear
<1>2. /\ Live' = Live \ {map[c][k]}
      /\ \A a \in Live' : heap'[a] = heap[a]
  BY <1>1, Freeing
<1>3. \A d \in Classes, l \in Keys :
         map'[d][l] = IF d = c /\ l = k THEN None ELSE map[d][l]
  BY DEF Clear, TypeOK, Classes
<1>4. \A d \in Classes, l \in Keys : map'[d][l] # None =>
         /\ map'[d][l] = map[d][l]
         /\ map'[d][l] \in Live'
  BY <1>1, <1>2, <1>3 DEF Inv, MapInv
<1>5. \A a \in Live' : \E d \in Classes, l \in Keys : map'[d][l] = a
  <2> SUFFICES ASSUME NEW a \in Live' PROVE \E d \in Classes, l \in Keys : map'[d][l] = a
    OBVIOUS
  <2>1. PICK d \in Classes, l \in Keys : map[d][l] = a
    BY <1>2 DEF Inv, MapInv
  <2>2. map'[d][l] = a
    BY <1>2, <1>3, <2>1
  <2> QED
    BY <2>2
<1>6. \A d \in Classes, l \in Keys : map'[d][l] # None =>
         /\ KeyOf[heap'[map'[d][l]].target] = l
         /\ d = "kafka" => heap'[map'[d][l]].ready
  <2> SUFFICES ASSUME NEW d \in Classes, NEW l \in Keys, map'[d][l] # None
               PROVE  /\ KeyOf[heap'[map'[d][l]].target] = l
                      /\ d = "kafka" => heap'[map'[d][l]].ready
    OBVIOUS
  <2>1. map'[d][l] = map[d][l] /\ heap'[map[d][l]] = heap[map[d][l]]
    BY <1>2, <1>4
  <2> QED
    BY <2>1 DEF Inv, MapInv
<1>7. \A d, e \in Classes : \A l, n \in Keys :
         map'[d][l] # None /\ map'[d][l] = map'[e][n] => d = e /\ l = n
  BY <1>3 DEF Inv, MapInv
<1>8. MapInv'
  BY <1>4, <1>5, <1>6, <1>7 DEF MapInv
<1>9. ObjInv'
  BY <1>1, MapAssumption DEF Inv, ObjInv, Trusted
<1> QED
  BY <1>1, <1>8, <1>9 DEF Inv

LEMMA InvProduce ==
    ASSUME TypeOK, Inv, NEW o \in Objs, Produce(o)
    PROVE  Inv'
<1>1. /\ ptr[o] \in Live /\ heap' = [heap EXCEPT ![ptr[o]].holds = TRUE]
      /\ UNCHANGED <<kind, ptr, map, exiting, result, asked, settled, abandoned>>
  BY DEF Produce
<1>2. /\ Live' = Live
      /\ \A a \in Live : heap'[a].target = heap[a].target /\ heap'[a].ready = heap[a].ready
  BY <1>1 DEF TypeOK, Live, Producer
<1>3. MapInv'
  BY <1>1, <1>2, MapKept DEF Inv
<1>4. ASSUME NEW q \in Objs, Serves(q), kind[q] # None PROVE Serves(q)'
  <2>1. kind[q] \in Classes /\ KeyOf[asked[q]] \in Keys
    BY <1>4, MapAssumption DEF TypeOK, Inv, ObjInv, Classes
  <2>2. ptr[q] \in Live
    BY <1>4, <2>1 DEF Inv, MapInv, Serves
  <2> QED
    BY <1>1, <1>2, <1>4, <2>2 DEF Serves
<1>5. \A q \in Objs : Trusted(q) => kind[q] # None
  BY MapAssumption DEF Trusted, Inv, ObjInv
<1>6. ObjInv'
  BY <1>1, <1>4, <1>5 DEF Inv, ObjInv, Trusted
<1> QED
  BY <1>1, <1>3, <1>6 DEF Inv

LEMMA InvAlways == Spec => []Inv
<1>1. Init => Inv
  <2> SUFFICES ASSUME Init PROVE Inv
    OBVIOUS
  <2>1. Live = {}
    BY DEF Init, Live
  <2>2. MapInv
    BY <2>1 DEF Init, MapInv, Classes
  <2>3. ObjInv
    BY MapAssumption DEF Init, ObjInv, Trusted
  <2> QED
    BY <2>2, <2>3 DEF Init, Inv
<1>2. TypeOK /\ Inv /\ [Next]_vars => Inv'
  <2> SUFFICES ASSUME TypeOK, Inv, [Next]_vars PROVE Inv'
    OBVIOUS
  <2>1. CASE Exit
    <3>1. /\ \A o \in Objs : kind[o] = None
          /\ UNCHANGED <<kind, ptr, heap, map, result, asked, settled, abandoned>>
      BY <2>1 DEF Exit
    <3>2. MapInv'
      BY <3>1, MapKept DEF Inv, Live
    <3>3. ObjInv'
      BY <3>1, MapAssumption DEF Inv, ObjInv, Trusted
    <3> QED
      BY <3>1, <3>2, <3>3 DEF Inv
  <2>2. CASE Exited \/ UNCHANGED vars
    <3>1. UNCHANGED vars
      BY <2>2 DEF Exited
    <3>2. MapInv'
      BY <3>1, MapKept DEF Inv, Live, vars
    <3>3. ObjInv'
      BY <3>1 DEF Inv, ObjInv, Trusted, Serves, vars
    <3> QED
      BY <3>1, <3>2, <3>3 DEF Inv, vars
  <2> QED
    BY <2>1, <2>2, InvOfInit, InvDestruct, InvClear, InvProduce DEF Next, Classes
<1> QED
  BY <1>1, <1>2, TypeCorrect, PTL DEF Spec

\* An object whose init() returned true has a live and initialised producer of
\* its key, whatever is done with the other objects.
THEOREM TrueIsUsableAlways == Spec => []TrueIsUsable
<1>1. TypeOK /\ Inv => TrueIsUsable
  <2> SUFFICES ASSUME TypeOK, Inv, NEW o \in Objs, Trusted(o)
               PROVE  /\ ptr[o] \in Live
                      /\ heap[ptr[o]].ready
                      /\ KeyOf[heap[ptr[o]].target] = KeyOf[asked[o]]
    BY DEF TrueIsUsable
  <2>1. Serves(o) /\ kind[o] # None
    BY MapAssumption DEF Inv, ObjInv, Trusted
  <2>2. asked[o] # None
    BY <2>1 DEF Inv, ObjInv
  <2>3. kind[o] \in Classes /\ asked[o] \in Targets
    BY <2>1, <2>2 DEF TypeOK, Classes
  <2>4. KeyOf[asked[o]] \in Keys
    BY <2>3, MapAssumption
  <2>5. PICK a : a = map[kind[o]][KeyOf[asked[o]]] /\ a = ptr[o] /\ a # None
    BY <2>1 DEF Serves
  <2>6. a \in Live /\ KeyOf[heap[a].target] = KeyOf[asked[o]]
    <3>1. \A c \in Classes, k \in Keys : map[c][k] # None =>
              map[c][k] \in Live /\ KeyOf[heap[map[c][k]].target] = k
      BY ZenonT(30) DEF Inv, MapInv
    <3> QED
      BY <2>3, <2>4, <2>5, <3>1
  <2>7. heap[ptr[o]].ready
    BY <2>1 DEF Serves
  <2> QED
    BY <2>5, <2>6, <2>7
<1> QED
  BY <1>1, TypeCorrect, InvAlways, PTL

\* No producer is freed with messages it has not flushed.
THEOREM NothingAbandonedAlways == Spec => []NothingAbandoned
<1>1. TypeOK /\ Inv => NothingAbandoned
  <2> SUFFICES ASSUME TypeOK, Inv, NEW a \in Live PROVE a \in Mapped
    BY DEF NothingAbandoned, Inv
  <2>1. PICK c \in Classes, k \in Keys : map[c][k] = a
    BY DEF Inv, MapInv
  <2>2. a # None
    BY MapAssumption DEF TypeOK
  <2> QED
    BY <2>1, <2>2 DEF Mapped, Classes
<1> QED
  BY <1>1, TypeCorrect, InvAlways, PTL

=============================================================================
