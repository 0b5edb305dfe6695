---------------------------- MODULE ProducerMap ----------------------------
(***************************************************************************)
(* The producers of the PHP build (NOT_USE_CONSUMER_CALLBACK), from the     *)
(* script's qbus::QbusProducer objects to the process-wide maps that keep   *)
(* the connections between requests: the facade (qbus_producer.cc), the map *)
(* of kafka::QbusProducerImp's, and the map of pulsar::QbusProducer's that  *)
(* pulsar::QbusPhpProducer draws from.  How a producer sends is in          *)
(* KafkaProducer and PulsarProducer.  PHP calls one at a time; uninit() of  *)
(* an object does nothing in this build.                                    *)
(***************************************************************************)
EXTENDS Functions, FiniteSets

CONSTANTS
    Objs,      \* variables of the script that may hold a qbus::QbusProducer
    Targets,   \* what init() is called with: cluster, topic and configuration
    MqOf,      \* [Targets -> {"kafka", "pulsar"}]: mq.type of the configuration
    Keys,      \* keys of the maps
    KeyOf,     \* [Targets -> Keys]: the three strings run together
    Addr,      \* addresses of producers; a freed one may be used again
    None

ASSUME MapAssumption ==
    /\ MqOf \in [Targets -> {"kafka", "pulsar"}]
    /\ KeyOf \in [Targets -> Keys]
    /\ None \notin Addr \cup Targets \cup {"kafka", "pulsar"}
    /\ None \notin BOOLEAN

VARIABLES
    kind,      \* per object: the class of its imp_, None before init()
    ptr,       \* per object: its qbus_producer_imp_ or producer_
    heap,      \* the live producers: target, whether initialised, what it holds
    map,       \* per class and key: the producer of that key
    exiting,   \* the script and its objects are gone
    (* history *)
    result,    \* what the object's last init() returned
    asked,     \* the target it was called with
    settled,   \* no init() of the object failed or named another target
    found,     \* its last init() found an initialised producer
    abandoned  \* a producer was freed with messages that were not flushed

vars == <<kind, ptr, heap, map, exiting, result, asked, settled, found, abandoned>>

-----------------------------------------------------------------------------
Live == DOMAIN heap
Producer == [target : Targets, ready : BOOLEAN, holds : BOOLEAN]
Mapped == {map[c][k] : c \in {"kafka", "pulsar"}, k \in Keys} \ {None}

TypeOK ==
    /\ kind \in [Objs -> {"kafka", "pulsar", None}]
    /\ ptr \in [Objs -> Addr \cup {None}]
    /\ Live \subseteq Addr
    /\ heap \in [Live -> Producer]
    /\ map \in [{"kafka", "pulsar"} -> [Keys -> Addr \cup {None}]]
    /\ exiting \in BOOLEAN
    /\ result \in [Objs -> BOOLEAN \cup {None}]
    /\ asked \in [Objs -> Targets \cup {None}]
    /\ settled \in [Objs -> BOOLEAN] /\ found \in [Objs -> BOOLEAN]
    /\ abandoned \in BOOLEAN

Init ==
    /\ kind = [o \in Objs |-> None] /\ ptr = [o \in Objs |-> None]
    /\ heap = [a \in {} |-> None]
    /\ map = [c \in {"kafka", "pulsar"} |-> [k \in Keys |-> None]]
    /\ exiting = FALSE
    /\ result = [o \in Objs |-> None] /\ asked = [o \in Objs |-> None]
    /\ settled = [o \in Objs |-> TRUE] /\ found = [o \in Objs |-> FALSE]
    /\ abandoned = FALSE

With(a, producer) == [x \in Live \cup {a} |-> IF x = a THEN producer ELSE heap[x]]
Freed(gone) ==
    /\ heap' = Restrict(heap, Live \ gone)
    /\ abandoned' = (abandoned \/ \E a \in gone \cap Live : heap[a].holds)

-----------------------------------------------------------------------------
(* init() *)

\* The facade makes its imp_ for the first configuration that mqType() does not
\* refuse, and keeps it; init() returned r.
Initialised(o, t, class, r) ==
    /\ ~exiting
    /\ class = IF kind[o] = None THEN MqOf[t] ELSE kind[o]
    /\ kind' = [kind EXCEPT ![o] = class]
    /\ result' = [result EXCEPT ![o] = r]
    /\ asked' = [asked EXCEPT ![o] = t]
    /\ settled' = [settled EXCEPT ![o] = @ /\ r /\ asked[o] \in {None, t}]
    /\ found' = [found EXCEPT ![o] = ptr'[o] \in Live /\ heap[ptr'[o]].ready]
    /\ UNCHANGED <<exiting, abandoned>>

Entry(class, t) == map[class][KeyOf[t]]
Enters(class, t, a) == map' = [map EXCEPT ![class][KeyOf[t]] = a]
PointsTo(o, a) == ptr' = [ptr EXCEPT ![o] = a]

\* kafka::QbusProducer::init() finds the key in the map.
KafkaFound(o, t) ==
    /\ Entry("kafka", t) # None
    /\ PointsTo(o, Entry("kafka", t))
    /\ Initialised(o, t, "kafka", TRUE)
    /\ UNCHANGED <<heap, map>>

\* It makes a producer whose init() succeeds, and enters it.
KafkaMade(o, t, a) ==
    /\ Entry("kafka", t) = None /\ a \notin Live
    /\ PointsTo(o, a)
    /\ Initialised(o, t, "kafka", TRUE)
    /\ heap' = With(a, [target |-> t, ready |-> TRUE, holds |-> FALSE])
    /\ Enters("kafka", t, a)

\* Its init() fails: it is deleted, but the object goes on pointing at it.
KafkaFailed(o, t, a) ==
    /\ Entry("kafka", t) = None /\ a \notin Live
    /\ PointsTo(o, a)
    /\ Initialised(o, t, "kafka", FALSE)
    /\ UNCHANGED <<heap, map>>

\* pulsar::QbusPhpProducer::init() of an object that has a producer, whatever
\* state that is in and whatever target is asked for.
PulsarAgain(o, t) ==
    /\ ptr[o] # None
    /\ UNCHANGED <<ptr, heap, map>>
    /\ Initialised(o, t, "pulsar", TRUE)

\* Mutant: operator[] forgets to enter the producer it makes.
PulsarFirstForgets(o, t, a, ok) ==
    /\ ptr[o] = None /\ Entry("pulsar", t) = None /\ a \notin Live
    /\ PointsTo(o, a)
    /\ Initialised(o, t, "pulsar", ok)
    /\ heap' = With(a, [target |-> t, ready |-> ok, holds |-> FALSE])
    /\ UNCHANGED map

\* The first producer of a key stays in the map even if its init() fails.
PulsarFirst(o, t, a, ok) ==
    /\ ptr[o] = None /\ Entry("pulsar", t) = None /\ a \notin Live
    /\ PointsTo(o, a)
    /\ Initialised(o, t, "pulsar", ok)
    /\ heap' = With(a, [target |-> t, ready |-> ok, holds |-> FALSE])
    /\ Enters("pulsar", t, a)

\* One that is in the map is initialised again, which pulsar::QbusProducer
\* refuses if it is already.
PulsarShared(o, t, ok) ==
    LET a == Entry("pulsar", t)
    IN  /\ ptr[o] = None /\ a # None
        /\ heap[a].ready => ~ok
        /\ PointsTo(o, a)
        /\ Initialised(o, t, "pulsar", ok)
        /\ heap' = IF ok THEN [heap EXCEPT ![a].ready = TRUE, ![a].target = t] ELSE heap
        /\ UNCHANGED map

-----------------------------------------------------------------------------
(* produce(), the end of an object and the end of the process *)

\* A live producer that is initialised takes a message.
Produce(o) ==
    /\ ~exiting /\ ptr[o] \in Live /\ heap[ptr[o]].ready
    /\ heap' = [heap EXCEPT ![ptr[o]].holds = TRUE]
    /\ UNCHANGED <<kind, ptr, map, exiting, result, asked, settled, found, abandoned>>

Forgotten(o) ==
    /\ kind' = [kind EXCEPT ![o] = None]
    /\ PointsTo(o, None)
    /\ result' = [result EXCEPT ![o] = None]
    /\ asked' = [asked EXCEPT ![o] = None]
    /\ settled' = [settled EXCEPT ![o] = TRUE]
    /\ found' = [found EXCEPT ![o] = FALSE]
    /\ UNCHANGED <<map, exiting>>

\* Mutant: the destructor deletes the producer as in the other builds.
DestructDeletes(o) ==
    /\ ~exiting /\ kind[o] # None
    /\ Freed({ptr[o]})
    /\ Forgotten(o)

\* ~QbusProducer(): kafka's leaves the producer alone, pulsar's gives up its
\* share of it.
Destruct(o) ==
    /\ ~exiting /\ kind[o] # None
    /\ Freed(IF kind[o] = "pulsar"
             THEN {ptr[o]} \ (Mapped \cup {ptr[q] : q \in {x \in Objs \ {o} : kind[x] = "pulsar"}})
             ELSE {})
    /\ Forgotten(o)

\* The process ends, with the destructors of the maps.
Exit ==
    /\ ~exiting /\ \A o \in Objs : kind[o] = None
    /\ exiting' = TRUE
    /\ UNCHANGED <<kind, ptr, heap, map, result, asked, settled, found, abandoned>>

\* An entry is uninitialised, which flushes it, and deleted.
Clear(c, k) ==
    /\ exiting /\ map[c][k] # None
    /\ heap' = Restrict(heap, Live \ {map[c][k]})
    /\ map' = [map EXCEPT ![c][k] = None]
    /\ UNCHANGED <<kind, ptr, exiting, result, asked, settled, found, abandoned>>

Exited == exiting /\ Mapped = {} /\ UNCHANGED vars

-----------------------------------------------------------------------------
InitOf(o, t) ==
    \/ KafkaFound(o, t) \/ PulsarAgain(o, t)
    \/ \E a \in Addr :
          \/ KafkaMade(o, t, a) \/ KafkaFailed(o, t, a)
          \/ \E ok \in BOOLEAN : PulsarFirst(o, t, a, ok)
    \/ \E ok \in BOOLEAN : PulsarShared(o, t, ok)

Next ==
    \/ \E o \in Objs : Produce(o) \/ Destruct(o) \/ \E t \in Targets : InitOf(o, t)
    \/ \E c \in {"kafka", "pulsar"}, k \in Keys : Clear(c, k)
    \/ Exit \/ Exited

Spec == Init /\ [][Next]_vars

-----------------------------------------------------------------------------
(* Properties *)

\* The object's init() may be trusted: kafka's points the object elsewhere every
\* time, pulsar's only the first.
Trusted(o) == result[o] = TRUE /\ (kind[o] = "kafka" \/ settled[o])

\* An object whose init() returned true has a live and initialised producer for
\* what it asked for, whatever other objects do or whichever of them end, unless
\* another target has the same key.
TrueIsUsable ==
    \A o \in Objs : Trusted(o) =>
        /\ ptr[o] \in Live
        /\ heap[ptr[o]].ready
        /\ KeyOf[heap[ptr[o]].target] = KeyOf[asked[o]]

\* No producer is freed with messages that nobody tried to flush: as long as it
\* holds some a map has it, and the end of the process flushes what the maps have.
NothingAbandoned ==
    /\ ~abandoned
    /\ \A a \in Live : heap[a].holds => a \in Mapped

\* "For the case of using php-fpm, the connection is keeping-alived for reproduce
\* messages uninterruptedly": init() does not fail when it finds the connection.
FoundIsReused == \A o \in Objs : found[o] => result[o] = TRUE
=============================================================================
