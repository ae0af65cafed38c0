---------------------------- MODULE BufferQueue -----------------------------
(***************************************************************************)
(* The tests of Android/BufferQueue.  mytest and mytest2 are producer and  *)
(* consumer of a queue in one process.  In mytest3 the server creates the  *)
(* queue and registers both ends; clients call them through binder, any    *)
(* number at a time, and disappear at any time.  No test looks at the      *)
(* result of a call.                                                       *)
(*                                                                         *)
(* The queue itself (libgui) is external.  With the arguments of the tests *)
(* it is synchronous and has two slots, one to be dequeued and one to be   *)
(* acquired.  The end of a client reaches the queue as a death notice of   *)
(* the listener it connected with, some time later.                        *)
(***************************************************************************)
EXTENDS Naturals, Sequences, FiniteSets

CONSTANTS Clients, Tests, None

ASSUME ClientAssumption == IsFiniteSet(Clients) /\ Clients # {} /\ None \notin Clients
ASSUME TestAssumption == Tests \subseteq {"mytest", "mytest2", "mytest3"}

Slots == {0, 1}
SlotStates == {"FREE", "DEQUEUED", "QUEUED", "ACQUIRED"}
Services == {"MyProducer", "MyConsumer"}

VARIABLES
  test,
  server,    \* the calls the server of mytest3 still has to make
  services,  \* the services that are registered
  consumer,  \* the queue has a consumer listener
  connected, \* the client whose producer listener is connected
  notice,    \* that client has ended; the queue will learn of it
  slots,     \* slots[i]: state, whether it has a buffer, whether the buffer
             \* was requested and has been sent to the consumer, and the
             \* running client that has dequeued or acquired it
  queue,     \* frames: slot, sender, sent (the consumer has the buffer) and
             \* stale (the slot is no longer that of the frame, and there is
             \* no sender any more)
  queued,    \* mBufferHasBeenQueued
  todo,      \* todo[c]: the calls client c still has to make
  slot,      \* slot[c]: the variable slot, or item.mSlot once it has acquired
  got,       \* got[c]: the frame it has acquired
  nulls,     \* <<c, service>>: getService returned NULL to client c
  dead,      \* clients that used a null pointer
  failed,    \* a call of mytest or mytest2 has failed
  met        \* clients that were not alone: another one was running, or the
             \* death notice of one was outstanding

coreVars == <<consumer, connected, notice, slots, queue, queued>>
serverVars == <<test, server, services>>
clientVars == <<todo, slot, got, nulls, dead, failed, met>>
vars == <<serverVars, coreVars, clientVars>>

Cleared == [state |-> "FREE", buffer |-> FALSE, asked |-> FALSE, sent |-> FALSE, by |-> None]

-----------------------------------------------------------------------------
(* The programs.                                                           *)

createBufferQueue == <<"createBufferQueue", "consumerConnect">>

mytest3_server == createBufferQueue \o <<"addProducer", "addConsumer">>

(* Mutant: the consumer runs before the producer. *)
AcquireFirst ==
  <<"getProducer", "getConsumer", "connect", "dequeue", "wait", "request", "acquire", "queue",
    "release">>

(* Mutant: a second buffer is dequeued before the first is queued. *)
DequeueTwice ==
  <<"getProducer", "getConsumer", "connect", "dequeue", "wait", "request", "dequeue", "wait",
    "request", "queue", "acquire", "release">>

mytest3_client ==
  <<"getProducer", "getConsumer", "connect", "dequeue", "wait", "request", "queue", "acquire",
    "release">>

mytest ==
  createBufferQueue
    \o <<"connect", "dequeue", "wait", "request", "queue", "acquire", "release">>

(* Mutant: the buffer is never requested. *)
Mytest2WithoutRequest ==
  createBufferQueue
    \o <<"connect", "dequeue", "wait", "cancel", "attach", "detach",
         "dequeue", "wait", "queue", "acquire", "release",
         "attachConsumer", "detachConsumer", "discard">>

(* The second dequeue is not followed by a request. *)
mytest2 ==
  createBufferQueue
    \o <<"connect", "dequeue", "wait", "request", "cancel", "attach", "detach",
         "dequeue", "wait", "queue", "acquire", "release",
         "attachConsumer", "detachConsumer", "discard">>

Program == CASE test = "mytest" -> mytest
             [] test = "mytest2" -> mytest2
             [] test = "mytest3" -> mytest3_client

Calls == {"createBufferQueue", "consumerConnect", "addProducer", "addConsumer",
          "getProducer", "getConsumer", "connect", "dequeue", "wait", "request", "queue",
          "acquire", "release", "cancel", "attach", "detach", "attachConsumer",
          "detachConsumer", "discard", "return"}

Running(c) == todo[c] # <<>>

Init ==
  /\ test \in Tests
  /\ server = IF test = "mytest3" THEN mytest3_server ELSE <<>>
  /\ services = {}
  /\ consumer = FALSE /\ connected = None /\ notice = FALSE /\ queued = FALSE
  /\ slots = [i \in Slots |-> Cleared]
  /\ queue = <<>>
  /\ todo = [c \in Clients |-> <<>>]
  /\ slot = [c \in Clients |-> 0]
  /\ got = [c \in Clients |-> "none"]
  /\ nulls = {} /\ dead = {} /\ failed = FALSE /\ met = {}

Start(c) ==
  LET others == {d \in Clients : Running(d)}
  IN
  /\ ~Running(c)
  /\ test # "mytest3" => others = {}
  /\ todo' = [todo EXCEPT ![c] = Append(Program, "return")]
  /\ met' = IF others # {} \/ notice THEN met \cup others \cup {c} ELSE met
  /\ UNCHANGED <<serverVars, coreVars, slot, got, nulls, dead, failed>>

-----------------------------------------------------------------------------
(* The calls of a client.                                                  *)

At(c, call) == c \notin dead /\ Running(c) /\ Head(todo[c]) = call

Call(c, call) ==
  /\ At(c, call)
  /\ todo' = [todo EXCEPT ![c] = Tail(@)]
  /\ UNCHANGED <<serverVars, met>>

Ok == UNCHANGED <<nulls, dead, failed>>
Failed == failed' = (failed \/ test # "mytest3") /\ UNCHANGED nulls
Fails(c) == Failed /\ UNCHANGED <<coreVars, dead>>
Dies(c) == Failed /\ dead' = dead \cup {c}

SetSlot(i, state, c) == slots' = [slots EXCEPT ![i].state = state, ![i].by = c]
CoreRest == <<consumer, connected, notice>>
Local == <<slot, got>>

Create(c) ==
  /\ Call(c, "createBufferQueue")
  /\ UNCHANGED <<coreVars, Local>> /\ Ok

ConsumerConnect(c) ==
  /\ Call(c, "consumerConnect")
  /\ consumer' = TRUE
  /\ UNCHANGED <<connected, notice, slots, queue, queued, Local>> /\ Ok

(* The service a call of the server registers. *)
Registers(call) ==
  {s \in Services : call = IF s = "MyProducer" THEN "addProducer" ELSE "addConsumer"}

(* The server registers the two ends one after the other.  addService may  *)
(* be refused; the server goes on and waits for calls.                     *)
ServerStep ==
  /\ server # <<>> /\ server' = Tail(server)
  /\ services' \in {services, services \cup Registers(Head(server))}
  /\ consumer' = (consumer \/ Head(server) = "consumerConnect")
  /\ UNCHANGED <<test, connected, notice, slots, queue, queued, clientVars>>

(* getService waits some seconds for the service, then returns NULL. *)
getService(c, call, service) ==
  /\ Call(c, call)
  /\ nulls' = IF service \in services THEN nulls ELSE nulls \cup {<<c, service>>}
  /\ UNCHANGED <<coreVars, Local, dead, failed>>

GetProducer(c) == getService(c, "getProducer", "MyProducer")
GetConsumer(c) == getService(c, "getConsumer", "MyConsumer")

NoProducer(c) == <<c, "MyProducer">> \in nulls
NoConsumer(c) == <<c, "MyConsumer">> \in nulls

(* connect is the first use of the producer. *)
connectToNull(c) ==
  /\ NoProducer(c)
  /\ Call(c, "connect")
  /\ Dies(c)
  /\ UNCHANGED <<coreVars, Local>>

connect(c) ==
  /\ ~NoProducer(c)
  /\ Call(c, "connect")
  /\ UNCHANGED Local
  /\ IF consumer /\ connected = None
     THEN /\ connected' = c /\ queued' = FALSE
          /\ UNCHANGED <<consumer, notice, slots, queue>> /\ Ok
     ELSE Fails(c)

(* Mutant: it leaves a slot that does not exist. *)
NoValidSlot(c) == slot' = [slot EXCEPT ![c] = Cardinality(Slots)] /\ Fails(c)

(* A call of dequeueBuffer that fails leaves 0 in slot. *)
NoSlot(c) == slot' = [slot EXCEPT ![c] = 0] /\ Fails(c)

dequeueBuffer(c) ==
  /\ connected # None
  /\ Call(c, "dequeue")
  /\ UNCHANGED <<coreVars, Local>> /\ Ok

dequeueBufferFails(c) ==
  /\ connected = None
  /\ At(c, "dequeue")
  /\ todo' = [todo EXCEPT ![c] = Tail(Tail(@))]
  /\ NoSlot(c)
  /\ UNCHANGED <<serverVars, met, got>>

InState(state) == {i \in Slots : slots[i].state = state}
TooManyDequeued == queued /\ InState("DEQUEUED") # {}
TooManyQueued == Len(queue) > Cardinality(Slots)

(* A producer prefers slots with a buffer, or without. *)
Preferred(buffer) ==
  LET best == {i \in InState("FREE") : slots[i].buffer = buffer}
  IN IF best = {} THEN InState("FREE") ELSE best

(* waitForFreeSlotThenRelock: blocks while no slot is free.  The slot gets *)
(* a new buffer if it has none.                                            *)
waitForFreeSlot(c) ==
  /\ ~TooManyDequeued /\ ~TooManyQueued
  /\ Call(c, "wait")
  /\ \E i \in Preferred(TRUE) :
       /\ slot' = [slot EXCEPT ![c] = i]
       /\ slots' = [slots EXCEPT ![i] =
            [(IF @.buffer THEN @ ELSE Cleared)
               EXCEPT !.state = "DEQUEUED", !.by = c, !.buffer = TRUE]]
  /\ UNCHANGED <<CoreRest, queue, queued, got>> /\ Ok

waitForFreeSlotFails(c) ==
  /\ TooManyDequeued
  /\ Call(c, "wait")
  /\ NoSlot(c)
  /\ UNCHANGED got

Dequeued(c) == connected # None /\ slots[slot[c]].state = "DEQUEUED"

(* Without a buffer the write that follows uses a null pointer. *)
requestBuffer(c) ==
  /\ Call(c, "request")
  /\ UNCHANGED Local
  /\ IF Dequeued(c)
     THEN slots' = [slots EXCEPT ![slot[c]].asked = TRUE]
          /\ UNCHANGED <<CoreRest, queue, queued>> /\ Ok
     ELSE Dies(c) /\ UNCHANGED coreVars

queueBuffer(c) ==
  /\ Call(c, "queue")
  /\ UNCHANGED Local
  /\ IF Dequeued(c) /\ slots[slot[c]].asked
     THEN /\ SetSlot(slot[c], "QUEUED", None)
          /\ queue' = Append(queue,
               [slot |-> slot[c], from |-> c, sent |-> slots[slot[c]].sent, stale |-> FALSE])
          /\ queued' = TRUE
          /\ UNCHANGED CoreRest /\ Ok
     ELSE Fails(c)

Frame(c) == IF Head(queue).stale THEN "stale" ELSE IF Head(queue).from = c THEN "own" ELSE "other"

(* The buffer of a frame is only sent along if the consumer does not have  *)
(* it, and every client is the consumer: the read that follows may use a   *)
(* null pointer, as it does when there is no frame.                        *)
acquireBuffer(c) ==
  /\ queue # <<>> /\ Cardinality(InState("ACQUIRED")) < 2 /\ ~NoConsumer(c)
  /\ Call(c, "acquire")
  /\ queue' = Tail(queue)
  /\ slot' = [slot EXCEPT ![c] = Head(queue).slot]
  /\ got' = [got EXCEPT ![c] = Frame(c)]
  /\ slots' = IF Head(queue).stale THEN slots
              ELSE [slots EXCEPT ![Head(queue).slot].state = "ACQUIRED",
                                 ![Head(queue).slot].by = c,
                                 ![Head(queue).slot].sent = TRUE]
  /\ UNCHANGED <<CoreRest, queued>>
  /\ IF Head(queue).sent THEN Dies(c) ELSE Ok

(* acquireBuffer is the first use of the consumer: by then the client has  *)
(* queued a frame.                                                         *)
acquireBufferFails(c) ==
  /\ queue = <<>> \/ Cardinality(InState("ACQUIRED")) = 2 \/ NoConsumer(c)
  /\ Call(c, "acquire")
  /\ Dies(c)
  /\ UNCHANGED <<coreVars, Local>>

(* A slot that has another frame by now is left alone. *)
releaseBuffer(c) ==
  /\ Call(c, "release")
  /\ UNCHANGED Local
  /\ IF slots[slot[c]].state = "ACQUIRED" /\ slots[slot[c]].by = c
     THEN SetSlot(slot[c], "FREE", None) /\ UNCHANGED <<CoreRest, queue, queued>> /\ Ok
     ELSE Fails(c)

-----------------------------------------------------------------------------
(* The further calls of mytest2.                                           *)

cancelBuffer(c) ==
  /\ Call(c, "cancel")
  /\ UNCHANGED Local
  /\ IF Dequeued(c)
     THEN SetSlot(slot[c], "FREE", None) /\ UNCHANGED <<CoreRest, queue, queued>> /\ Ok
     ELSE Fails(c)

(* Into a slot without buffer, which then counts as requested and sent. *)
Attach(c, call, state) ==
  /\ Call(c, call)
  /\ \E i \in Preferred(FALSE) :
       /\ slot' = [slot EXCEPT ![c] = i]
       /\ slots' = [slots EXCEPT ![i] =
            [state |-> state, buffer |-> TRUE, asked |-> TRUE,
             sent |-> state = "ACQUIRED", by |-> c]]
  /\ UNCHANGED <<CoreRest, queue, queued, got>> /\ Ok

attachBuffer(c) == Attach(c, "attach", "DEQUEUED")
attachConsumerBuffer(c) == Attach(c, "attachConsumer", "ACQUIRED")

Detach(c, call, state) ==
  /\ Call(c, call)
  /\ UNCHANGED Local
  /\ IF slots[slot[c]].state = state /\ (state = "ACQUIRED" \/ slots[slot[c]].asked)
     THEN slots' = [slots EXCEPT ![slot[c]] = Cleared]
          /\ UNCHANGED <<CoreRest, queue, queued>> /\ Ok
     ELSE Fails(c)

detachBuffer(c) == Detach(c, "detach", "DEQUEUED")
detachConsumerBuffer(c) == Detach(c, "detachConsumer", "ACQUIRED")

discardFreeBuffers(c) ==
  /\ Call(c, "discard")
  /\ slots' = [i \in Slots |-> IF slots[i].state = "FREE" THEN Cleared ELSE slots[i]]
  /\ UNCHANGED <<CoreRest, queue, queued, Local>> /\ Ok

-----------------------------------------------------------------------------
(* The end of a client.                                                    *)

Ends(c) ==
  /\ Running(c)
  /\ todo' = [todo EXCEPT ![c] = <<>>]
  /\ slot' = [slot EXCEPT ![c] = 0] /\ got' = [got EXCEPT ![c] = "none"]
  /\ nulls' = nulls \ ({c} \X Services)
  /\ dead' = dead \ {c} /\ met' = met \ {c}
  /\ UNCHANGED failed
  /\ IF test = "mytest3"
     THEN /\ notice' = (notice \/ connected = c)
          /\ slots' = [i \in Slots |->
               [slots[i] EXCEPT !.by = IF slots[i].by = c THEN None ELSE @]]
          /\ UNCHANGED <<serverVars, consumer, connected, queue, queued>>
     ELSE /\ consumer' = FALSE /\ connected' = None /\ queued' = FALSE /\ queue' = <<>>
          /\ slots' = [i \in Slots |-> Cleared]
          /\ UNCHANGED <<serverVars, notice>>

return(c) == (At(c, "return") \/ c \in dead) /\ Ends(c)

(* Disconnects the producer: all slots are freed, the frames stay. *)
binderDied ==
  /\ notice /\ notice' = FALSE /\ connected' = None
  /\ slots' = [i \in Slots |-> Cleared]
  /\ queue' = [n \in DOMAIN queue |->
       [queue[n] EXCEPT !.stale = TRUE, !.sent = FALSE, !.from = None]]
  /\ UNCHANGED <<serverVars, consumer, queued, clientVars>>

Step(c) ==
  \/ Create(c)
  \/ ConsumerConnect(c)
  \/ GetProducer(c)
  \/ GetConsumer(c)
  \/ connectToNull(c)
  \/ connect(c)
  \/ dequeueBuffer(c)
  \/ dequeueBufferFails(c)
  \/ waitForFreeSlot(c)
  \/ waitForFreeSlotFails(c)
  \/ requestBuffer(c)
  \/ queueBuffer(c)
  \/ acquireBuffer(c)
  \/ acquireBufferFails(c)
  \/ releaseBuffer(c)
  \/ cancelBuffer(c)
  \/ attachBuffer(c)
  \/ attachConsumerBuffer(c)
  \/ detachBuffer(c)
  \/ detachConsumerBuffer(c)
  \/ discardFreeBuffers(c)
  \/ return(c)

Next ==
  \/ ServerStep
  \/ binderDied
  \/ \E c \in Clients : Start(c) \/ Step(c) \/ Ends(c)

Spec == Init /\ [][Next]_vars

(* Processes are scheduled and death notices delivered. *)
FairSpec ==
  /\ Spec
  /\ WF_vars(ServerStep) /\ WF_vars(binderDied)
  /\ \A c \in Clients : WF_vars(Step(c))

-----------------------------------------------------------------------------
(* Properties.                                                             *)

(* The type invariant of the queue and its clients. *)
TypeOK ==
  /\ test \in Tests /\ server \in Seq(Calls) /\ services \subseteq Services
  /\ consumer \in BOOLEAN /\ queued \in BOOLEAN
  /\ connected \in Clients \cup {None} /\ notice \in BOOLEAN
  /\ slots \in [Slots -> [state: SlotStates, buffer: BOOLEAN, asked: BOOLEAN, sent: BOOLEAN,
                          by: Clients \cup {None}]]
  /\ queue \in Seq([slot: Slots, from: Clients \cup {None}, sent: BOOLEAN, stale: BOOLEAN])
  /\ todo \in [Clients -> Seq(Calls)]
  /\ slot \in [Clients -> Slots]
  /\ got \in [Clients -> {"none", "own", "other", "stale"}]
  /\ nulls \subseteq Clients \X Services
  /\ dead \subseteq Clients /\ failed \in BOOLEAN /\ met \subseteq Clients

(* A client that meets no other one, and no death notice, reads the frame  *)
(* it has queued, or one that a client that ended too early has left       *)
(* behind.  It dies only for want of a service, and only in two places: in *)
(* connect without the producer, having done nothing, or in acquireBuffer  *)
(* without the consumer, having queued a frame.  Clients that ended before,*)
(* at any point, do it no other harm.                                      *)
AloneReadsOwn ==
  \A c \in Clients \ met :
    /\ c \in dead => \/ Head(todo[c]) = "dequeue" /\ NoProducer(c)
                     \/ Head(todo[c]) = "release" /\ NoConsumer(c)
    /\ got[c] # "other"

(* mytest and mytest2 may ignore the results of their calls: none fails.   *)
(* In mytest2 the slot of the second dequeue is the one whose buffer was   *)
(* requested after the first, or queueBuffer would refuse it.              *)
LocalCallsSucceed == test \in {"mytest", "mytest2"} => ~failed

(* When no more clients are started, dequeueBuffer returns to those that   *)
(* run, unless every slot waits in the queue or is held for a client that  *)
(* has ended, or clients that ended too early have left more frames than   *)
(* the queue has slots.  (While clients come and go they may take every    *)
(* slot before it.)                                                        *)
DequeueReturns ==
  <>[][\A c \in Clients : ~Start(c)]_vars =>
    \A c \in Clients :
      At(c, "wait") ~>
        \/ ~At(c, "wait")
        \/ TooManyQueued
        \/ \A i \in Slots : slots[i].state # "FREE" /\ slots[i].by = None
-----------------------------------------------------------------------------
(* The inductive invariant behind the safety properties.                   *)

Whole == Append(Program, "return")
Left(c) == Len(todo[c])

(* A client is somewhere in its program, or has left no trace. *)
InProgram ==
  \A c \in Clients :
    /\ Left(c) <= Len(Whole)
    /\ \A i \in 1 .. Left(c) : todo[c][i] = Whole[Len(Whole) - Left(c) + i]
    /\ ~Running(c) => c \notin dead \cup met /\ got[c] = "none"

(* In mytest3 the queue has its consumer before a service is registered,   *)
(* and it forgets, when it learns of the end of the client that was        *)
(* connected, whatever others have left in it.                             *)
Connection ==
  /\ \A m \in DOMAIN queue : queue[m].stale => ~queue[m].sent
  /\ connected # None => Running(connected) \/ notice
  /\ test = "mytest3" =>
       /\ Len(server) <= Len(mytest3_server)
       /\ \A i \in 1 .. Len(server) :
            server[i] = mytest3_server[Len(mytest3_server) - Len(server) + i]
       /\ consumer \/ (Len(server) > 2 /\ services = {})
       /\ connected = None =>
            /\ \A i \in Slots : slots[i].state # "ACQUIRED" /\ ~slots[i].sent
            /\ \A m \in DOMAIN queue : queue[m].stale

(* What a client of mytest or mytest3 that is alone finds before each of   *)
(* its calls; from "connect" on there are eight of them.                   *)
Progress(c) ==
  LET i == slot[c]
  IN
  /\ Left(c) <= (IF test = "mytest3" THEN 9 ELSE 8) => consumer \/ NoProducer(c)
  /\ connected = IF Left(c) >= 8 THEN None ELSE c
  /\ Left(c) \in 4 .. 7 => ~queued
  /\ Left(c) >= 4 => \A j \in Slots : ~slots[j].sent
  /\ Left(c) >= 3 =>
       /\ \A j \in Slots : slots[j].state # "ACQUIRED"
       /\ \A m \in DOMAIN queue : ~queue[m].sent /\ (queue[m].stale \/ queue[m].from = c)
  /\ Left(c) \in {4, 5} => slots[i].state = "DEQUEUED"
  /\ Left(c) = 4 => slots[i].asked
  /\ Left(c) = 3 => queue # <<>>

(* In mytest there are no frames but its own. *)
MytestQueue(c) ==
  /\ Left(c) >= 4 => queue = <<>>
  /\ Left(c) = 3 => Len(queue) = 1 /\ ~queue[1].stale
  /\ Left(c) = 2 => slots[slot[c]].state = "ACQUIRED" /\ slots[slot[c]].by = c

Filled(i, state, asked) ==
  slots[i].state = state /\ slots[i].buffer /\ slots[i].asked = asked /\ ~slots[i].sent

Only(i, state, asked) == Filled(i, state, asked) /\ slots[1 - i] = Cleared

(* The same for mytest2, of sixteen calls from "connect" on. *)
Mytest2Progress(c) ==
  LET i == slot[c]
  IN
  /\ Left(c) <= 16 => consumer
  /\ connected = IF Left(c) >= 16 THEN None ELSE c
  /\ Left(c) \in 7 .. 15 => ~queued
  /\ Left(c) >= 7 => queue = <<>>
  /\ Left(c) >= 14 => \A j \in Slots : slots[j] = Cleared
  /\ Left(c) = 13 => Only(i, "DEQUEUED", FALSE)
  /\ Left(c) = 12 => Only(i, "DEQUEUED", TRUE)
  /\ Left(c) = 11 => Only(i, "FREE", TRUE)
  /\ Left(c) = 10 =>
       /\ slots[i].state = "DEQUEUED" /\ slots[i].asked
       /\ Filled(1 - i, "FREE", TRUE)
  /\ Left(c) \in {8, 9} => \E j \in Slots : Only(j, "FREE", TRUE)
  /\ Left(c) = 7 => Only(i, "DEQUEUED", TRUE)
  /\ Left(c) = 6 =>
       /\ queue = <<[slot |-> i, from |-> c, sent |-> FALSE, stale |-> FALSE]>>
       /\ \A j \in Slots : slots[j].state # "ACQUIRED"
  /\ Left(c) = 5 => slots[i].state = "ACQUIRED" /\ slots[i].by = c
  /\ Left(c) = 3 => slots[i].state = "ACQUIRED"

(* A client that is alone dies in connect, after which it would have seven *)
(* calls left, or in acquireBuffer, which leaves two.                      *)
AloneInv ==
  \A c \in Clients : Running(c) /\ c \notin met =>
    /\ ~notice
    /\ \A d \in Clients : Running(d) => d = c
    /\ got[c] # "other"
    /\ c \in dead => \/ Left(c) = 7 /\ NoProducer(c)
                     \/ Left(c) = 2 /\ NoConsumer(c)
    /\ test # "mytest2" /\ c \notin dead => Progress(c)

LocalInv ==
  test # "mytest3" =>
    /\ server = <<>> /\ ~notice /\ ~failed /\ met = {} /\ nulls = {}
    /\ (\A c \in Clients : ~Running(c)) =>
         connected = None /\ queue = <<>> /\ \A i \in Slots : slots[i] = Cleared
    /\ \A c \in Clients : Running(c) =>
         /\ test = "mytest" => MytestQueue(c)
         /\ test = "mytest2" => Mytest2Progress(c)

IInv ==
  /\ TypeOK
  /\ InProgram
  /\ Connection
  /\ AloneInv
  /\ LocalInv

=============================================================================
