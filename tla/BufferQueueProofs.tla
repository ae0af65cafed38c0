------------------------- MODULE BufferQueueProofs --------------------------
(* Theorems about BufferQueue, for every number of clients. *)
EXTENDS BufferQueue, FiniteSetTheorems, SequenceTheorems, TLAPS

USE DEF serverVars, NoProducer, NoConsumer

-----------------------------------------------------------------------------
(* Where a client is in its program.                                       *)

LEMMA WholeMytest ==
  ASSUME test = "mytest"
  PROVE  /\ Len(Whole) = 10 /\ Whole \in Seq(Calls)
         /\ Whole[1] = "createBufferQueue" /\ Whole[2] = "consumerConnect"
         /\ Whole[3] = "connect" /\ Whole[4] = "dequeue" /\ Whole[5] = "wait"
         /\ Whole[6] = "request" /\ Whole[7] = "queue" /\ Whole[8] = "acquire"
         /\ Whole[9] = "release" /\ Whole[10] = "return"
<1>1. Whole = Append(mytest, "return")
  BY DEF Whole, Program
<1> QED
  BY <1>1, SMT DEF mytest, createBufferQueue, Calls

LEMMA WholeMytest3 ==
  ASSUME test = "mytest3"
  PROVE  /\ Len(Whole) = 10 /\ Whole \in Seq(Calls)
         /\ Whole[1] = "getProducer" /\ Whole[2] = "getConsumer" /\ Whole[3] = "connect"
         /\ Whole[4] = "dequeue" /\ Whole[5] = "wait" /\ Whole[6] = "request"
         /\ Whole[7] = "queue" /\ Whole[8] = "acquire" /\ Whole[9] = "release"
         /\ Whole[10] = "return"
<1>1. Whole = Append(mytest3_client, "return")
  BY DEF Whole, Program
<1> QED
  BY <1>1, SMT DEF mytest3_client, Calls

LEMMA WholeMytest2 ==
  ASSUME test = "mytest2"
  PROVE  /\ Len(Whole) = 18 /\ Whole \in Seq(Calls)
         /\ Whole[1] = "createBufferQueue" /\ Whole[2] = "consumerConnect"
         /\ Whole[3] = "connect" /\ Whole[4] = "dequeue" /\ Whole[5] = "wait"
         /\ Whole[6] = "request" /\ Whole[7] = "cancel" /\ Whole[8] = "attach"
         /\ Whole[9] = "detach" /\ Whole[10] = "dequeue" /\ Whole[11] = "wait"
         /\ Whole[12] = "queue" /\ Whole[13] = "acquire" /\ Whole[14] = "release"
         /\ Whole[15] = "attachConsumer" /\ Whole[16] = "detachConsumer"
         /\ Whole[17] = "discard" /\ Whole[18] = "return"
<1>1. Whole = Append(mytest2, "return")
  BY DEF Whole, Program
<1> QED
  BY <1>1, SMT DEF mytest2, createBufferQueue, Calls

(* How many calls are left before a call. *)
LeftAt(c, call) ==
  /\ test # "mytest2" =>
       \/ call = "createBufferQueue" /\ Left(c) = 10 /\ test = "mytest"
       \/ call = "consumerConnect" /\ Left(c) = 9 /\ test = "mytest"
       \/ call = "getProducer" /\ Left(c) = 10 /\ test = "mytest3"
       \/ call = "getConsumer" /\ Left(c) = 9 /\ test = "mytest3"
       \/ call = "connect" /\ Left(c) = 8
       \/ call = "dequeue" /\ Left(c) = 7
       \/ call = "wait" /\ Left(c) = 6
       \/ call = "request" /\ Left(c) = 5
       \/ call = "queue" /\ Left(c) = 4
       \/ call = "acquire" /\ Left(c) = 3
       \/ call = "release" /\ Left(c) = 2
       \/ call = "return" /\ Left(c) = 1
  /\ test = "mytest2" =>
       \/ call = "createBufferQueue" /\ Left(c) = 18
       \/ call = "consumerConnect" /\ Left(c) = 17
       \/ call = "connect" /\ Left(c) = 16
       \/ call = "dequeue" /\ Left(c) \in {9, 15}
       \/ call = "wait" /\ Left(c) \in {8, 14}
       \/ call = "request" /\ Left(c) = 13
       \/ call = "cancel" /\ Left(c) = 12
       \/ call = "attach" /\ Left(c) = 11
       \/ call = "detach" /\ Left(c) = 10
       \/ call = "queue" /\ Left(c) = 7
       \/ call = "acquire" /\ Left(c) = 6
       \/ call = "release" /\ Left(c) = 5
       \/ call = "attachConsumer" /\ Left(c) = 4
       \/ call = "detachConsumer" /\ Left(c) = 3
       \/ call = "discard" /\ Left(c) = 2
       \/ call = "return" /\ Left(c) = 1

LEMMA Place ==
  ASSUME TypeOK, InProgram, NEW c \in Clients, Running(c)
  PROVE  /\ todo[c] \in Seq(Calls) /\ Left(c) \in Nat \ {0}
         /\ LeftAt(c, Head(todo[c]))
<1>1. todo[c] \in Seq(Calls) /\ todo[c] # <<>>
  BY DEF TypeOK, Running
<1>2. Left(c) \in Nat \ {0} /\ Head(todo[c]) = todo[c][1]
  BY <1>1 DEF Left
<1>3. Left(c) <= Len(Whole) /\ Head(todo[c]) = Whole[Len(Whole) - Left(c) + 1]
  BY <1>2 DEF InProgram
<1>4. test \in {"mytest", "mytest2", "mytest3"}
  BY TestAssumption DEF TypeOK
<1> DEFINE n == Left(c)
           h == Head(todo[c])
           w == Whole
<1>5. n \in Nat \ {0} /\ n <= Len(w) /\ h = w[Len(w) - n + 1]
  BY <1>2, <1>3
<1> HIDE DEF n, h, w
<1>6. ASSUME test = "mytest"
      PROVE  LeftAt(c, h)
  <2>1. Len(w) = 10
    BY <1>6, WholeMytest DEF w
  <2>2. n \in 1 .. 10
    BY <1>5, <2>1
  <2>3. h = w[11 - n]
    BY <1>5, <2>1, <2>2
  <2>4. \/ n = 1 \/ n = 2 \/ n = 3 \/ n = 4 \/ n = 5 \/ n = 6 \/ n = 7 \/ n = 8 \/ n = 9
        \/ n = 10
    BY <2>2
  <2>5. LeftAt(c, h)
    BY <1>6, <2>3, <2>4, WholeMytest DEF LeftAt, n, w
  <2> QED
    BY <2>5
<1>7. ASSUME test = "mytest2"
      PROVE  LeftAt(c, h)
  <2>1. Len(w) = 18
    BY <1>7, WholeMytest2 DEF w
  <2>2. n \in 1 .. 18
    BY <1>5, <2>1
  <2>3. h = w[19 - n]
    BY <1>5, <2>1, <2>2
  <2>4. \/ n = 1 \/ n = 2 \/ n = 3 \/ n = 4 \/ n = 5 \/ n = 6 \/ n = 7 \/ n = 8 \/ n = 9
        \/ n = 10 \/ n = 11 \/ n = 12 \/ n = 13 \/ n = 14 \/ n = 15 \/ n = 16 \/ n = 17 \/ n = 18
    BY <2>2
  <2>5. LeftAt(c, h)
    BY <1>7, <2>3, <2>4, WholeMytest2 DEF LeftAt, n, w
  <2> QED
    BY <2>5
<1>8. ASSUME test = "mytest3"
      PROVE  LeftAt(c, h)
  <2>1. Len(w) = 10
    BY <1>8, WholeMytest3 DEF w
  <2>2. n \in 1 .. 10
    BY <1>5, <2>1
  <2>3. h = w[11 - n]
    BY <1>5, <2>1, <2>2
  <2>4. \/ n = 1 \/ n = 2 \/ n = 3 \/ n = 4 \/ n = 5 \/ n = 6 \/ n = 7 \/ n = 8 \/ n = 9
        \/ n = 10
    BY <2>2
  <2>5. LeftAt(c, h)
    BY <1>8, <2>3, <2>4, WholeMytest3 DEF LeftAt, n, w
  <2> QED
    BY <2>5
<1> QED
  BY <1>1, <1>2, <1>4, <1>6, <1>7, <1>8 DEF h

(* A call but the last leaves the client running. *)
LEMMA CallLeft ==
  ASSUME TypeOK, InProgram, NEW c \in Clients, NEW call, Call(c, call)
  PROVE  /\ Running(c) /\ c \notin dead /\ LeftAt(c, call) /\ UNCHANGED <<test, server, met>>
         /\ todo' \in [Clients -> Seq(Calls)]
         /\ Left(c) \in Nat \ {0} /\ Left(c)' = Left(c) - 1
         /\ \A i \in 1 .. Left(c)' : todo'[c][i] = todo[c][i + 1]
         /\ \A d \in Clients : d # c => todo'[d] = todo[d]
         /\ call # "return" => Running(c)'
<1>1. /\ Running(c) /\ c \notin dead /\ Head(todo[c]) = call /\ UNCHANGED <<test, server, met>>
      /\ todo' = [todo EXCEPT ![c] = Tail(@)]
  BY DEF Call, At
<1>2. todo \in [Clients -> Seq(Calls)] /\ todo[c] \in Seq(Calls) /\ todo[c] # <<>>
  BY <1>1, Place DEF TypeOK, Running
<1>3. todo'[c] = Tail(todo[c]) /\ \A d \in Clients : d # c => todo'[d] = todo[d]
  BY <1>1, <1>2
<1>4. /\ Tail(todo[c]) \in Seq(Calls) /\ Len(Tail(todo[c])) = Len(todo[c]) - 1
      /\ \A i \in 1 .. Len(Tail(todo[c])) : Tail(todo[c])[i] = todo[c][i + 1]
  BY <1>2
<1>5. todo' \in [Clients -> Seq(Calls)]
  BY <1>1, <1>2, <1>4
<1>6. LeftAt(c, call) /\ Left(c) \in Nat \ {0}
  BY <1>1, Place
<1>7. Left(c)' = Left(c) - 1 /\ \A i \in 1 .. Left(c)' : todo'[c][i] = todo[c][i + 1]
  BY <1>3, <1>4 DEF Left
<1>8. call # "return" => Running(c)'
  <2>1. call # "return" => Left(c) > 1
    BY <1>6 DEF LeftAt
  <2>2. Left(c)' = 0 <=> todo'[c] = <<>>
    <3>1. Left(c)' = Len(Tail(todo[c])) /\ todo'[c] = Tail(todo[c])
      BY <1>3 DEF Left
    <3>2. \A s \in Seq(Calls) : Len(s) = 0 <=> s = <<>>
      OBVIOUS
    <3> QED
      BY <1>4, <3>1, <3>2
  <2> QED
    BY <1>6, <1>7, <2>1, <2>2 DEF Running
<1> QED
  BY <1>1, <1>3, <1>5, <1>6, <1>7, <1>8

(* What a step does to the clients: nothing; a call, by one of them; or it *)
(* gives up a dequeue, starts or ends one.                                 *)
NoCall == UNCHANGED <<test, todo, dead, met, got, slot>>

ACall(c, call) ==
  /\ Call(c, call) /\ call # "return"
  /\ dead' = dead \/ dead' = dead \cup {c}
  /\ \A d \in Clients : d # c => got'[d] = got[d] /\ slot'[d] = slot[d]

LEMMA Kinds ==
  ASSUME TypeOK, [Next]_vars
  PROVE  \/ NoCall
         \/ \E c \in Clients, call \in Calls : ACall(c, call)
         \/ \E c \in Clients : dequeueBufferFails(c) \/ Start(c) \/ Ends(c)
<1> USE DEF Ok, Fails, Dies, Local
<1> slot \in [Clients -> Slots] /\ got \in [Clients -> {"none", "own", "other", "stale"}]
  BY DEF TypeOK
<1>1. ASSUME NEW c \in Clients,
             \/ Create(c) \/ ConsumerConnect(c) \/ GetProducer(c) \/ GetConsumer(c)
             \/ connectToNull(c) \/ connect(c) \/ dequeueBuffer(c) \/ waitForFreeSlot(c)
             \/ waitForFreeSlotFails(c)
      PROVE  \E call \in Calls : ACall(c, call)
  BY <1>1
  DEF Create, ConsumerConnect, GetProducer, GetConsumer, getService, connectToNull, connect,
      dequeueBuffer, waitForFreeSlot, waitForFreeSlotFails, NoSlot, ACall, Calls, coreVars
<1>2. ASSUME NEW c \in Clients,
             \/ requestBuffer(c) \/ queueBuffer(c) \/ releaseBuffer(c) \/ cancelBuffer(c)
             \/ detachBuffer(c) \/ detachConsumerBuffer(c)
      PROVE  \E call \in Calls : ACall(c, call)
  BY <1>2
  DEF requestBuffer, queueBuffer, releaseBuffer, cancelBuffer, detachBuffer,
      detachConsumerBuffer, Detach, ACall, Calls, coreVars
<1>3. ASSUME NEW c \in Clients,
             \/ acquireBuffer(c) \/ acquireBufferFails(c) \/ attachBuffer(c)
             \/ attachConsumerBuffer(c) \/ discardFreeBuffers(c)
      PROVE  \E call \in Calls : ACall(c, call)
  BY <1>3
  DEF acquireBuffer, acquireBufferFails, attachBuffer, attachConsumerBuffer, Attach,
      discardFreeBuffers, ACall, Calls, coreVars
<1>4. ASSUME ServerStep \/ binderDied \/ UNCHANGED vars
      PROVE  NoCall
  BY <1>4 DEF ServerStep, binderDied, vars, clientVars, NoCall
<1>5. ASSUME NEW c \in Clients, Step(c)
      PROVE  \/ \E call \in Calls : ACall(c, call)
             \/ dequeueBufferFails(c) \/ Ends(c)
  BY <1>1, <1>2, <1>3, <1>5 DEF Step, return
<1> QED
  BY <1>4, <1>5 DEF Next

(* A failed dequeue passes over the wait. *)
LEMMA FailsLeft ==
  ASSUME TypeOK, InProgram, NEW c \in Clients, dequeueBufferFails(c)
  PROVE  /\ Running(c) /\ c \notin dead /\ LeftAt(c, "dequeue") /\ connected = None
         /\ UNCHANGED <<test, server, met, dead, got, coreVars>>
         /\ todo' \in [Clients -> Seq(Calls)] /\ slot' = [slot EXCEPT ![c] = 0]
         /\ Left(c) \in Nat \ {0} /\ Left(c)' = Left(c) - 2
         /\ \A i \in 1 .. Left(c)' : todo'[c][i] = todo[c][i + 2]
         /\ \A d \in Clients : d # c => todo'[d] = todo[d]
         /\ Running(c)'
<1>1. /\ Running(c) /\ c \notin dead /\ Head(todo[c]) = "dequeue"
      /\ UNCHANGED <<test, server, met, dead, got, coreVars>> /\ connected = None
      /\ todo' = [todo EXCEPT ![c] = Tail(Tail(@))] /\ slot' = [slot EXCEPT ![c] = 0]
  BY DEF dequeueBufferFails, At, NoSlot, Fails
<1>2. todo \in [Clients -> Seq(Calls)] /\ todo[c] \in Seq(Calls) /\ todo[c] # <<>>
  BY <1>1, Place DEF TypeOK, Running
<1>3. LeftAt(c, "dequeue") /\ Left(c) \in Nat \ {0} /\ Left(c) >= 7
  <2>1. LeftAt(c, "dequeue") /\ Left(c) \in Nat \ {0}
    BY <1>1, Place
  <2> QED
    BY <2>1 DEF LeftAt
<1> DEFINE s == todo[c]
           t == Tail(s)
<1>4. s \in Seq(Calls) /\ Len(s) \in Nat /\ Len(s) >= 7
  BY <1>2, <1>3 DEF Left
<1> HIDE DEF s
<1>5. t \in Seq(Calls) /\ Len(t) = Len(s) - 1 /\ \A i \in 1 .. Len(t) : t[i] = s[i + 1]
  BY <1>4
<1> HIDE DEF t
<1>6. t # <<>>
  BY <1>4, <1>5
<1>7. /\ Tail(t) \in Seq(Calls) /\ Len(Tail(t)) = Len(t) - 1
      /\ \A i \in 1 .. Len(Tail(t)) : Tail(t)[i] = t[i + 1]
  BY <1>5, <1>6
<1>8. Len(Tail(t)) = Len(s) - 2 /\ \A i \in 1 .. Len(Tail(t)) : Tail(t)[i] = s[i + 2]
  <2>1. Len(Tail(t)) = Len(s) - 2
    BY <1>4, <1>5, <1>7
  <2>2. ASSUME NEW i \in 1 .. Len(Tail(t))
        PROVE  Tail(t)[i] = s[i + 2]
    <3>1. i + 1 \in 1 .. Len(t) /\ (i + 1) + 1 = i + 2
      BY <1>4, <1>5, <1>7, <2>2
    <3> QED
      BY <1>5, <1>7, <3>1
  <2> QED
    BY <2>1, <2>2
<1>9. todo'[c] = Tail(t) /\ \A d \in Clients : d # c => todo'[d] = todo[d]
  BY <1>1, <1>2 DEF s, t
<1>10. todo' \in [Clients -> Seq(Calls)]
  BY <1>1, <1>2, <1>7 DEF s, t
<1>11. Left(c)' = Left(c) - 2 /\ \A i \in 1 .. Left(c)' : todo'[c][i] = todo[c][i + 2]
  BY <1>8, <1>9 DEF Left, s
<1>12. Running(c)'
  <2> DEFINE u == Tail(t)
  <2>1. u \in Seq(Calls) /\ Len(u) = Len(s) - 2 /\ todo'[c] = u
    BY <1>7, <1>8, <1>9
  <2> HIDE DEF u
  <2>2. Len(u) # 0
    BY <1>4, <2>1
  <2>3. u # <<>>
    BY <2>1, <2>2
  <2> QED
    BY <2>1, <2>3 DEF Running
<1> QED
  BY <1>1, <1>3, <1>9, <1>10, <1>11, <1>12

LEMMA WholeIs == TypeOK => Whole \in Seq(Calls) /\ Len(Whole) \in 10 .. 18
BY TestAssumption, WholeMytest, WholeMytest2, WholeMytest3 DEF TypeOK

LEMMA TodoStep ==
  ASSUME TypeOK, InProgram, [Next]_vars
  PROVE  todo' \in [Clients -> Seq(Calls)] /\ test' = test /\ Whole' = Whole
<1> todo \in [Clients -> Seq(Calls)]
  BY DEF TypeOK
<1>1. CASE NoCall
  BY <1>1 DEF NoCall, Whole, Program
<1>2. ASSUME NEW c \in Clients, NEW call \in Calls, ACall(c, call)
      PROVE  todo' \in [Clients -> Seq(Calls)] /\ test' = test
  BY <1>2, CallLeft DEF ACall
<1>3. ASSUME NEW c \in Clients, dequeueBufferFails(c)
      PROVE  todo' \in [Clients -> Seq(Calls)] /\ test' = test
  BY <1>3, FailsLeft
<1>4. ASSUME NEW c \in Clients, Start(c)
      PROVE  todo' \in [Clients -> Seq(Calls)] /\ test' = test
  BY <1>4, WholeIs DEF Start, Whole
<1>5. ASSUME NEW c \in Clients, Ends(c)
      PROVE  todo' \in [Clients -> Seq(Calls)] /\ test' = test
  <2>1. <<>> \in Seq(Calls)
    OBVIOUS
  <2> QED
    BY <1>5, <2>1 DEF Ends
<1>6. todo' \in [Clients -> Seq(Calls)] /\ test' = test
  BY <1>1, <1>2, <1>3, <1>4, <1>5, Kinds
<1> QED
  BY <1>6 DEF Whole, Program

InPlace(c) ==
  /\ Left(c) <= Len(Whole)
  /\ \A i \in 1 .. Left(c) : todo[c][i] = Whole[Len(Whole) - Left(c) + i]
  /\ ~Running(c) => c \notin dead \cup met /\ got[c] = "none"

LEMMA ProgramStep ==
  ASSUME TypeOK, InProgram, [Next]_vars
  PROVE  InProgram'
<1>0. /\ Whole' = Whole /\ test' = test /\ Len(Whole) \in Nat /\ todo \in [Clients -> Seq(Calls)]
      /\ slot \in [Clients -> Slots] /\ got \in [Clients -> {"none", "own", "other", "stale"}]
  BY TodoStep, WholeIs DEF TypeOK
<1>1. \A d \in Clients : InPlace(d) /\ Left(d) \in Nat
  BY <1>0 DEF InProgram, InPlace, Left
<1>2. ASSUME NEW d \in Clients, todo'[d] = todo[d], got'[d] = got[d],
             ~Running(d) => (d \in dead' => d \in dead) /\ (d \in met' => d \in met)
      PROVE  InPlace(d)'
  BY <1>0, <1>1, <1>2 DEF InPlace, Left, Running
<1>3. ASSUME NEW d \in Clients, NEW k \in Nat \ {0}, Left(d)' = Left(d) - k, Left(d)' \in Nat,
             \A i \in 1 .. Left(d)' : todo'[d][i] = todo[d][i + k], Running(d)'
      PROVE  InPlace(d)'
  <2>1. Left(d)' <= Len(Whole)
    BY <1>0, <1>1, <1>3 DEF InPlace
  <2>2. ASSUME NEW i \in 1 .. Left(d)'
        PROVE  todo'[d][i] = Whole[Len(Whole) - Left(d)' + i]
    <3>1. i + k \in 1 .. Left(d) /\ Len(Whole) - Left(d) + (i + k) = Len(Whole) - Left(d)' + i
      BY <1>0, <1>1, <1>3, <2>2
    <3>2. todo[d][i + k] = Whole[Len(Whole) - Left(d) + (i + k)]
      BY <1>1, <3>1 DEF InPlace
    <3> QED
      BY <1>3, <2>2, <3>1, <3>2
  <2> QED
    BY <1>0, <1>3, <2>1, <2>2 DEF InPlace
<1>4. ASSUME NEW c \in Clients, NEW call \in Calls, ACall(c, call), NEW d \in Clients
      PROVE  InPlace(d)'
  <2>1. /\ Left(c) \in Nat \ {0} /\ Left(c)' = Left(c) - 1 /\ Running(c)'
        /\ \A i \in 1 .. Left(c)' : todo'[c][i] = todo[c][i + 1]
        /\ \A e \in Clients : e # c => todo'[e] = todo[e]
        /\ met' = met
    BY <1>4, CallLeft DEF ACall
  <2>2. CASE d = c
    BY <2>1, <2>2, <1>3
  <2>3. CASE d # c
    BY <1>2, <1>4, <2>1, <2>3 DEF ACall
  <2> QED
    BY <2>2, <2>3
<1>5. ASSUME NEW c \in Clients, dequeueBufferFails(c), NEW d \in Clients
      PROVE  InPlace(d)'
  <2>1. /\ Left(c) \in Nat \ {0} /\ Left(c)' = Left(c) - 2 /\ Running(c)'
        /\ \A i \in 1 .. Left(c)' : todo'[c][i] = todo[c][i + 2]
        /\ \A e \in Clients : e # c => todo'[e] = todo[e]
        /\ UNCHANGED <<met, dead, got>> /\ Left(c)' \in Nat
    <3>1. todo' \in [Clients -> Seq(Calls)]
      BY TodoStep
    <3>2. Left(c)' \in Nat
      BY <3>1 DEF Left
    <3> QED
      BY <1>5, <3>2, FailsLeft
  <2>2. CASE d = c
    BY <2>1, <2>2, <1>3
  <2>3. CASE d # c
    BY <1>2, <2>1, <2>3
  <2> QED
    BY <2>2, <2>3
<1>6. ASSUME NEW c \in Clients, Start(c), NEW d \in Clients
      PROVE  InPlace(d)'
  <2>1. /\ todo' = [todo EXCEPT ![c] = Whole] /\ UNCHANGED <<got, dead>>
        /\ \A e \in met' \ met : e = c \/ Running(e)
    BY <1>6 DEF Start, clientVars, Whole
  <2>2. CASE d = c
    <3>1. todo'[d] = Whole
      BY <1>0, <2>1, <2>2
    <3>2. Whole # <<>>
      <4> DEFINE n == Len(Whole)
      <4>1. n \in 10 .. 18
        BY WholeIs
      <4> HIDE DEF n
      <4>2. n # 0
        BY <4>1
      <4> QED
        BY <4>2 DEF n
    <3>3. Left(d)' = Len(Whole) /\ Running(d)'
      BY <3>1, <3>2 DEF Left, Running
    <3>4. \A i \in 1 .. Len(Whole) : Whole[i] = Whole[Len(Whole) - Len(Whole) + i]
      BY <1>0
    <3> QED
      BY <1>0, <3>1, <3>3, <3>4 DEF InPlace
  <2>3. CASE d # c
    <3>1. todo'[d] = todo[d]
      BY <1>0, <2>1, <2>3
    <3> QED
      BY <1>2, <2>1, <2>3, <3>1
  <2> QED
    BY <2>2, <2>3
<1>7. ASSUME NEW c \in Clients, Ends(c), NEW d \in Clients
      PROVE  InPlace(d)'
  <2>1. /\ todo' = [todo EXCEPT ![c] = <<>>] /\ got' = [got EXCEPT ![c] = "none"]
        /\ dead' = dead \ {c} /\ met' = met \ {c}
    BY <1>7 DEF Ends
  <2>2. CASE d = c
    <3>1. todo'[d] = <<>> /\ got'[d] = "none" /\ d \notin dead' \cup met'
      BY <1>0, <2>1, <2>2
    <3>2. Left(d)' = 0
      BY <3>1 DEF Left
    <3> QED
      BY <1>0, <3>1, <3>2 DEF InPlace
  <2>3. CASE d # c
    <3>1. todo'[d] = todo[d] /\ got'[d] = got[d]
      BY <1>0, <2>1, <2>3
    <3> QED
      BY <1>2, <2>1, <3>1
  <2> QED
    BY <2>2, <2>3
<1>8. ASSUME NoCall, NEW d \in Clients
      PROVE  InPlace(d)'
  BY <1>2, <1>8 DEF NoCall
<1>9. \A d \in Clients : InPlace(d)'
  BY <1>4, <1>5, <1>6, <1>7, <1>8, Kinds
<1> QED
  BY <1>9 DEF InPlace, InProgram

-----------------------------------------------------------------------------
(* Types.                                                                  *)

SlotType ==
  [state: SlotStates, buffer: BOOLEAN, asked: BOOLEAN, sent: BOOLEAN, by: Clients \cup {None}]

FrameType == [slot: Slots, from: Clients \cup {None}, sent: BOOLEAN, stale: BOOLEAN]

CoreType ==
  /\ consumer \in BOOLEAN /\ queued \in BOOLEAN
  /\ connected \in Clients \cup {None} /\ notice \in BOOLEAN
  /\ slots \in [Slots -> SlotType] /\ queue \in Seq(FrameType)

ClientType ==
  /\ slot \in [Clients -> Slots] /\ got \in [Clients -> {"none", "own", "other", "stale"}]
  /\ nulls \subseteq Clients \X Services
  /\ dead \subseteq Clients /\ failed \in BOOLEAN /\ met \subseteq Clients

LEMMA TypeParts ==
  TypeOK <=> /\ test \in Tests /\ server \in Seq(Calls) /\ services \subseteq Services
             /\ todo \in [Clients -> Seq(Calls)]
             /\ CoreType /\ ClientType
BY DEF TypeOK, CoreType, ClientType, SlotType, FrameType

LEMMA TypePartsNext ==
  /\ test' \in Tests /\ server' \in Seq(Calls) /\ services' \subseteq Services
  /\ todo' \in [Clients -> Seq(Calls)] /\ CoreType' /\ ClientType'
  => TypeOK'
BY DEF TypeOK, CoreType, ClientType, SlotType, FrameType

(* What becomes of the slots. *)
OtherSlotsStay(i) == \A j \in Slots : j # i => slots'[j] = slots[j]

LEMMA SetSlotEffect ==
  ASSUME CoreType, NEW i \in Slots, NEW state \in SlotStates, NEW c \in Clients \cup {None},
         SetSlot(i, state, c)
  PROVE  /\ slots' \in [Slots -> SlotType] /\ OtherSlotsStay(i)
         /\ slots'[i].state = state /\ slots'[i].by = c
         /\ slots'[i].buffer = slots[i].buffer /\ slots'[i].asked = slots[i].asked
         /\ slots'[i].sent = slots[i].sent
<1>1. slots \in [Slots -> SlotType] /\ slots[i] \in SlotType
  BY DEF CoreType
<1> DEFINE r == [slots[i] EXCEPT !.state = state, !.by = c]
<1>2. /\ r \in SlotType /\ r.state = state /\ r.by = c
      /\ r.buffer = slots[i].buffer /\ r.asked = slots[i].asked /\ r.sent = slots[i].sent
  BY <1>1 DEF SlotType
<1>3. slots' = [slots EXCEPT ![i] = r]
  BY <1>1 DEF SetSlot, SlotType
<1> HIDE DEF r
<1> QED
  BY <1>1, <1>2, <1>3 DEF OtherSlotsStay

LEMMA WaitEffect ==
  ASSUME CoreType, NEW i \in Slots, NEW c \in Clients,
         slots' = [slots EXCEPT ![i] =
           [(IF @.buffer THEN @ ELSE Cleared)
              EXCEPT !.state = "DEQUEUED", !.by = c, !.buffer = TRUE]]
  PROVE  /\ slots' \in [Slots -> SlotType] /\ OtherSlotsStay(i)
         /\ slots'[i].state = "DEQUEUED" /\ slots'[i].by = c /\ slots'[i].buffer
         /\ IF slots[i].buffer
            THEN slots'[i].asked = slots[i].asked /\ slots'[i].sent = slots[i].sent
            ELSE ~slots'[i].asked /\ ~slots'[i].sent
<1>1. slots \in [Slots -> SlotType] /\ slots[i] \in SlotType
  BY DEF CoreType
<1> DEFINE q == IF slots[i].buffer THEN slots[i] ELSE Cleared
           r == [q EXCEPT !.state = "DEQUEUED", !.by = c, !.buffer = TRUE]
<1>2. Cleared \in SlotType /\ ~Cleared.asked /\ ~Cleared.sent
  BY DEF Cleared, SlotType, SlotStates
<1>3. q \in SlotType
  BY <1>1, <1>2
<1>4. /\ slots[i].buffer => q.asked = slots[i].asked /\ q.sent = slots[i].sent
      /\ ~slots[i].buffer => ~q.asked /\ ~q.sent
  BY <1>2
<1>5. slots' = [slots EXCEPT ![i] = r]
  BY <1>1
<1> HIDE DEF q
<1>6. /\ r \in SlotType /\ r.state = "DEQUEUED" /\ r.by = c /\ r.buffer
      /\ r.asked = q.asked /\ r.sent = q.sent
  BY <1>3 DEF SlotType, SlotStates
<1> HIDE DEF r
<1> QED
  BY <1>1, <1>4, <1>5, <1>6 DEF OtherSlotsStay

LEMMA RequestEffect ==
  ASSUME CoreType, NEW i \in Slots, slots' = [slots EXCEPT ![i].asked = TRUE]
  PROVE  /\ slots' \in [Slots -> SlotType] /\ OtherSlotsStay(i)
         /\ slots'[i].state = slots[i].state /\ slots'[i].by = slots[i].by
         /\ slots'[i].buffer = slots[i].buffer /\ slots'[i].asked
         /\ slots'[i].sent = slots[i].sent
<1>1. slots \in [Slots -> SlotType] /\ slots[i] \in SlotType
  BY DEF CoreType
<1> DEFINE r == [slots[i] EXCEPT !.asked = TRUE]
<1>2. /\ r \in SlotType /\ r.state = slots[i].state /\ r.by = slots[i].by
      /\ r.buffer = slots[i].buffer /\ r.asked /\ r.sent = slots[i].sent
  BY <1>1 DEF SlotType
<1>3. slots' = [slots EXCEPT ![i] = r]
  BY <1>1 DEF SlotType
<1> HIDE DEF r
<1> QED
  BY <1>1, <1>2, <1>3 DEF OtherSlotsStay

LEMMA AcquireEffect ==
  ASSUME CoreType, NEW i \in Slots, NEW c \in Clients,
         slots' = [slots EXCEPT ![i].state = "ACQUIRED", ![i].by = c, ![i].sent = TRUE]
  PROVE  /\ slots' \in [Slots -> SlotType] /\ OtherSlotsStay(i)
         /\ slots'[i].state = "ACQUIRED" /\ slots'[i].by = c /\ slots'[i].sent
<1>1. slots \in [Slots -> SlotType] /\ slots[i] \in SlotType
  BY DEF CoreType
<1> DEFINE r == [slots[i] EXCEPT !.state = "ACQUIRED", !.by = c, !.sent = TRUE]
<1>2. r \in SlotType /\ r.state = "ACQUIRED" /\ r.by = c /\ r.sent
  BY <1>1 DEF SlotType, SlotStates
<1>3. slots' = [slots EXCEPT ![i] = r]
  BY <1>1 DEF SlotType
<1> HIDE DEF r
<1> QED
  BY <1>1, <1>2, <1>3 DEF OtherSlotsStay

LEMMA AttachEffect ==
  ASSUME CoreType, NEW i \in Slots, NEW c \in Clients, NEW state \in SlotStates,
         slots' = [slots EXCEPT ![i] =
           [state |-> state, buffer |-> TRUE, asked |-> TRUE,
            sent |-> state = "ACQUIRED", by |-> c]]
  PROVE  /\ slots' \in [Slots -> SlotType] /\ OtherSlotsStay(i)
         /\ slots'[i].state = state /\ slots'[i].asked
<1>1. slots \in [Slots -> SlotType]
  BY DEF CoreType
<1> DEFINE r == [state |-> state, buffer |-> TRUE, asked |-> TRUE,
                 sent |-> state = "ACQUIRED", by |-> c]
<1>2. r \in SlotType /\ r.state = state /\ r.asked
  BY DEF SlotType, SlotStates
<1> HIDE DEF r
<1>3. slots' = [slots EXCEPT ![i] = r]
  BY DEF r
<1> QED
  BY <1>1, <1>2, <1>3 DEF OtherSlotsStay

LEMMA ClearEffect ==
  ASSUME CoreType, NEW i \in Slots, slots' = [slots EXCEPT ![i] = Cleared]
  PROVE  slots' \in [Slots -> SlotType] /\ OtherSlotsStay(i) /\ slots'[i] = Cleared
<1>1. slots \in [Slots -> SlotType] /\ Cleared \in SlotType
  BY DEF CoreType, Cleared, SlotType, SlotStates
<1> HIDE DEF Cleared
<1> QED
  BY <1>1 DEF OtherSlotsStay

LEMMA FirstFrame ==
  ASSUME CoreType, queue # <<>>
  PROVE  /\ Head(queue) \in FrameType /\ Tail(queue) \in Seq(FrameType)
         /\ Head(queue) = queue[1] /\ 1 \in DOMAIN queue
         /\ \A m \in DOMAIN Tail(queue) : m + 1 \in DOMAIN queue /\ Tail(queue)[m] = queue[m + 1]
         /\ Len(queue) = 1 => Tail(queue) = <<>>
<1> DEFINE q == queue
<1>1. q \in Seq(FrameType) /\ q # <<>>
  BY DEF CoreType
<1> HIDE DEF q
<1>2. /\ Head(q) \in FrameType /\ Tail(q) \in Seq(FrameType) /\ Head(q) = q[1]
      /\ Len(q) \in Nat \ {0} /\ DOMAIN q = 1 .. Len(q)
      /\ Len(Tail(q)) = Len(q) - 1 /\ DOMAIN Tail(q) = 1 .. Len(Tail(q))
      /\ \A m \in 1 .. Len(Tail(q)) : Tail(q)[m] = q[m + 1]
  BY <1>1
<1>3. \A t \in Seq(FrameType) : Len(t) = 0 => t = <<>>
  OBVIOUS
<1>4. Len(q) = 1 => Len(Tail(q)) = 0
  BY <1>2
<1> QED
  BY <1>2, <1>3, <1>4 DEF q

CoreAndClientType == CoreType' /\ ClientType'

LEMMA FrameSeq ==
  ASSUME NEW q \in Seq(FrameType)
  PROVE  Len(q) \in Nat /\ DOMAIN q = 1 .. Len(q) /\ \A n \in 1 .. Len(q) : q[n] \in FrameType
OBVIOUS

LEMMA FramesGoStale ==
  ASSUME CoreType,
         queue' = [n \in DOMAIN queue |->
           [queue[n] EXCEPT !.stale = TRUE, !.sent = FALSE, !.from = None]]
  PROVE  /\ queue' \in Seq(FrameType) /\ DOMAIN queue' = DOMAIN queue
         /\ \A m \in DOMAIN queue' : queue'[m].stale /\ ~queue'[m].sent
<1> DEFINE q == queue
           f(n) == [q[n] EXCEPT !.stale = TRUE, !.sent = FALSE, !.from = None]
           N == Len(q)
<1>1. q \in Seq(FrameType)
  BY DEF CoreType
<1>2. queue' = [n \in DOMAIN q |-> f(n)]
  OBVIOUS
<1> HIDE DEF q
<1>3. N \in Nat /\ DOMAIN q = 1 .. N /\ \A n \in 1 .. N : q[n] \in FrameType
  BY <1>1, FrameSeq
<1>4. \A r \in FrameType :
        LET g == [r EXCEPT !.stale = TRUE, !.sent = FALSE, !.from = None]
        IN g \in FrameType /\ g.stale /\ ~g.sent
  BY DEF FrameType
<1>5. \A n \in 1 .. N : f(n) \in FrameType /\ f(n).stale /\ ~f(n).sent
  BY <1>3, <1>4
<1> HIDE DEF f, N
<1>6. queue' = [n \in 1 .. N |-> f(n)]
  BY <1>2, <1>3
<1>7. queue' \in [1 .. N -> FrameType]
  BY <1>5, <1>6
<1>8. queue' \in Seq(FrameType)
  BY <1>3, <1>7, SeqDef
<1>9. DOMAIN queue' = DOMAIN q /\ \A m \in DOMAIN queue' : queue'[m] = f(m)
  BY <1>3, <1>6
<1>10. \A m \in DOMAIN queue' : queue'[m].stale /\ ~queue'[m].sent
  <2> SUFFICES ASSUME NEW m \in DOMAIN queue' PROVE queue'[m].stale /\ ~queue'[m].sent
    OBVIOUS
  <2>1. m \in 1 .. N /\ queue'[m] = f(m)
    BY <1>3, <1>9
  <2>2. f(m).stale /\ ~f(m).sent
    BY <1>5, <2>1
  <2> QED
    BY <2>1, <2>2
<1>11. DOMAIN queue' = DOMAIN queue
  BY <1>9 DEF q
<1> QED
  BY <1>8, <1>10, <1>11

LEMMA CallTypes ==
  ASSUME TypeOK, InProgram, NEW c \in Clients,
         \/ Create(c) \/ ConsumerConnect(c) \/ GetProducer(c) \/ GetConsumer(c)
         \/ connectToNull(c) \/ connect(c) \/ dequeueBuffer(c) \/ dequeueBufferFails(c)
         \/ waitForFreeSlotFails(c) \/ acquireBufferFails(c)
  PROVE  CoreAndClientType
<1> CoreType /\ ClientType /\ 0 \in Slots
  BY TypeParts DEF Slots
<1> USE DEF Ok, Fails, Dies, Failed, NoSlot, Local, Call, CoreAndClientType, CoreType, ClientType,
            coreVars
<1>1. CASE Create(c) \/ ConsumerConnect(c)
  BY <1>1 DEF Create, ConsumerConnect
<1>2. CASE connectToNull(c) \/ acquireBufferFails(c)
  BY <1>2 DEF connectToNull, acquireBufferFails
<1>3. CASE connect(c)
  BY <1>3 DEF connect
<1>4. CASE dequeueBuffer(c) \/ dequeueBufferFails(c) \/ waitForFreeSlotFails(c)
  BY <1>4 DEF dequeueBuffer, dequeueBufferFails, waitForFreeSlotFails
<1>5. ASSUME NEW call, NEW service \in Services, getService(c, call, service)
      PROVE  CoreAndClientType
  <2>1. nulls' \subseteq Clients \X Services
    BY <1>5 DEF getService
  <2> QED
    BY <1>5, <2>1 DEF getService
<1>6. CASE GetProducer(c) \/ GetConsumer(c)
  BY <1>5, <1>6 DEF GetProducer, GetConsumer, Services
<1> QED
  BY <1>1, <1>2, <1>3, <1>4, <1>6

LEMMA SlotCallTypes ==
  ASSUME TypeOK, InProgram, NEW c \in Clients,
         \/ requestBuffer(c) \/ queueBuffer(c) \/ releaseBuffer(c) \/ cancelBuffer(c)
         \/ detachBuffer(c) \/ detachConsumerBuffer(c) \/ discardFreeBuffers(c)
         \/ waitForFreeSlot(c) \/ attachBuffer(c) \/ attachConsumerBuffer(c)
  PROVE  CoreAndClientType
<1> CoreType /\ ClientType
  BY TypeParts
<1>1. slot[c] \in Slots
  BY DEF ClientType
<1>2. ASSUME slots' \in [Slots -> SlotType], queue' \in Seq(FrameType),
             UNCHANGED <<CoreRest, Local, nulls, dead, met>>, queued' \in BOOLEAN,
             failed' \in BOOLEAN
      PROVE  CoreAndClientType
  BY <1>2 DEF CoreAndClientType, CoreType, ClientType, CoreRest, Local
<1>3. ASSUME UNCHANGED <<coreVars, Local, nulls, met>>, failed' \in BOOLEAN,
             dead' = dead \/ dead' = dead \cup {c}
      PROVE  CoreAndClientType
  BY <1>3 DEF CoreAndClientType, CoreType, ClientType, coreVars, Local
<1>4. Failed => failed' \in BOOLEAN /\ nulls' = nulls
  BY DEF Failed, ClientType
<1>5. queue \in Seq(FrameType) /\ queued \in BOOLEAN /\ failed \in BOOLEAN
  BY DEF CoreType, ClientType
<1>6. \A state \in {"FREE", "QUEUED"} :
        SetSlot(slot[c], state, None) => slots' \in [Slots -> SlotType]
  BY <1>1, SetSlotEffect DEF SlotStates
<1>7. CASE requestBuffer(c)
  BY <1>1, <1>2, <1>3, <1>4, <1>5, <1>7, RequestEffect DEF requestBuffer, Ok, Dies, Call
<1>8. CASE queueBuffer(c)
  <2>1. [slot |-> slot[c], from |-> c, sent |-> slots[slot[c]].sent, stale |-> FALSE] \in FrameType
    BY <1>1 DEF CoreType, SlotType, FrameType
  <2>2. queue' = Append(queue, [slot |-> slot[c], from |-> c, sent |-> slots[slot[c]].sent,
                                stale |-> FALSE])
        => queue' \in Seq(FrameType)
    BY <1>5, <2>1
  <2>3. CASE Dequeued(c) /\ slots[slot[c]].asked
    BY <1>2, <1>5, <1>6, <1>8, <2>2, <2>3 DEF queueBuffer, Ok, Call
  <2>4. CASE ~(Dequeued(c) /\ slots[slot[c]].asked)
    BY <1>3, <1>4, <1>8, <2>4 DEF queueBuffer, Fails, Call
  <2> QED
    BY <2>3, <2>4
<1>9. CASE releaseBuffer(c) \/ cancelBuffer(c)
  BY <1>2, <1>3, <1>4, <1>5, <1>6, <1>9 DEF releaseBuffer, cancelBuffer, Ok, Fails, Call
<1>10. CASE detachBuffer(c) \/ detachConsumerBuffer(c)
  BY <1>1, <1>2, <1>3, <1>4, <1>5, <1>10, ClearEffect
  DEF detachBuffer, detachConsumerBuffer, Detach, Ok, Fails, Call
<1>11. CASE discardFreeBuffers(c)
  <2>1. Cleared \in SlotType /\ slots \in [Slots -> SlotType]
    BY DEF Cleared, SlotType, SlotStates, CoreType
  <2>2. slots' \in [Slots -> SlotType]
    BY <1>11, <2>1 DEF discardFreeBuffers
  <2> QED
    BY <1>2, <1>5, <1>11, <2>2 DEF discardFreeBuffers, Ok, Call
<1>12. ASSUME NEW i \in Slots, slot' = [slot EXCEPT ![c] = i], slots' \in [Slots -> SlotType],
              UNCHANGED <<CoreRest, queue, queued, got, nulls, dead, failed, met>>
       PROVE  CoreAndClientType
  BY <1>12 DEF CoreAndClientType, CoreType, ClientType, CoreRest
<1>13. CASE waitForFreeSlot(c)
  <2>1. PICK i \in Preferred(TRUE) :
          /\ slot' = [slot EXCEPT ![c] = i]
          /\ slots' = [slots EXCEPT ![i] =
               [(IF @.buffer THEN @ ELSE Cleared)
                  EXCEPT !.state = "DEQUEUED", !.by = c, !.buffer = TRUE]]
    BY <1>13 DEF waitForFreeSlot
  <2>2. i \in Slots
    BY DEF Preferred, InState
  <2>3. slots' \in [Slots -> SlotType]
    BY <2>1, <2>2, WaitEffect
  <2> QED
    BY <1>12, <1>13, <2>1, <2>2, <2>3 DEF waitForFreeSlot, Ok, Call
<1>14. ASSUME NEW call, NEW state \in {"DEQUEUED", "ACQUIRED"}, Attach(c, call, state)
       PROVE  CoreAndClientType
  <2>1. PICK i \in Preferred(FALSE) :
          /\ slot' = [slot EXCEPT ![c] = i]
          /\ slots' = [slots EXCEPT ![i] =
               [state |-> state, buffer |-> TRUE, asked |-> TRUE,
                sent |-> state = "ACQUIRED", by |-> c]]
    BY <1>14 DEF Attach
  <2>2. i \in Slots /\ state \in SlotStates
    BY DEF Preferred, InState, SlotStates
  <2>3. slots' \in [Slots -> SlotType]
    BY <2>1, <2>2, AttachEffect
  <2> QED
    BY <1>12, <1>14, <2>1, <2>2, <2>3 DEF Attach, Ok, Call
<1> QED
  BY <1>7, <1>8, <1>9, <1>10, <1>11, <1>13, <1>14 DEF attachBuffer, attachConsumerBuffer

LEMMA AcquireTypes ==
  ASSUME TypeOK, NEW c \in Clients, acquireBuffer(c)
  PROVE  CoreAndClientType
<1> CoreType /\ ClientType
  BY TypeParts
<1>1. /\ queue # <<>> /\ queue' = Tail(queue)
      /\ slot' = [slot EXCEPT ![c] = Head(queue).slot] /\ got' = [got EXCEPT ![c] = Frame(c)]
      /\ slots' = slots \/
           slots' = [slots EXCEPT ![Head(queue).slot].state = "ACQUIRED",
                                  ![Head(queue).slot].by = c,
                                  ![Head(queue).slot].sent = TRUE]
      /\ UNCHANGED <<CoreRest, queued, nulls, met>>
      /\ (Failed /\ dead' = dead \cup {c}) \/ UNCHANGED <<dead, failed>>
  BY DEF acquireBuffer, Call, Dies, Ok, Failed
<1>2. Head(queue).slot \in Slots /\ Tail(queue) \in Seq(FrameType)
  BY <1>1, FirstFrame DEF FrameType
<1>3. slots' \in [Slots -> SlotType]
  BY <1>1, <1>2, AcquireEffect DEF CoreType
<1>4. Frame(c) \in {"none", "own", "other", "stale"}
  BY DEF Frame
<1> QED
  BY <1>1, <1>2, <1>3, <1>4 DEF CoreAndClientType, CoreType, ClientType, CoreRest, Failed

LEMMA OtherTypes ==
  ASSUME TypeOK, NEW c \in Clients, Start(c) \/ Ends(c)
  PROVE  CoreAndClientType
<1> CoreType /\ ClientType
  BY TypeParts
<1>1. CASE Start(c)
  BY <1>1 DEF Start, CoreAndClientType, CoreType, ClientType, coreVars
<1>2. CASE Ends(c)
  <2>1. /\ slot' = [slot EXCEPT ![c] = 0] /\ got' = [got EXCEPT ![c] = "none"]
        /\ dead' = dead \ {c} /\ met' = met \ {c} /\ failed' = failed
        /\ nulls' = nulls \ ({c} \X Services)
    BY <1>2 DEF Ends
  <2>2. ClientType'
    BY <2>1 DEF ClientType, Slots
  <2>3. CoreType'
    <3>1. CASE test = "mytest3"
      <4>1. /\ notice' = (notice \/ connected = c)
            /\ slots' = [i \in Slots |->
                 [slots[i] EXCEPT !.by = IF slots[i].by = c THEN None ELSE @]]
            /\ UNCHANGED <<consumer, connected, queue, queued>>
        BY <1>2, <3>1 DEF Ends
      <4>2. \A i \in Slots :
              [slots[i] EXCEPT !.by = IF slots[i].by = c THEN None ELSE @] \in SlotType
        BY DEF CoreType, SlotType
      <4>3. slots' \in [Slots -> SlotType]
        BY <4>1, <4>2
      <4> QED
        BY <4>1, <4>3 DEF CoreType
    <3>2. CASE test # "mytest3"
      <4>1. /\ consumer' = FALSE /\ connected' = None /\ queued' = FALSE /\ queue' = <<>>
            /\ slots' = [i \in Slots |-> Cleared] /\ notice' = notice
        BY <1>2, <3>2 DEF Ends
      <4>2. Cleared \in SlotType /\ <<>> \in Seq(FrameType)
        BY DEF Cleared, SlotType, SlotStates
      <4> QED
        BY <4>1, <4>2 DEF CoreType
    <3> QED
      BY <3>1, <3>2
  <2> QED
    BY <2>2, <2>3 DEF CoreAndClientType
<1> QED
  BY <1>1, <1>2

LEMMA TypeStep ==
  ASSUME TypeOK, InProgram, [Next]_vars
  PROVE  TypeOK'
<1> /\ CoreType /\ ClientType /\ server \in Seq(Calls) /\ test \in Tests
    /\ services \subseteq Services
  BY TypeParts
<1>1. ASSUME ServerStep
      PROVE  CoreAndClientType /\ server' \in Seq(Calls) /\ services' \subseteq Services
  <2>1. server' \in Seq(Calls)
    BY <1>1 DEF ServerStep
  <2>2. services' \subseteq Services
    BY <1>1 DEF ServerStep, Registers
  <2> QED
    BY <1>1, <2>1, <2>2 DEF ServerStep, CoreAndClientType, CoreType, ClientType, clientVars
<1>2. ASSUME binderDied
      PROVE  CoreAndClientType
  <2>1. queue' \in Seq(FrameType)
    BY <1>2, FramesGoStale DEF binderDied
  <2>2. Cleared \in SlotType
    BY DEF Cleared, SlotType, SlotStates
  <2> QED
    BY <1>2, <2>1, <2>2 DEF binderDied, CoreAndClientType, CoreType, ClientType, clientVars
<1>3. ASSUME UNCHANGED vars
      PROVE  CoreAndClientType
  BY <1>3 DEF vars, coreVars, clientVars, CoreAndClientType, CoreType, ClientType
<1>4. ASSUME NEW c \in Clients, Start(c) \/ Step(c) \/ Ends(c)
      PROVE  CoreAndClientType
  BY <1>4, CallTypes, SlotCallTypes, AcquireTypes, OtherTypes DEF Step, return
<1>5. CoreAndClientType
  BY <1>1, <1>2, <1>3, <1>4 DEF Next
<1>6. server' \in Seq(Calls) /\ services' \subseteq Services
  <2>1. ASSUME NEW c \in Clients, Start(c) \/ Step(c) \/ Ends(c)
        PROVE  UNCHANGED <<server, services>>
    <3>1. CASE \E call : Call(c, call)
      BY <3>1 DEF Call
    <3>2. CASE Start(c) \/ Ends(c) \/ dequeueBufferFails(c)
      BY <3>2 DEF Start, Ends, dequeueBufferFails
    <3>3. Step(c) => (\E call : Call(c, call)) \/ Ends(c) \/ dequeueBufferFails(c)
      BY DEF Step, return, Create, ConsumerConnect, GetProducer, GetConsumer, getService,
             connectToNull, connect, dequeueBuffer,
             waitForFreeSlot, waitForFreeSlotFails, requestBuffer, queueBuffer,
             acquireBuffer, acquireBufferFails, releaseBuffer, cancelBuffer, attachBuffer,
             attachConsumerBuffer, Attach, detachBuffer, detachConsumerBuffer, Detach,
             discardFreeBuffers
    <3> QED
      BY <2>1, <3>1, <3>2, <3>3
  <2>2. UNCHANGED vars \/ binderDied => UNCHANGED <<server, services>>
    BY DEF vars, binderDied
  <2> QED
    BY <1>1, <2>1, <2>2 DEF Next
<1>7. test' = test /\ todo' \in [Clients -> Seq(Calls)]
  BY TodoStep
<1> QED
  BY <1>5, <1>6, <1>7, TypePartsNext DEF CoreAndClientType

-----------------------------------------------------------------------------
(* The queue and its connection.                                           *)

CoreStays == UNCHANGED <<connected, notice, slots, queue>>

LEMMA CoreKinds ==
  ASSUME TypeOK, InProgram, [Next]_vars
  PROVE  \/ CoreStays
         \/ binderDied
         \/ \E c \in Clients :
              \/ Ends(c)
              \/ connect(c) /\ connected' = c /\ UNCHANGED <<notice, slots, queue>>
              \/ waitForFreeSlot(c)
              \/ Dequeued(c) /\ (requestBuffer(c) \/ queueBuffer(c))
              \/ acquireBuffer(c)
              \/ releaseBuffer(c) /\ slots[slot[c]].state = "ACQUIRED"
              \/ /\ test = "mytest2"
                 /\ \/ cancelBuffer(c) \/ attachBuffer(c) \/ detachBuffer(c)
                    \/ attachConsumerBuffer(c) \/ detachConsumerBuffer(c)
                    \/ discardFreeBuffers(c)
<1> USE DEF coreVars, CoreStays, Fails
<1>1. ServerStep \/ UNCHANGED vars => CoreStays
  BY DEF ServerStep, vars
<1>2. ASSUME NEW c \in Clients,
             \/ Start(c) \/ Create(c) \/ ConsumerConnect(c) \/ GetProducer(c) \/ GetConsumer(c)
             \/ connectToNull(c) \/ dequeueBuffer(c) \/ dequeueBufferFails(c)
             \/ waitForFreeSlotFails(c) \/ acquireBufferFails(c)
      PROVE  CoreStays
  BY <1>2
  DEF Start, Create, ConsumerConnect, GetProducer, GetConsumer, getService, connectToNull,
      dequeueBuffer, dequeueBufferFails, NoSlot, waitForFreeSlotFails, acquireBufferFails
<1>3. ASSUME NEW c \in Clients, connect(c)
      PROVE  CoreStays \/ (connected' = c /\ UNCHANGED <<notice, slots, queue>>)
  BY <1>3 DEF connect
<1>4. ASSUME NEW c \in Clients, requestBuffer(c) \/ queueBuffer(c)
      PROVE  CoreStays \/ Dequeued(c)
  BY <1>4 DEF requestBuffer, queueBuffer
<1>5. ASSUME NEW c \in Clients, releaseBuffer(c)
      PROVE  CoreStays \/ slots[slot[c]].state = "ACQUIRED"
  BY <1>5 DEF releaseBuffer
<1>6. ASSUME NEW c \in Clients,
             \/ cancelBuffer(c) \/ attachBuffer(c) \/ detachBuffer(c)
             \/ attachConsumerBuffer(c) \/ detachConsumerBuffer(c)
             \/ discardFreeBuffers(c)
      PROVE  test = "mytest2"
  <2>1. PICK call \in {"cancel", "attach", "detach", "attachConsumer", "detachConsumer",
                       "discard"} : Call(c, call)
    BY <1>6
    DEF cancelBuffer, attachBuffer, detachBuffer, attachConsumerBuffer, detachConsumerBuffer,
        discardFreeBuffers, Attach, Detach
  <2>2. LeftAt(c, call)
    BY <2>1, CallLeft
  <2> QED
    BY <2>2 DEF LeftAt
<1>7. ASSUME NEW c \in Clients, Step(c)
      PROVE  \/ CoreStays
             \/ Ends(c)
             \/ connect(c) /\ connected' = c /\ UNCHANGED <<notice, slots, queue>>
             \/ waitForFreeSlot(c)
             \/ Dequeued(c) /\ (requestBuffer(c) \/ queueBuffer(c))
             \/ acquireBuffer(c)
             \/ releaseBuffer(c) /\ slots[slot[c]].state = "ACQUIRED"
             \/ /\ test = "mytest2"
                /\ \/ cancelBuffer(c) \/ attachBuffer(c) \/ detachBuffer(c)
                   \/ attachConsumerBuffer(c) \/ detachConsumerBuffer(c)
                   \/ discardFreeBuffers(c)
  BY <1>2, <1>3, <1>4, <1>5, <1>6, <1>7 DEF Step, return
<1> QED
  BY <1>1, <1>2, <1>7 DEF Next

(* Frames that come are not stale, and come from a client that finds the   *)
(* queue connected.                                                        *)
LEMMA Frames ==
  ASSUME TypeOK, NEW c \in Clients, queueBuffer(c), Dequeued(c), queue' # queue
  PROVE  /\ slot[c] \in Slots /\ slots[slot[c]].asked
         /\ SetSlot(slot[c], "QUEUED", None) /\ queue' \in Seq(FrameType)
         /\ Len(queue') = Len(queue) + 1
         /\ \A m \in 1 .. Len(queue) : queue'[m] = queue[m]
         /\ queue'[Len(queue) + 1] = [slot |-> slot[c], from |-> c,
                                      sent |-> slots[slot[c]].sent, stale |-> FALSE]
<1> CoreType /\ ClientType
  BY TypeParts
<1> DEFINE f == [slot |-> slot[c], from |-> c, sent |-> slots[slot[c]].sent, stale |-> FALSE]
           q == queue
<1>1. /\ queue' = Append(q, f) /\ slots[slot[c]].asked /\ SetSlot(slot[c], "QUEUED", None)
  BY DEF queueBuffer, Fails, coreVars
<1>2. f \in FrameType /\ q \in Seq(FrameType) /\ slot[c] \in Slots
  BY DEF CoreType, ClientType, SlotType, FrameType
<1> HIDE DEF f, q
<1>3. /\ Append(q, f) \in Seq(FrameType) /\ Len(Append(q, f)) = Len(q) + 1
      /\ \A m \in 1 .. Len(q) : Append(q, f)[m] = q[m]
      /\ Append(q, f)[Len(q) + 1] = f
  BY <1>2
<1> QED
  BY <1>1, <1>2, <1>3 DEF f, q

StaleUnsent == \A m \in DOMAIN queue : queue[m].stale => ~queue[m].sent
SomebodyConnected == connected # None => Running(connected) \/ notice
ServerConnects ==
  test = "mytest3" =>
    /\ Len(server) <= Len(mytest3_server)
    /\ \A i \in 1 .. Len(server) :
         server[i] = mytest3_server[Len(mytest3_server) - Len(server) + i]
    /\ consumer \/ (Len(server) > 2 /\ services = {})
ForgottenQueue ==
  test = "mytest3" /\ connected = None =>
    /\ \A i \in Slots : slots[i].state # "ACQUIRED" /\ ~slots[i].sent
    /\ \A m \in DOMAIN queue : queue[m].stale

LEMMA ConnectionParts ==
  /\ Connection <=> StaleUnsent /\ SomebodyConnected /\ ServerConnects /\ ForgottenQueue
  /\ StaleUnsent' /\ SomebodyConnected' /\ ServerConnects' /\ ForgottenQueue' => Connection'
BY DEF Connection, StaleUnsent, SomebodyConnected, ServerConnects, ForgottenQueue

(* Steps that do not touch the frames. *)
LEMMA QueueStays ==
  ASSUME TypeOK, NEW c \in Clients,
         \/ waitForFreeSlot(c) \/ requestBuffer(c) \/ releaseBuffer(c) \/ connect(c)
         \/ cancelBuffer(c) \/ attachBuffer(c) \/ detachBuffer(c)
         \/ attachConsumerBuffer(c) \/ detachConsumerBuffer(c) \/ discardFreeBuffers(c)
  PROVE  queue' = queue /\ notice' = notice
BY DEF waitForFreeSlot, requestBuffer, releaseBuffer, connect, cancelBuffer, attachBuffer,
       detachBuffer, attachConsumerBuffer, detachConsumerBuffer, discardFreeBuffers, Attach,
       Detach, Fails, Dies, coreVars, CoreRest

LEMMA StaleStep ==
  ASSUME TypeOK, InProgram, StaleUnsent, [Next]_vars
  PROVE  StaleUnsent'
<1> CoreType /\ queue \in Seq(FrameType)
  BY TypeParts DEF CoreType
<1>1. CASE queue' = queue
  BY <1>1 DEF StaleUnsent
<1>2. ASSUME binderDied
      PROVE  StaleUnsent'
  BY <1>2, FramesGoStale DEF binderDied, StaleUnsent
<1>3. ASSUME NEW c \in Clients, Ends(c)
      PROVE  StaleUnsent'
  <2>1. queue' = queue \/ queue' = <<>>
    BY <1>3 DEF Ends
  <2>2. DOMAIN <<>> = {}
    OBVIOUS
  <2> QED
    BY <2>1, <2>2 DEF StaleUnsent
<1>4. ASSUME NEW c \in Clients, acquireBuffer(c)
      PROVE  StaleUnsent'
  <2>1. queue # <<>> /\ queue' = Tail(queue)
    BY <1>4 DEF acquireBuffer
  <2> QED
    BY <2>1, FirstFrame DEF StaleUnsent
<1>5. ASSUME NEW c \in Clients, queueBuffer(c), Dequeued(c), queue' # queue
      PROVE  StaleUnsent'
  <2> DEFINE q == queue
             p == queue'
             N == Len(queue)
  <2>1. q \in Seq(FrameType) /\ p \in Seq(FrameType)
    BY <1>5, Frames
  <2>2. /\ Len(p) = N + 1 /\ \A m \in 1 .. N : p[m] = q[m]
        /\ p[N + 1] = [slot |-> slot[c], from |-> c, sent |-> slots[slot[c]].sent, stale |-> FALSE]
    BY <1>5, Frames
  <2>3. ~p[N + 1].stale
    BY <2>2
  <2>4. DOMAIN q = 1 .. N /\ N \in Nat
    BY <2>1, FrameSeq
  <2>5. DOMAIN p = 1 .. N + 1
    BY <2>1, <2>2, FrameSeq
  <2>6. \A m \in DOMAIN q : q[m].stale => ~q[m].sent
    BY DEF StaleUnsent
  <2> HIDE DEF q, p, N
  <2>7. \A m \in DOMAIN p : p[m].stale => ~p[m].sent
    BY <2>2, <2>3, <2>4, <2>5, <2>6
  <2> QED
    BY <2>7 DEF StaleUnsent, p
<1> QED
  BY <1>1, <1>2, <1>3, <1>4, <1>5, CoreKinds, QueueStays DEF CoreStays

LEMMA RunningStays ==
  ASSUME TypeOK, InProgram, [Next]_vars, NEW d \in Clients, Running(d)
  PROVE  Running(d)' \/ Ends(d)
<1> todo \in [Clients -> Seq(Calls)]
  BY DEF TypeOK
<1>1. CASE NoCall
  BY <1>1 DEF NoCall, Running
<1>2. ASSUME NEW c \in Clients, NEW call \in Calls, ACall(c, call)
      PROVE  Running(d)'
  <2>1. Running(c)' /\ \A e \in Clients : e # c => todo'[e] = todo[e]
    BY <1>2, CallLeft DEF ACall
  <2> QED
    BY <2>1 DEF Running
<1>3. ASSUME NEW c \in Clients, dequeueBufferFails(c)
      PROVE  Running(d)'
  <2>1. Running(c)' /\ \A e \in Clients : e # c => todo'[e] = todo[e]
    BY <1>3, FailsLeft
  <2> QED
    BY <2>1 DEF Running
<1>4. ASSUME NEW c \in Clients, Start(c)
      PROVE  Running(d)'
  BY <1>4 DEF Start, Running
<1>5. ASSUME NEW c \in Clients, Ends(c), c # d
      PROVE  Running(d)'
  BY <1>5 DEF Ends, Running
<1> QED
  BY <1>1, <1>2, <1>3, <1>4, <1>5, Kinds

LEMMA ConnectionKinds ==
  ASSUME TypeOK, InProgram, [Next]_vars
  PROVE  \/ connected' = None
         \/ connected' = connected /\ notice' = notice
         \/ \E c \in Clients :
              \/ connected' = connected /\ notice' = (notice \/ connected = c) /\ Ends(c)
              \/ connected' = c /\ connect(c) /\ consumer
<1>1. binderDied => connected' = None
  BY DEF binderDied
<1>2. ASSUME NEW c \in Clients, Ends(c)
      PROVE  \/ connected' = None
             \/ connected' = connected /\ notice' = (notice \/ connected = c)
  BY <1>2 DEF Ends
<1>3. ASSUME NEW c \in Clients, connect(c)
      PROVE  \/ connected' = connected /\ notice' = notice
             \/ connected' = c /\ consumer
  BY <1>3 DEF connect, Fails, coreVars
<1>4. ASSUME NEW c \in Clients,
             \/ waitForFreeSlot(c) \/ (Dequeued(c) /\ (requestBuffer(c) \/ queueBuffer(c)))
             \/ acquireBuffer(c) \/ releaseBuffer(c) \/ cancelBuffer(c) \/ attachBuffer(c)
             \/ detachBuffer(c) \/ attachConsumerBuffer(c) \/ detachConsumerBuffer(c)
             \/ discardFreeBuffers(c)
      PROVE  connected' = connected /\ notice' = notice
  BY <1>4 DEF waitForFreeSlot, requestBuffer, queueBuffer, acquireBuffer, releaseBuffer,
     cancelBuffer, attachBuffer, detachBuffer, attachConsumerBuffer, detachConsumerBuffer,
     discardFreeBuffers, Attach, Detach, Fails, coreVars, CoreRest
<1>5. CoreStays => connected' = connected /\ notice' = notice
  BY DEF CoreStays
<1> QED
  BY <1>1, <1>2, <1>3, <1>4, <1>5, CoreKinds

LEMMA ConnectedStep ==
  ASSUME TypeOK, InProgram, SomebodyConnected, [Next]_vars
  PROVE  SomebodyConnected'
<1>1. connected \in Clients \cup {None}
  BY DEF TypeOK
<1>2. \A d \in Clients : todo[d] # <<>> => todo'[d] # <<>> \/ Ends(d)
  BY RunningStays DEF Running
<1>3. CASE connected' = connected /\ notice' = notice
  BY <1>1, <1>2, <1>3 DEF SomebodyConnected, Running, Ends
<1>4. ASSUME NEW c \in Clients, Ends(c), connected' = connected,
             notice' = (notice \/ connected = c)
      PROVE  SomebodyConnected'
  <2>1. \A d \in Clients : d # c => todo'[d] = todo[d]
    BY <1>4 DEF Ends, TypeOK
  <2> QED
    BY <1>1, <1>4, <2>1 DEF SomebodyConnected, Running
<1>5. ASSUME NEW c \in Clients, connect(c), connected' = c
      PROVE  SomebodyConnected'
  <2>1. Running(c)'
    BY <1>5, CallLeft DEF connect
  <2> QED
    BY <1>5, <2>1 DEF SomebodyConnected, Running
<1>6. CASE connected' = None
  BY <1>6 DEF SomebodyConnected
<1> QED
  BY <1>3, <1>4, <1>5, <1>6, ConnectionKinds

LEMMA ServerCalls ==
  /\ Len(mytest3_server) = 4
  /\ mytest3_server[1] = "createBufferQueue" /\ mytest3_server[2] = "consumerConnect"
BY DEF mytest3_server, createBufferQueue

LEMMA ServerConnectsStep ==
  ASSUME TypeOK, InProgram, ServerConnects, [Next]_vars
  PROVE  ServerConnects'
<1>1. ASSUME ServerStep
      PROVE  ServerConnects'
  <2> DEFINE s == server
             M == mytest3_server
  <2>1. s \in Seq(Calls) /\ s # <<>> /\ server' = Tail(s) /\ test' = test
        /\ consumer' = (consumer \/ Head(s) = "consumerConnect")
        /\ services' \in {services, services \cup Registers(Head(s))}
    BY <1>1 DEF ServerStep, TypeOK
  <2>2. test = "mytest3" =>
          /\ Len(s) <= 4 /\ \A i \in 1 .. Len(s) : s[i] = M[4 - Len(s) + i]
          /\ consumer \/ (Len(s) > 2 /\ services = {})
    BY ServerCalls DEF ServerConnects
  <2>3. M[1] = "createBufferQueue" /\ M[2] = "consumerConnect"
    BY ServerCalls
  <2> HIDE DEF s, M
  <2>4. /\ Head(s) = s[1] /\ Len(s) \in Nat \ {0} /\ Len(Tail(s)) = Len(s) - 1
        /\ \A i \in 1 .. Len(Tail(s)) : Tail(s)[i] = s[i + 1]
    BY <2>1
  <2>5. ASSUME test = "mytest3", NEW i \in 1 .. Len(Tail(s))
        PROVE  Tail(s)[i] = M[4 - Len(Tail(s)) + i]
    <3>1. i + 1 \in 1 .. Len(s) /\ 4 - Len(s) + (i + 1) = 4 - Len(Tail(s)) + i
      BY <2>4
    <3> QED
      BY <2>2, <2>4, <2>5, <3>1
  <2>6. ASSUME test = "mytest3", ~consumer'
        PROVE  Len(Tail(s)) > 2 /\ services' = {}
    <3> DEFINE n == Len(s)
    <3>1. ~consumer /\ n > 2 /\ n <= 4 /\ n \in Nat /\ services = {}
      BY <2>1, <2>2, <2>4, <2>6
    <3>2. s[1] = M[4 - n + 1]
      BY <2>2, <2>6, <3>1
    <3> HIDE DEF n
    <3>3. n = 4 \/ n = 3
      BY <3>1
    <3>4. Head(s) # "consumerConnect"
      BY <2>1, <2>6
    <3>5. n = 4
      BY <2>3, <2>4, <3>2, <3>3, <3>4
    <3>6. Head(s) = "createBufferQueue"
      BY <2>3, <2>4, <3>2, <3>5
    <3>7. Registers(Head(s)) = {}
      BY <3>6 DEF Registers
    <3>8. services' = {}
      BY <2>1, <3>1, <3>7
    <3>9. Len(Tail(s)) = n - 1
      BY <2>4 DEF n
    <3> QED
      BY <3>5, <3>8, <3>9
  <2>7. test' = "mytest3" =>
          /\ Len(server') <= 4 /\ \A i \in 1 .. Len(server') : server'[i] = M[4 - Len(server') + i]
          /\ consumer' \/ (Len(server') > 2 /\ services' = {})
    BY <2>1, <2>2, <2>4, <2>5, <2>6
  <2> QED
    BY <2>7, ServerCalls DEF ServerConnects, M
<1>2. ASSUME UNCHANGED <<server, test, services>>, consumer' = consumer \/ consumer'
      PROVE  ServerConnects'
  BY <1>2 DEF ServerConnects
<1>3. binderDied \/ UNCHANGED vars => UNCHANGED <<server, test, services, consumer>>
  BY DEF binderDied, vars, coreVars
<1>4. ASSUME NEW c \in Clients, Start(c)
      PROVE  UNCHANGED <<server, test, services, consumer>>
  BY <1>4 DEF Start, coreVars
<1>5. ASSUME NEW c \in Clients, Ends(c)
      PROVE  ServerConnects'
  BY <1>5 DEF Ends, ServerConnects
<1>6. ASSUME NEW c \in Clients,
             \/ Create(c) \/ ConsumerConnect(c) \/ GetProducer(c) \/ GetConsumer(c)
             \/ connectToNull(c) \/ connect(c) \/ dequeueBuffer(c) \/ dequeueBufferFails(c)
             \/ waitForFreeSlot(c) \/ waitForFreeSlotFails(c)
      PROVE  UNCHANGED <<server, test, services>> /\ (consumer' = consumer \/ consumer')
  BY <1>6
  DEF Create, ConsumerConnect, GetProducer, GetConsumer, getService, connectToNull, connect,
      dequeueBuffer, dequeueBufferFails, waitForFreeSlot, waitForFreeSlotFails, NoSlot, Fails,
      Call, coreVars, CoreRest
<1>7. ASSUME NEW c \in Clients,
             \/ requestBuffer(c) \/ queueBuffer(c) \/ releaseBuffer(c) \/ cancelBuffer(c)
             \/ detachBuffer(c) \/ detachConsumerBuffer(c)
      PROVE  UNCHANGED <<server, test, services, consumer>>
  BY <1>7
  DEF requestBuffer, queueBuffer, releaseBuffer, cancelBuffer, detachBuffer,
      detachConsumerBuffer, Detach, Fails, Call, coreVars, CoreRest
<1>8. ASSUME NEW c \in Clients,
             \/ acquireBuffer(c) \/ acquireBufferFails(c) \/ attachBuffer(c)
             \/ attachConsumerBuffer(c) \/ discardFreeBuffers(c)
      PROVE  UNCHANGED <<server, test, services, consumer>>
  BY <1>8
  DEF acquireBuffer, acquireBufferFails, attachBuffer, attachConsumerBuffer, Attach,
      discardFreeBuffers, Fails, Call, coreVars, CoreRest
<1>9. ASSUME NEW c \in Clients, Step(c)
      PROVE  ServerConnects'
  BY <1>2, <1>5, <1>6, <1>7, <1>8, <1>9 DEF Step, return
<1> QED
  BY <1>1, <1>2, <1>3, <1>4, <1>5, <1>9 DEF Next

LEMMA ForgottenStep ==
  ASSUME TypeOK, InProgram, ForgottenQueue, [Next]_vars
  PROVE  ForgottenQueue'
<1> CoreType /\ ClientType
  BY TypeParts
<1>0. test' = test
  BY TodoStep
<1> SUFFICES ASSUME test = "mytest3", connected' = None
             PROVE  /\ \A i \in Slots : slots'[i].state # "ACQUIRED" /\ ~slots'[i].sent
                    /\ \A m \in DOMAIN queue' : queue'[m].stale
  BY <1>0 DEF ForgottenQueue
<1> DEFINE Forgotten == /\ \A i \in Slots : slots'[i].state # "ACQUIRED" /\ ~slots'[i].sent
                        /\ \A m \in DOMAIN queue' : queue'[m].stale
<1>1. connected = None => /\ \A i \in Slots : slots[i].state # "ACQUIRED" /\ ~slots[i].sent
                          /\ \A m \in DOMAIN queue : queue[m].stale
  BY DEF ForgottenQueue
<1>2. CASE CoreStays
  BY <1>1, <1>2 DEF CoreStays
<1>3. ASSUME binderDied
      PROVE  Forgotten
  <2>1. \A m \in DOMAIN queue' : queue'[m].stale
    BY <1>3, FramesGoStale DEF binderDied
  <2>2. \A i \in Slots : slots'[i].state # "ACQUIRED" /\ ~slots'[i].sent
    BY <1>3 DEF binderDied, Cleared
  <2> QED
    BY <2>1, <2>2
<1>4. ASSUME NEW c \in Clients, Ends(c)
      PROVE  Forgotten
  <2>1. /\ slots' = [i \in Slots |->
             [slots[i] EXCEPT !.by = IF slots[i].by = c THEN None ELSE @]]
        /\ connected' = connected /\ queue' = queue
    BY <1>4 DEF Ends
  <2>2. \A i \in Slots : slots'[i].state = slots[i].state /\ slots'[i].sent = slots[i].sent
    BY <2>1 DEF CoreType, SlotType
  <2> QED
    BY <1>1, <2>1, <2>2
<1>5. ASSUME NEW c \in Clients, waitForFreeSlot(c)
      PROVE  Forgotten
  <2>1. PICK i \in Preferred(TRUE) :
          /\ slot' = [slot EXCEPT ![c] = i]
          /\ slots' = [slots EXCEPT ![i] =
               [(IF @.buffer THEN @ ELSE Cleared)
                  EXCEPT !.state = "DEQUEUED", !.by = c, !.buffer = TRUE]]
    BY <1>5 DEF waitForFreeSlot
  <2>2. i \in Slots /\ connected = None /\ queue' = queue
    BY <1>5 DEF Preferred, InState, waitForFreeSlot, CoreRest
  <2>3. /\ OtherSlotsStay(i) /\ slots'[i].state = "DEQUEUED"
        /\ slots'[i].sent = slots[i].sent \/ ~slots'[i].sent
    BY <2>1, <2>2, WaitEffect
  <2> QED
    BY <1>1, <2>2, <2>3 DEF OtherSlotsStay
<1>6. ASSUME NEW c \in Clients, acquireBuffer(c)
      PROVE  Forgotten
  <2>1. queue # <<>> /\ queue' = Tail(queue) /\ connected = None
    BY <1>6 DEF acquireBuffer, CoreRest
  <2>2. Head(queue).stale
    BY <1>1, <2>1, FirstFrame
  <2>3. slots' = slots
    BY <1>6, <2>2 DEF acquireBuffer
  <2> QED
    BY <1>1, <2>1, <2>3, FirstFrame
<1>7. ASSUME NEW c \in Clients, Dequeued(c), requestBuffer(c) \/ queueBuffer(c)
      PROVE  FALSE
  BY <1>7 DEF Dequeued, requestBuffer, queueBuffer, Fails, coreVars, CoreRest
<1>8. ASSUME NEW c \in Clients, releaseBuffer(c), slots[slot[c]].state = "ACQUIRED"
      PROVE  FALSE
  <2>1. connected = None /\ slot[c] \in Slots
    BY <1>8 DEF releaseBuffer, Fails, coreVars, CoreRest, ClientType
  <2> QED
    BY <1>1, <1>8, <2>1
<1>9. \A c \in Clients : c # None
  BY ClientAssumption
<1> QED
  BY <1>2, <1>3, <1>4, <1>5, <1>6, <1>7, <1>8, <1>9, CoreKinds

LEMMA ConnectionStep ==
  ASSUME TypeOK, InProgram, Connection, [Next]_vars
  PROVE  Connection'
BY ConnectionParts, StaleStep, ConnectedStep, ServerConnectsStep, ForgottenStep

-----------------------------------------------------------------------------
(* A client that is alone.                                                 *)

Finds(c) ==
  /\ test # "mytest2" => Progress(c)
  /\ test = "mytest" => MytestQueue(c)
  /\ test = "mytest2" => Mytest2Progress(c)

(* After one of its calls. *)
Proceeds(c) ==
  /\ notice' = notice /\ got'[c] # "other"
  /\ c \in dead' => /\ test = "mytest3"
                    /\ \/ Left(c)' = 7 /\ NoProducer(c)'
                       \/ Left(c)' = 2 /\ NoConsumer(c)'
  /\ c \notin dead' => Finds(c)'
  /\ test # "mytest3" => UNCHANGED <<nulls, failed>>

LEMMA AloneCall ==
  ASSUME TypeOK, InProgram, AloneInv, LocalInv, NEW c \in Clients, c \notin met,
         NEW call, Call(c, call)
  PROVE  /\ ~notice /\ got[c] # "other" /\ c \notin dead /\ LeftAt(c, call) /\ test' = test
         /\ Left(c) \in Nat /\ Left(c)' = Left(c) - 1 /\ Finds(c)
         /\ CoreType /\ ClientType /\ c # None
<1>1. /\ Running(c) /\ c \notin dead /\ LeftAt(c, call) /\ test' = test
      /\ Left(c) \in Nat /\ Left(c)' = Left(c) - 1
  BY CallLeft
<1>2. ~notice /\ got[c] # "other" /\ (test # "mytest2" => Progress(c))
  BY <1>1 DEF AloneInv
<1>3. /\ test = "mytest" => MytestQueue(c)
      /\ test = "mytest2" => Mytest2Progress(c)
  BY <1>1 DEF LocalInv
<1> QED
  BY <1>1, <1>2, <1>3, TypeParts, ClientAssumption DEF Finds

(* The calls before connect. *)
LEMMA AloneCreate ==
  ASSUME TypeOK, InProgram, AloneInv, LocalInv, NEW c \in Clients, c \notin met, Create(c)
  PROVE  Proceeds(c)
<1>1. /\ Call(c, "createBufferQueue")
      /\ UNCHANGED <<consumer, connected, notice, slots, queue, queued>>
      /\ UNCHANGED <<slot, got, nulls, dead, failed>>
  BY DEF Create, coreVars, Local, Ok
<1>2. /\ ~notice /\ got[c] # "other" /\ c \notin dead /\ LeftAt(c, "createBufferQueue")
      /\ test' = test /\ Left(c) \in Nat /\ Left(c)' = Left(c) - 1 /\ Finds(c)
  BY <1>1, AloneCall
<1>3. CASE test # "mytest2"
  <2>1. test = "mytest" /\ Left(c) = 10 /\ Left(c)' = 9
    BY <1>2, <1>3 DEF LeftAt
  <2> QED
    BY <1>1, <1>2, <1>3, <2>1 DEF Proceeds, Finds, Progress, MytestQueue
<1>4. CASE test = "mytest2"
  <2>1. Left(c) = 18 /\ Left(c)' = 17
    BY <1>2, <1>4 DEF LeftAt
  <2> QED
    BY <1>1, <1>2, <1>4, <2>1 DEF Proceeds, Finds, Mytest2Progress
<1> QED
  BY <1>3, <1>4

LEMMA AloneConsumerConnect ==
  ASSUME TypeOK, InProgram, AloneInv, LocalInv, NEW c \in Clients, c \notin met,
         ConsumerConnect(c)
  PROVE  Proceeds(c)
<1>1. /\ Call(c, "consumerConnect") /\ consumer'
      /\ UNCHANGED <<connected, notice, slots, queue, queued, slot, got, nulls, dead, failed>>
  BY DEF ConsumerConnect, Local, Ok
<1>2. /\ ~notice /\ got[c] # "other" /\ c \notin dead /\ LeftAt(c, "consumerConnect")
      /\ test' = test /\ Left(c) \in Nat /\ Left(c)' = Left(c) - 1 /\ Finds(c)
  BY <1>1, AloneCall
<1>3. CASE test # "mytest2"
  <2>1. Left(c) = 9 /\ Left(c)' = 8
    BY <1>2, <1>3 DEF LeftAt
  <2> QED
    BY <1>1, <1>2, <1>3, <2>1 DEF Proceeds, Finds, Progress, MytestQueue
<1>4. CASE test = "mytest2"
  <2>1. Left(c) = 17 /\ Left(c)' = 16
    BY <1>2, <1>4 DEF LeftAt
  <2> QED
    BY <1>1, <1>2, <1>4, <2>1 DEF Proceeds, Finds, Mytest2Progress
<1> QED
  BY <1>3, <1>4

LEMMA AloneGetProducer ==
  ASSUME TypeOK, InProgram, Connection, AloneInv, LocalInv, NEW c \in Clients, c \notin met,
         GetProducer(c)
  PROVE  Proceeds(c)
<1>1. /\ Call(c, "getProducer")
      /\ UNCHANGED <<consumer, connected, notice, slots, queue, queued, slot, got, dead, failed>>
      /\ "MyProducer" \notin services => <<c, "MyProducer">> \in nulls'
  BY DEF GetProducer, getService, coreVars, Local
<1>2. /\ ~notice /\ got[c] # "other" /\ c \notin dead /\ LeftAt(c, "getProducer")
      /\ test' = test /\ Left(c) \in Nat /\ Left(c)' = Left(c) - 1 /\ Finds(c)
  BY <1>1, AloneCall
<1>3. test = "mytest3" /\ Left(c) = 10 /\ Left(c)' = 9
  BY <1>2 DEF LeftAt
<1>4. "MyProducer" \in services => consumer
  BY <1>3, ConnectionParts DEF ServerConnects
<1> QED
  BY <1>1, <1>2, <1>3, <1>4 DEF Proceeds, Finds, Progress

LEMMA AloneGetConsumer ==
  ASSUME TypeOK, InProgram, AloneInv, LocalInv, NEW c \in Clients, c \notin met,
         GetConsumer(c)
  PROVE  Proceeds(c)
<1>1. /\ Call(c, "getConsumer")
      /\ UNCHANGED <<consumer, connected, notice, slots, queue, queued, slot, got, dead, failed>>
      /\ nulls \subseteq nulls'
  BY DEF GetConsumer, getService, coreVars, Local
<1>2. /\ ~notice /\ got[c] # "other" /\ c \notin dead /\ LeftAt(c, "getConsumer")
      /\ test' = test /\ Left(c) \in Nat /\ Left(c)' = Left(c) - 1 /\ Finds(c)
  BY <1>1, AloneCall
<1>3. test = "mytest3" /\ Left(c) = 9 /\ Left(c)' = 8
  BY <1>2 DEF LeftAt
<1> QED
  BY <1>1, <1>2, <1>3 DEF Proceeds, Finds, Progress

LEMMA AloneConnectToNull ==
  ASSUME TypeOK, InProgram, AloneInv, LocalInv, NEW c \in Clients, c \notin met,
         connectToNull(c)
  PROVE  Proceeds(c)
<1>1. /\ Call(c, "connect") /\ UNCHANGED <<notice, got, nulls>>
      /\ <<c, "MyProducer">> \in nulls /\ dead' = dead \cup {c}
  BY DEF connectToNull, Dies, Failed, coreVars, Local
<1>2. /\ ~notice /\ got[c] # "other" /\ LeftAt(c, "connect")
      /\ test' = test /\ Left(c) \in Nat /\ Left(c)' = Left(c) - 1
  BY <1>1, AloneCall
<1>3. test = "mytest3"
  BY <1>1 DEF LocalInv
<1>4. Left(c)' = 7
  BY <1>2, <1>3 DEF LeftAt
<1> QED
  BY <1>1, <1>2, <1>3, <1>4 DEF Proceeds

LEMMA AloneConnect ==
  ASSUME TypeOK, InProgram, AloneInv, LocalInv, NEW c \in Clients, c \notin met, connect(c)
  PROVE  Proceeds(c)
<1>1. Call(c, "connect") /\ UNCHANGED <<slot, got>>
  BY DEF connect, Local
<1>2. /\ ~notice /\ got[c] # "other" /\ c \notin dead /\ LeftAt(c, "connect")
      /\ test' = test /\ Left(c) \in Nat /\ Left(c)' = Left(c) - 1 /\ Finds(c)
  BY <1>1, AloneCall
<1>3. CASE test # "mytest2"
  <2>1. Left(c) = 8 /\ Left(c)' = 7
    BY <1>2, <1>3 DEF LeftAt
  <2>2. consumer /\ connected = None
    BY <1>2, <1>3, <2>1 DEF connect, Finds, Progress
  <2>3. /\ connected' = c /\ ~queued'
        /\ UNCHANGED <<consumer, notice, slots, queue, nulls, dead, failed>>
    BY <2>2 DEF connect, Ok
  <2> QED
    BY <1>1, <1>2, <1>3, <2>1, <2>3 DEF Proceeds, Finds, Progress, MytestQueue
<1>4. CASE test = "mytest2"
  <2>1. Left(c) = 16 /\ Left(c)' = 15
    BY <1>2, <1>4 DEF LeftAt
  <2>2. consumer /\ connected = None
    BY <1>2, <1>4, <2>1 DEF Finds, Mytest2Progress
  <2>3. /\ connected' = c /\ ~queued'
        /\ UNCHANGED <<consumer, notice, slots, queue, nulls, dead, failed>>
    BY <2>2 DEF connect, Ok
  <2> QED
    BY <1>1, <1>2, <1>4, <2>1, <2>3 DEF Proceeds, Finds, Mytest2Progress
<1> QED
  BY <1>3, <1>4

LEMMA AloneDequeue ==
  ASSUME TypeOK, InProgram, AloneInv, LocalInv, NEW c \in Clients, c \notin met,
         dequeueBuffer(c)
  PROVE  Proceeds(c)
<1>1. /\ Call(c, "dequeue")
      /\ UNCHANGED <<consumer, connected, notice, slots, queue, queued>>
      /\ UNCHANGED <<slot, got, nulls, dead, failed>>
  BY DEF dequeueBuffer, coreVars, Local, Ok
<1>2. /\ ~notice /\ got[c] # "other" /\ c \notin dead /\ LeftAt(c, "dequeue")
      /\ test' = test /\ Left(c) \in Nat /\ Left(c)' = Left(c) - 1 /\ Finds(c)
  BY <1>1, AloneCall
<1>3. CASE test # "mytest2"
  <2>1. Left(c) = 7 /\ Left(c)' = 6
    BY <1>2, <1>3 DEF LeftAt
  <2> QED
    BY <1>1, <1>2, <1>3, <2>1 DEF Proceeds, Finds, Progress, MytestQueue
<1>4. CASE test = "mytest2"
  <2>1. (Left(c) = 15 /\ Left(c)' = 14) \/ (Left(c) = 9 /\ Left(c)' = 8)
    BY <1>2, <1>4 DEF LeftAt
  <2> QED
    BY <1>1, <1>2, <1>4, <2>1 DEF Proceeds, Finds, Mytest2Progress, Only, Filled
<1> QED
  BY <1>3, <1>4

(* It does not fail. *)
LEMMA AloneDequeueFails ==
  ASSUME TypeOK, InProgram, AloneInv, LocalInv, NEW c \in Clients, c \notin met,
         dequeueBufferFails(c)
  PROVE  FALSE
<1>1. /\ Running(c) /\ c \notin dead /\ LeftAt(c, "dequeue") /\ connected = None
      /\ c # None
  BY FailsLeft, ClientAssumption
<1>2. CASE test # "mytest2"
  <2>1. Left(c) = 7 /\ Progress(c)
    BY <1>1, <1>2 DEF AloneInv, LeftAt
  <2> QED
    BY <1>1, <2>1 DEF Progress
<1>3. CASE test = "mytest2"
  <2>1. Left(c) \in {9, 15} /\ Mytest2Progress(c)
    BY <1>1, <1>3 DEF LocalInv, LeftAt
  <2> QED
    BY <1>1, <2>1 DEF Mytest2Progress
<1> QED
  BY <1>2, <1>3

LEMMA AloneWaitFails ==
  ASSUME TypeOK, InProgram, AloneInv, LocalInv, NEW c \in Clients, c \notin met,
         waitForFreeSlotFails(c)
  PROVE  FALSE
<1>1. Call(c, "wait") /\ queued
  BY DEF waitForFreeSlotFails, TooManyDequeued
<1>2. LeftAt(c, "wait") /\ Finds(c)
  BY <1>1, AloneCall
<1>3. CASE test # "mytest2"
  <2>1. Left(c) = 6 /\ Progress(c)
    BY <1>2, <1>3 DEF Finds, LeftAt
  <2> QED
    BY <1>1, <2>1 DEF Progress
<1>4. CASE test = "mytest2"
  <2>1. Left(c) \in {8, 14} /\ Mytest2Progress(c)
    BY <1>2, <1>4 DEF Finds, LeftAt
  <2> QED
    BY <1>1, <2>1 DEF Mytest2Progress
<1> QED
  BY <1>3, <1>4

LEMMA AloneWait ==
  ASSUME TypeOK, InProgram, AloneInv, LocalInv, NEW c \in Clients, c \notin met,
         waitForFreeSlot(c)
  PROVE  Proceeds(c)
<1>1. /\ Call(c, "wait")
      /\ UNCHANGED <<consumer, connected, notice, queue, queued, got, nulls, dead, failed>>
  BY DEF waitForFreeSlot, CoreRest, Ok
<1>2. /\ ~notice /\ got[c] # "other" /\ c \notin dead /\ LeftAt(c, "wait")
      /\ test' = test /\ Left(c) \in Nat /\ Left(c)' = Left(c) - 1 /\ Finds(c)
      /\ CoreType /\ ClientType
  BY <1>1, AloneCall
<1>3. PICK i \in Preferred(TRUE) :
        /\ slot' = [slot EXCEPT ![c] = i]
        /\ slots' = [slots EXCEPT ![i] =
             [(IF @.buffer THEN @ ELSE Cleared)
                EXCEPT !.state = "DEQUEUED", !.by = c, !.buffer = TRUE]]
  BY DEF waitForFreeSlot
<1>4. i \in Slots /\ slots[i].state = "FREE" /\ slot'[c] = i
  BY <1>2, <1>3 DEF Preferred, InState, ClientType
<1>5. /\ OtherSlotsStay(i) /\ slots'[i].state = "DEQUEUED" /\ slots'[i].buffer
      /\ IF slots[i].buffer
         THEN slots'[i].asked = slots[i].asked /\ slots'[i].sent = slots[i].sent
         ELSE ~slots'[i].asked /\ ~slots'[i].sent
  BY <1>2, <1>3, <1>4, WaitEffect
<1>6. CASE test # "mytest2"
  <2>1. Left(c) = 6 /\ Left(c)' = 5
    BY <1>2, <1>6 DEF LeftAt
  <2>2. Progress(c)
    BY <1>2, <1>6 DEF Finds
  <2>3. \A j \in Slots : ~slots'[j].sent /\ slots'[j].state # "ACQUIRED"
    BY <1>5, <2>1, <2>2 DEF Progress, OtherSlotsStay
  <2>4. Progress(c)'
    BY <1>1, <1>4, <1>5, <2>1, <2>2, <2>3 DEF Progress
  <2>5. test = "mytest" => MytestQueue(c)'
    BY <1>1, <1>2, <2>1 DEF Finds, MytestQueue
  <2> QED
    BY <1>1, <1>2, <1>6, <2>4, <2>5 DEF Proceeds, Finds
<1>7. CASE test = "mytest2"
  <2>1. Mytest2Progress(c)
    BY <1>2, <1>7 DEF Finds
  <2>2. 1 - i \in Slots /\ 1 - i # i
    BY <1>4 DEF Slots
  <2>3. CASE Left(c) = 14 /\ Left(c)' = 13
    <3>1. slots[1 - i] = Cleared /\ ~slots[i].buffer
      <4>1. \A j \in Slots : slots[j] = Cleared
        BY <2>1, <2>3 DEF Mytest2Progress
      <4>2. ~Cleared.buffer
        BY DEF Cleared
      <4> QED
        BY <1>4, <2>2, <4>1, <4>2
    <3>2. /\ slots'[i].state = "DEQUEUED" /\ slots'[i].buffer /\ slots'[i].asked = FALSE
          /\ ~slots'[i].sent /\ slots'[1 - i] = Cleared
      BY <1>4, <1>5, <2>2, <3>1 DEF OtherSlotsStay, CoreType, SlotType
    <3>3. Mytest2Progress(c)'
      BY <1>1, <1>4, <2>1, <2>3, <3>2 DEF Mytest2Progress, Only, Filled
    <3> QED
      BY <1>1, <1>2, <1>7, <3>3 DEF Proceeds, Finds
  <2>4. CASE Left(c) = 8 /\ Left(c)' = 7
    <3>1. PICK j \in Slots : Only(j, "FREE", TRUE)
      BY <2>1, <2>4 DEF Mytest2Progress
    <3>2. j \in {k \in InState("FREE") : slots[k].buffer = TRUE}
      BY <3>1 DEF Only, Filled, InState
    <3>3. slots[i].buffer
      BY <1>2, <3>2 DEF Preferred
    <3>4. i = j
      BY <1>4, <3>1, <3>3 DEF Only, Slots, Cleared
    <3>5. /\ slots'[i].state = "DEQUEUED" /\ slots'[i].buffer /\ slots'[i].asked = TRUE
          /\ ~slots'[i].sent /\ slots'[1 - i] = Cleared
      BY <1>5, <2>2, <3>1, <3>4 DEF Only, Filled, OtherSlotsStay
    <3>6. Mytest2Progress(c)'
      BY <1>1, <1>4, <2>1, <2>4, <3>5 DEF Mytest2Progress, Only, Filled
    <3> QED
      BY <1>1, <1>2, <1>7, <3>6 DEF Proceeds, Finds
  <2> QED
    BY <1>2, <1>7, <2>3, <2>4 DEF LeftAt
<1> QED
  BY <1>6, <1>7

LEMMA AloneRequest ==
  ASSUME TypeOK, InProgram, AloneInv, LocalInv, NEW c \in Clients, c \notin met,
         requestBuffer(c)
  PROVE  Proceeds(c)
<1>1. Call(c, "request") /\ UNCHANGED <<slot, got>>
  BY DEF requestBuffer, Local
<1>2. /\ ~notice /\ got[c] # "other" /\ c \notin dead /\ LeftAt(c, "request")
      /\ test' = test /\ Left(c) \in Nat /\ Left(c)' = Left(c) - 1 /\ Finds(c)
      /\ CoreType /\ ClientType /\ c # None
  BY <1>1, AloneCall
<1> DEFINE i == slot[c]
<1>3. (test # "mytest2" /\ Left(c) = 5) \/ (test = "mytest2" /\ Left(c) = 13)
  BY <1>2 DEF LeftAt
<1>4. Dequeued(c)
  BY <1>2, <1>3 DEF Finds, Progress, Mytest2Progress, Dequeued, Only, Filled
<1>5. /\ slots' = [slots EXCEPT ![i].asked = TRUE]
      /\ UNCHANGED <<consumer, connected, notice, queue, queued, nulls, dead, failed>>
  BY <1>4 DEF requestBuffer, CoreRest, Ok
<1>6. i \in Slots /\ slot'[c] = i
  BY <1>1, <1>2 DEF ClientType
<1>7. /\ OtherSlotsStay(i) /\ slots'[i].state = slots[i].state /\ slots'[i].asked
      /\ slots'[i].buffer = slots[i].buffer /\ slots'[i].sent = slots[i].sent
  BY <1>2, <1>5, <1>6, RequestEffect
<1>8. CASE test # "mytest2"
  <2>1. Left(c)' = 4 /\ Left(c) = 5 /\ Progress(c)
    BY <1>2, <1>3, <1>8 DEF Finds
  <2>2. \A j \in Slots : ~slots'[j].sent /\ slots'[j].state # "ACQUIRED"
    BY <1>7, <2>1 DEF Progress, OtherSlotsStay
  <2>3. Progress(c)'
    BY <1>5, <1>6, <1>7, <2>1, <2>2 DEF Progress
  <2>4. test = "mytest" => MytestQueue(c)'
    BY <1>2, <1>5, <2>1 DEF Finds, MytestQueue
  <2> QED
    BY <1>1, <1>2, <1>5, <1>8, <2>3, <2>4 DEF Proceeds, Finds
<1>9. CASE test = "mytest2"
  <2>1. Left(c)' = 12 /\ Left(c) = 13 /\ Mytest2Progress(c)
    BY <1>2, <1>3, <1>9 DEF Finds
  <2>2. 1 - i \in Slots /\ 1 - i # i
    BY <1>6 DEF Slots
  <2>3. Only(i, "DEQUEUED", FALSE)
    BY <2>1 DEF Mytest2Progress
  <2> HIDE DEF i
  <2>4. /\ slots'[i].state = "DEQUEUED" /\ slots'[i].buffer /\ slots'[i].asked = TRUE
        /\ ~slots'[i].sent /\ slots'[1 - i] = Cleared
    BY <1>7, <2>2, <2>3 DEF Only, Filled, OtherSlotsStay
  <2>5. Mytest2Progress(c)'
    BY <1>5, <1>6, <2>1, <2>4 DEF Mytest2Progress, Only, Filled
  <2> QED
    BY <1>1, <1>2, <1>5, <1>9, <2>5 DEF Proceeds, Finds
<1> QED
  BY <1>8, <1>9

LEMMA AloneQueues ==
  ASSUME TypeOK, NEW c \in Clients, queueBuffer(c), Dequeued(c), slots[slot[c]].asked
  PROVE  /\ SetSlot(slot[c], "QUEUED", None) /\ slot[c] \in Slots
         /\ UNCHANGED <<consumer, connected, notice, slot, got, nulls, dead, failed>>
         /\ queue' = Append(queue,
              [slot |-> slot[c], from |-> c, sent |-> slots[slot[c]].sent, stale |-> FALSE])
         /\ queue' # <<>> /\ Len(queue') = Len(queue) + 1
         /\ \A m \in DOMAIN queue' :
              \/ m \in DOMAIN queue /\ queue'[m] = queue[m]
              \/ /\ m = Len(queue) + 1 /\ queue'[m].from = c
                 /\ queue'[m].sent = slots[slot[c]].sent /\ ~queue'[m].stale
<1> CoreType /\ ClientType
  BY TypeParts
<1> DEFINE f == [slot |-> slot[c], from |-> c, sent |-> slots[slot[c]].sent, stale |-> FALSE]
           q == queue
           p == Append(q, f)
<1>1. /\ queue' = p /\ SetSlot(slot[c], "QUEUED", None)
      /\ UNCHANGED <<consumer, connected, notice, slot, got, nulls, dead, failed>>
  BY DEF queueBuffer, CoreRest, Local, Ok
<1>2. f \in FrameType /\ q \in Seq(FrameType) /\ slot[c] \in Slots
  BY DEF CoreType, ClientType, SlotType, FrameType
<1>3. f.from = c /\ f.sent = slots[slot[c]].sent /\ ~f.stale
  OBVIOUS
<1> HIDE DEF f, q
<1>4. /\ p \in Seq(FrameType) /\ Len(p) = Len(q) + 1 /\ p # <<>>
      /\ \A m \in 1 .. Len(q) : p[m] = q[m]
      /\ p[Len(q) + 1] = f
  BY <1>2
<1> HIDE DEF p
<1>5. DOMAIN q = 1 .. Len(q) /\ Len(q) \in Nat /\ DOMAIN p = 1 .. Len(q) + 1
  BY <1>2, <1>4, FrameSeq
<1>6. ASSUME NEW m \in DOMAIN p
      PROVE  \/ m \in DOMAIN q /\ p[m] = q[m]
             \/ m = Len(q) + 1 /\ p[m] = f
  BY <1>4, <1>5, <1>6
<1>7. \A m \in DOMAIN p :
        \/ m \in DOMAIN q /\ p[m] = q[m]
        \/ m = Len(q) + 1 /\ p[m].from = c /\ p[m].sent = slots[slot[c]].sent /\ ~p[m].stale
  BY <1>3, <1>6
<1> QED
  BY <1>1, <1>2, <1>4, <1>7 DEF p, f, q

LEMMA AloneQueue ==
  ASSUME TypeOK, InProgram, AloneInv, LocalInv, NEW c \in Clients, c \notin met,
         queueBuffer(c)
  PROVE  Proceeds(c)
<1>1. Call(c, "queue")
  BY DEF queueBuffer
<1>2. /\ ~notice /\ got[c] # "other" /\ c \notin dead /\ LeftAt(c, "queue")
      /\ test' = test /\ Left(c) \in Nat /\ Left(c)' = Left(c) - 1 /\ Finds(c)
      /\ CoreType /\ ClientType /\ c # None
  BY <1>1, AloneCall
<1>3. CASE test # "mytest2"
  <2>1. Left(c) = 4 /\ Left(c)' = 3 /\ Progress(c)
    BY <1>2, <1>3 DEF LeftAt, Finds
  <2>2. /\ Dequeued(c) /\ slots[slot[c]].asked /\ connected = c
        /\ consumer \/ NoProducer(c)
        /\ \A j \in Slots : ~slots[j].sent /\ slots[j].state # "ACQUIRED"
        /\ \A m \in DOMAIN queue : ~queue[m].sent /\ (queue[m].stale \/ queue[m].from = c)
    BY <1>2, <2>1 DEF Progress, Dequeued
  <2>3. /\ SetSlot(slot[c], "QUEUED", None) /\ slot[c] \in Slots
        /\ UNCHANGED <<consumer, connected, notice, slot, got, nulls, dead, failed>>
        /\ queue' # <<>> /\ Len(queue') = Len(queue) + 1
        /\ \A m \in DOMAIN queue' :
             \/ m \in DOMAIN queue /\ queue'[m] = queue[m]
             \/ /\ m = Len(queue) + 1 /\ queue'[m].from = c
                /\ queue'[m].sent = slots[slot[c]].sent /\ ~queue'[m].stale
    BY <2>2, AloneQueues
  <2>4. slots'[slot[c]].state = "QUEUED" /\ OtherSlotsStay(slot[c])
    BY <1>2, <2>3, SetSlotEffect DEF SlotStates
  <2>5. \A j \in Slots : slots'[j].state # "ACQUIRED"
    BY <2>2, <2>4 DEF OtherSlotsStay
  <2>6. \A m \in DOMAIN queue' : ~queue'[m].sent /\ (queue'[m].stale \/ queue'[m].from = c)
    BY <2>2, <2>3
  <2>7. Progress(c)'
    BY <2>1, <2>2, <2>3, <2>5, <2>6 DEF Progress
  <2>8. ASSUME test = "mytest"
        PROVE  MytestQueue(c)'
    <3>1. Len(queue) = 0
      BY <1>2, <2>1, <2>8 DEF Finds, MytestQueue
    <3>2. Len(queue') = 1 /\ DOMAIN queue = {}
      BY <1>2, <2>1, <2>3, <2>8, <3>1 DEF Finds, MytestQueue
    <3>3. CoreType'
      BY <1>1, SlotCallTypes DEF CoreAndClientType
    <3>4. 1 \in DOMAIN queue'
      BY <2>3, <3>3, FirstFrame DEF CoreType
    <3>5. ~queue'[1].stale
      BY <2>3, <3>2, <3>4
    <3> QED
      BY <2>1, <3>2, <3>5 DEF MytestQueue
  <2> QED
    BY <1>2, <1>3, <2>3, <2>7, <2>8 DEF Proceeds, Finds
<1>4. CASE test = "mytest2"
  <2> DEFINE i == slot[c]
  <2>1. Left(c) = 7 /\ Left(c)' = 6 /\ Mytest2Progress(c)
    BY <1>2, <1>4 DEF LeftAt, Finds
  <2>2. Only(i, "DEQUEUED", TRUE) /\ queue = <<>> /\ connected = c /\ consumer
    <3>1. Only(i, "DEQUEUED", TRUE)
      BY <2>1 DEF Mytest2Progress
    <3>2. queue = <<>>
      BY <2>1 DEF Mytest2Progress
    <3>3. connected = c /\ consumer
      BY <2>1 DEF Mytest2Progress
    <3> QED
      BY <3>1, <3>2, <3>3
  <2>3. Dequeued(c) /\ slots[i].asked /\ ~slots[i].sent
    BY <1>2, <2>2 DEF Dequeued, Only, Filled
  <2>4. /\ SetSlot(i, "QUEUED", None) /\ i \in Slots
        /\ UNCHANGED <<consumer, connected, notice, slot, got, nulls, dead, failed>>
        /\ queue' = Append(queue,
             [slot |-> i, from |-> c, sent |-> slots[i].sent, stale |-> FALSE])
    BY <2>3, AloneQueues
  <2>5. slots[i].sent = FALSE
    BY <1>2, <2>3, <2>4 DEF CoreType, SlotType
  <2>6. queue' = <<[slot |-> i, from |-> c, sent |-> FALSE, stale |-> FALSE]>>
    <3>1. \A f : Append(<<>>, f) = <<f>>
      OBVIOUS
    <3> QED
      BY <2>2, <2>4, <2>5, <3>1
  <2>7. slots'[i].state = "QUEUED" /\ OtherSlotsStay(i)
    BY <1>2, <2>4, SetSlotEffect DEF SlotStates
  <2>8. 1 - i \in Slots /\ \A j \in Slots : j = i \/ j = 1 - i
    BY <2>4 DEF Slots
  <2>9. slots[1 - i].state = "FREE"
    BY <2>2 DEF Only, Cleared
  <2>10. \A j \in Slots : slots'[j].state # "ACQUIRED"
    BY <2>7, <2>8, <2>9 DEF OtherSlotsStay
  <2>11. slot'[c] = i
    BY <2>4
  <2> HIDE DEF i
  <2>12. Mytest2Progress(c)'
    <3>1. queue' = <<[slot |-> slot'[c], from |-> c, sent |-> FALSE, stale |-> FALSE]>>
      BY <2>6, <2>11
    <3>2. consumer' /\ connected' = c
      BY <2>2, <2>4
    <3> QED
      BY <2>1, <2>10, <3>1, <3>2 DEF Mytest2Progress
  <2> QED
    BY <1>2, <1>4, <2>4, <2>12 DEF Proceeds, Finds
<1> QED
  BY <1>3, <1>4

(* The frame it acquires is its own, or one left behind. *)
LEMMA AloneAcquire ==
  ASSUME TypeOK, InProgram, AloneInv, LocalInv, NEW c \in Clients, c \notin met,
         acquireBuffer(c)
  PROVE  Proceeds(c)
<1>1. /\ Call(c, "acquire") /\ queue # <<>>
      /\ slot' = [slot EXCEPT ![c] = Head(queue).slot]
      /\ got' = [got EXCEPT ![c] = Frame(c)]
      /\ UNCHANGED <<consumer, connected, notice, queued>>
      /\ ~Head(queue).stale =>
           slots' = [slots EXCEPT ![Head(queue).slot].state = "ACQUIRED",
                                  ![Head(queue).slot].by = c,
                                  ![Head(queue).slot].sent = TRUE]
      /\ ~Head(queue).sent => UNCHANGED <<dead, failed>>
      /\ nulls' = nulls
  BY DEF acquireBuffer, CoreRest, Ok, Dies, Failed
<1>2. /\ ~notice /\ got[c] # "other" /\ c \notin dead /\ LeftAt(c, "acquire")
      /\ test' = test /\ Left(c) \in Nat /\ Left(c)' = Left(c) - 1 /\ Finds(c)
      /\ CoreType /\ ClientType /\ c # None
  BY <1>1, AloneCall
<1> DEFINE h == Head(queue)
<1>3. h.slot \in Slots /\ h = queue[1] /\ 1 \in DOMAIN queue
  BY <1>1, <1>2, FirstFrame DEF FrameType
<1>4. slot'[c] = h.slot /\ got'[c] = Frame(c)
  BY <1>1, <1>2 DEF ClientType
<1>5. ~h.stale => /\ slots'[h.slot].state = "ACQUIRED" /\ slots'[h.slot].by = c
  BY <1>1, <1>2, <1>3, AcquireEffect
<1>6. CASE test # "mytest2"
  <2>1. Left(c) = 3 /\ Left(c)' = 2 /\ Progress(c)
    BY <1>2, <1>6 DEF LeftAt, Finds
  <2>2. ~h.sent /\ (h.stale \/ h.from = c)
    BY <1>3, <2>1 DEF Progress
  <2>3. (consumer \/ NoProducer(c)) /\ connected = c
    BY <2>1 DEF Progress
  <2>4. Frame(c) # "other" /\ UNCHANGED <<dead, failed>>
    BY <1>1, <2>2 DEF Frame
  <2>5. Progress(c)'
    BY <1>1, <2>1, <2>3 DEF Progress
  <2>6. ASSUME test = "mytest"
        PROVE  MytestQueue(c)'
    <3>1. ~h.stale
      BY <1>2, <1>3, <2>1, <2>6 DEF Finds, MytestQueue
    <3> HIDE DEF h
    <3> QED
      BY <1>4, <1>5, <2>1, <3>1 DEF MytestQueue
  <2> QED
    BY <1>1, <1>2, <1>4, <1>6, <2>4, <2>5, <2>6 DEF Proceeds, Finds
<1>7. CASE test = "mytest2"
  <2>1. Left(c) = 6 /\ Left(c)' = 5 /\ Mytest2Progress(c)
    BY <1>2, <1>7 DEF LeftAt, Finds
  <2>2. queue = <<[slot |-> slot[c], from |-> c, sent |-> FALSE, stale |-> FALSE]>>
    BY <2>1 DEF Mytest2Progress
  <2>3. h = [slot |-> slot[c], from |-> c, sent |-> FALSE, stale |-> FALSE]
    BY <1>3, <2>2
  <2>4. consumer /\ connected = c
    BY <2>1 DEF Mytest2Progress
  <2>5. ~h.stale /\ ~h.sent /\ h.from = c
    BY <2>3
  <2>6. Frame(c) = "own" /\ UNCHANGED <<dead, failed>>
    BY <1>1, <2>5 DEF Frame
  <2> HIDE DEF h
  <2>7. slots'[slot'[c]].state = "ACQUIRED" /\ slots'[slot'[c]].by = c
    BY <1>4, <1>5, <2>5
  <2>8. consumer' /\ connected' = c
    BY <1>1, <2>4
  <2>9. Mytest2Progress(c)'
    BY <2>1, <2>7, <2>8 DEF Mytest2Progress
  <2> QED
    BY <1>1, <1>2, <1>4, <1>7, <2>6, <2>9 DEF Proceeds, Finds
<1> QED
  BY <1>6, <1>7

(* There is one; only the consumer may be missing. *)
LEMMA AloneAcquireFails ==
  ASSUME TypeOK, InProgram, AloneInv, LocalInv, NEW c \in Clients, c \notin met,
         acquireBufferFails(c)
  PROVE  Proceeds(c)
<1>1. /\ Call(c, "acquire") /\ UNCHANGED <<notice, got, nulls>> /\ dead' = dead \cup {c}
      /\ queue = <<>> \/ Cardinality(InState("ACQUIRED")) = 2 \/ NoConsumer(c)
  BY DEF acquireBufferFails, Dies, Failed, coreVars, Local
<1>2. /\ ~notice /\ got[c] # "other" /\ LeftAt(c, "acquire") /\ Finds(c)
      /\ test' = test /\ Left(c) \in Nat /\ Left(c)' = Left(c) - 1
  BY <1>1, AloneCall
<1>3. queue # <<>> /\ \A j \in Slots : slots[j].state # "ACQUIRED"
  <2>1. CASE test # "mytest2"
    <3>1. Left(c) = 3 /\ Progress(c)
      BY <1>2, <2>1 DEF Finds, LeftAt
    <3> QED
      BY <3>1 DEF Progress
  <2>2. CASE test = "mytest2"
    <3>1. Left(c) = 6 /\ Mytest2Progress(c)
      BY <1>2, <2>2 DEF Finds, LeftAt
    <3>2. queue = <<[slot |-> slot[c], from |-> c, sent |-> FALSE, stale |-> FALSE]>>
      BY <3>1 DEF Mytest2Progress
    <3>3. \A j \in Slots : slots[j].state # "ACQUIRED"
      BY <3>1 DEF Mytest2Progress
    <3>4. \A f : <<f>> # <<>>
      OBVIOUS
    <3> QED
      BY <3>2, <3>3, <3>4
  <2> QED
    BY <2>1, <2>2
<1>4. InState("ACQUIRED") = {}
  BY <1>3 DEF InState
<1>5. Cardinality(InState("ACQUIRED")) = 0
  BY <1>4, FS_EmptySet
<1>6. <<c, "MyConsumer">> \in nulls
  BY <1>1, <1>3, <1>5
<1>7. test = "mytest3"
  BY <1>6 DEF LocalInv
<1>8. Left(c)' = 2
  BY <1>2, <1>7 DEF LeftAt
<1> QED
  BY <1>1, <1>2, <1>6, <1>7, <1>8 DEF Proceeds

LEMMA AloneRelease ==
  ASSUME TypeOK, InProgram, AloneInv, LocalInv, NEW c \in Clients, c \notin met,
         releaseBuffer(c)
  PROVE  Proceeds(c)
<1>1. /\ Call(c, "release")
      /\ UNCHANGED <<consumer, connected, notice, queue, queued, slot, got, nulls, dead>>
      /\ slots[slot[c]].state = "ACQUIRED" /\ slots[slot[c]].by = c => failed' = failed
  BY DEF releaseBuffer, Fails, Failed, coreVars, CoreRest, Local, Ok
<1>2. /\ ~notice /\ got[c] # "other" /\ c \notin dead /\ LeftAt(c, "release")
      /\ test' = test /\ Left(c) \in Nat /\ Left(c)' = Left(c) - 1 /\ Finds(c)
  BY <1>1, AloneCall
<1>3. CASE test # "mytest2"
  <2>1. Left(c) = 2 /\ Left(c)' = 1 /\ Progress(c)
    BY <1>2, <1>3 DEF LeftAt, Finds
  <2>2. test \in {"mytest", "mytest3"}
    BY <1>3, TestAssumption DEF TypeOK
  <2>3. test = "mytest" => failed' = failed
    BY <1>1, <1>2, <2>1 DEF Finds, MytestQueue
  <2>4. Progress(c)' /\ MytestQueue(c)'
    BY <1>1, <2>1 DEF Progress, MytestQueue
  <2> QED
    BY <1>1, <1>2, <1>3, <2>2, <2>3, <2>4 DEF Proceeds, Finds
<1>4. CASE test = "mytest2"
  <2>1. Left(c) = 5 /\ Left(c)' = 4 /\ Mytest2Progress(c)
    BY <1>2, <1>4 DEF LeftAt, Finds
  <2>2. slots[slot[c]].state = "ACQUIRED" /\ slots[slot[c]].by = c /\ consumer /\ connected = c
    BY <2>1 DEF Mytest2Progress
  <2>3. Mytest2Progress(c)'
    BY <1>1, <2>1, <2>2 DEF Mytest2Progress
  <2> QED
    BY <1>1, <1>2, <1>4, <2>2, <2>3 DEF Proceeds, Finds
<1> QED
  BY <1>3, <1>4

(* The further calls of mytest2. *)
LEMMA AloneCancel ==
  ASSUME TypeOK, InProgram, AloneInv, LocalInv, NEW c \in Clients, c \notin met,
         cancelBuffer(c)
  PROVE  Proceeds(c)
<1>1. Call(c, "cancel") /\ UNCHANGED <<slot, got>>
  BY DEF cancelBuffer, Local
<1>2. /\ ~notice /\ got[c] # "other" /\ c \notin dead /\ LeftAt(c, "cancel")
      /\ test' = test /\ Left(c) \in Nat /\ Left(c)' = Left(c) - 1 /\ Finds(c)
      /\ CoreType /\ ClientType /\ c # None
  BY <1>1, AloneCall
<1> DEFINE i == slot[c]
<1>3. test = "mytest2" /\ Left(c) = 12 /\ Left(c)' = 11 /\ Mytest2Progress(c)
  BY <1>2 DEF LeftAt, Finds
<1>4. Only(i, "DEQUEUED", TRUE)
  BY <1>3 DEF Mytest2Progress
<1>5. queue = <<>> /\ ~queued
  BY <1>3 DEF Mytest2Progress
<1>6. connected = c /\ consumer
  BY <1>3 DEF Mytest2Progress
<1>7. Dequeued(c)
  BY <1>2, <1>4, <1>6 DEF Dequeued, Only, Filled
<1>8. /\ SetSlot(i, "FREE", None)
      /\ UNCHANGED <<consumer, connected, notice, queue, queued, nulls, dead, failed>>
  BY <1>7 DEF cancelBuffer, CoreRest, Ok
<1>9. i \in Slots /\ 1 - i \in Slots /\ 1 - i # i /\ slot'[c] = i
  BY <1>1, <1>2 DEF ClientType, Slots
<1>10. /\ OtherSlotsStay(i) /\ slots'[i].state = "FREE"
       /\ slots'[i].buffer = slots[i].buffer /\ slots'[i].asked = slots[i].asked
       /\ slots'[i].sent = slots[i].sent
  BY <1>2, <1>8, <1>9, SetSlotEffect DEF SlotStates
<1> HIDE DEF i
<1>11. /\ slots'[i].state = "FREE" /\ slots'[i].buffer /\ slots'[i].asked = TRUE
       /\ ~slots'[i].sent /\ slots'[1 - i] = Cleared
  BY <1>4, <1>9, <1>10 DEF Only, Filled, OtherSlotsStay
<1>12. Mytest2Progress(c)'
  BY <1>3, <1>5, <1>6, <1>8, <1>9, <1>11 DEF Mytest2Progress, Only, Filled
<1> QED
  BY <1>1, <1>2, <1>3, <1>8, <1>12 DEF Proceeds, Finds

(* The new buffer gets the other slot. *)
LEMMA AloneAttach ==
  ASSUME TypeOK, InProgram, AloneInv, LocalInv, NEW c \in Clients, c \notin met,
         attachBuffer(c)
  PROVE  Proceeds(c)
<1>1. /\ Call(c, "attach")
      /\ UNCHANGED <<consumer, connected, notice, queue, queued, got, nulls, dead, failed>>
  BY DEF attachBuffer, Attach, CoreRest, Ok
<1>2. /\ ~notice /\ got[c] # "other" /\ c \notin dead /\ LeftAt(c, "attach")
      /\ test' = test /\ Left(c) \in Nat /\ Left(c)' = Left(c) - 1 /\ Finds(c)
      /\ CoreType /\ ClientType /\ c # None
  BY <1>1, AloneCall
<1>3. PICK i \in Preferred(FALSE) :
        /\ slot' = [slot EXCEPT ![c] = i]
        /\ slots' = [slots EXCEPT ![i] =
             [state |-> "DEQUEUED", buffer |-> TRUE, asked |-> TRUE,
              sent |-> "DEQUEUED" = "ACQUIRED", by |-> c]]
  BY DEF attachBuffer, Attach
<1> DEFINE k == slot[c]
<1>4. test = "mytest2" /\ Left(c) = 11 /\ Left(c)' = 10 /\ Mytest2Progress(c)
  BY <1>2 DEF LeftAt, Finds
<1>5. Only(k, "FREE", TRUE)
  BY <1>4 DEF Mytest2Progress
<1>6. queue = <<>> /\ ~queued
  BY <1>4 DEF Mytest2Progress
<1>7. connected = c /\ consumer
  BY <1>4 DEF Mytest2Progress
<1>8. k \in Slots /\ 1 - k \in Slots
  BY <1>2 DEF ClientType, Slots
<1>9. 1 - k \in {j \in InState("FREE") : slots[j].buffer = FALSE}
  BY <1>5, <1>8 DEF Only, InState, Cleared
<1>10. i \in Slots /\ ~slots[i].buffer /\ slot'[c] = i
  BY <1>2, <1>3, <1>9 DEF Preferred, InState, ClientType
<1>11. i = 1 - k /\ k = 1 - i /\ k # i
  BY <1>5, <1>8, <1>10 DEF Only, Filled, Slots
<1>12. OtherSlotsStay(i) /\ slots'[i].state = "DEQUEUED" /\ slots'[i].asked
  BY <1>2, <1>3, <1>10, AttachEffect DEF SlotStates
<1>13. slots'[1 - i] = slots[k]
  BY <1>8, <1>11, <1>12 DEF OtherSlotsStay
<1> HIDE DEF k
<1>14. /\ slots'[1 - i].state = "FREE" /\ slots'[1 - i].buffer /\ slots'[1 - i].asked = TRUE
       /\ ~slots'[1 - i].sent
  BY <1>5, <1>13 DEF Only, Filled
<1>15. Mytest2Progress(c)'
  BY <1>1, <1>4, <1>6, <1>7, <1>10, <1>12, <1>14 DEF Mytest2Progress, Filled
<1> QED
  BY <1>1, <1>2, <1>4, <1>15 DEF Proceeds, Finds

(* What is left is the buffer that was requested. *)
LEMMA AloneDetach ==
  ASSUME TypeOK, InProgram, AloneInv, LocalInv, NEW c \in Clients, c \notin met,
         detachBuffer(c)
  PROVE  Proceeds(c)
<1>1. Call(c, "detach") /\ UNCHANGED <<slot, got>>
  BY DEF detachBuffer, Detach, Local
<1>2. /\ ~notice /\ got[c] # "other" /\ c \notin dead /\ LeftAt(c, "detach")
      /\ test' = test /\ Left(c) \in Nat /\ Left(c)' = Left(c) - 1 /\ Finds(c)
      /\ CoreType /\ ClientType /\ c # None
  BY <1>1, AloneCall
<1> DEFINE i == slot[c]
<1>3. test = "mytest2" /\ Left(c) = 10 /\ Left(c)' = 9 /\ Mytest2Progress(c)
  BY <1>2 DEF LeftAt, Finds
<1>4. slots[i].state = "DEQUEUED" /\ slots[i].asked /\ Filled(1 - i, "FREE", TRUE)
  BY <1>3 DEF Mytest2Progress
<1>5. queue = <<>> /\ ~queued
  BY <1>3 DEF Mytest2Progress
<1>6. connected = c /\ consumer
  BY <1>3 DEF Mytest2Progress
<1>7. /\ slots' = [slots EXCEPT ![i] = Cleared]
      /\ UNCHANGED <<consumer, connected, notice, queue, queued, nulls, dead, failed>>
  BY <1>4 DEF detachBuffer, Detach, CoreRest, Ok
<1>8. i \in Slots /\ 1 - i \in Slots /\ 1 - i # i /\ 1 - (1 - i) = i
  BY <1>2 DEF ClientType, Slots
<1>9. OtherSlotsStay(i) /\ slots'[i] = Cleared
  BY <1>2, <1>7, <1>8, ClearEffect
<1> DEFINE j == 1 - i
<1>10. j \in Slots /\ slots'[1 - j] = Cleared /\ slots'[j] = slots[j]
  BY <1>8, <1>9 DEF OtherSlotsStay
<1>11. Filled(j, "FREE", TRUE)
  BY <1>4
<1> HIDE DEF i, j
<1>12. \E k \in Slots : /\ slots'[k].state = "FREE" /\ slots'[k].buffer
                        /\ slots'[k].asked = TRUE /\ ~slots'[k].sent
                        /\ slots'[1 - k] = Cleared
  BY <1>10, <1>11 DEF Filled
<1>13. Mytest2Progress(c)'
  BY <1>3, <1>5, <1>6, <1>7, <1>12 DEF Mytest2Progress, Only, Filled
<1> QED
  BY <1>1, <1>2, <1>3, <1>7, <1>13 DEF Proceeds, Finds

LEMMA AloneAttachConsumer ==
  ASSUME TypeOK, InProgram, AloneInv, LocalInv, NEW c \in Clients, c \notin met,
         attachConsumerBuffer(c)
  PROVE  Proceeds(c)
<1>1. /\ Call(c, "attachConsumer")
      /\ UNCHANGED <<consumer, connected, notice, queue, queued, got, nulls, dead, failed>>
  BY DEF attachConsumerBuffer, Attach, CoreRest, Ok
<1>2. /\ ~notice /\ got[c] # "other" /\ c \notin dead /\ LeftAt(c, "attachConsumer")
      /\ test' = test /\ Left(c) \in Nat /\ Left(c)' = Left(c) - 1 /\ Finds(c)
      /\ CoreType /\ ClientType /\ c # None
  BY <1>1, AloneCall
<1>3. PICK i \in Preferred(FALSE) :
        /\ slot' = [slot EXCEPT ![c] = i]
        /\ slots' = [slots EXCEPT ![i] =
             [state |-> "ACQUIRED", buffer |-> TRUE, asked |-> TRUE,
              sent |-> "ACQUIRED" = "ACQUIRED", by |-> c]]
  BY DEF attachConsumerBuffer, Attach
<1>4. test = "mytest2" /\ Left(c) = 4 /\ Left(c)' = 3 /\ Mytest2Progress(c)
  BY <1>2 DEF LeftAt, Finds
<1>5. connected = c /\ consumer
  BY <1>4 DEF Mytest2Progress
<1>6. i \in Slots /\ slot'[c] = i
  BY <1>2, <1>3 DEF Preferred, InState, ClientType
<1>7. slots'[i].state = "ACQUIRED"
  BY <1>2, <1>3, <1>6, AttachEffect DEF SlotStates
<1>8. Mytest2Progress(c)'
  BY <1>1, <1>4, <1>5, <1>6, <1>7 DEF Mytest2Progress
<1> QED
  BY <1>1, <1>2, <1>4, <1>8 DEF Proceeds, Finds

LEMMA AloneDetachConsumer ==
  ASSUME TypeOK, InProgram, AloneInv, LocalInv, NEW c \in Clients, c \notin met,
         detachConsumerBuffer(c) \/ discardFreeBuffers(c)
  PROVE  Proceeds(c)
<1>1. CASE detachConsumerBuffer(c)
  <2>1. Call(c, "detachConsumer") /\ UNCHANGED <<slot, got>>
    BY <1>1 DEF detachConsumerBuffer, Detach, Local
  <2>2. /\ ~notice /\ got[c] # "other" /\ c \notin dead /\ LeftAt(c, "detachConsumer")
        /\ test' = test /\ Left(c) \in Nat /\ Left(c)' = Left(c) - 1 /\ Finds(c)
    BY <2>1, AloneCall
  <2>3. test = "mytest2" /\ Left(c) = 3 /\ Left(c)' = 2 /\ Mytest2Progress(c)
    BY <2>2 DEF LeftAt, Finds
  <2>4. slots[slot[c]].state = "ACQUIRED" /\ connected = c /\ consumer
    BY <2>3 DEF Mytest2Progress
  <2>5. UNCHANGED <<consumer, connected, notice, queue, queued, nulls, dead, failed>>
    BY <1>1, <2>4 DEF detachConsumerBuffer, Detach, CoreRest, Ok
  <2>6. Mytest2Progress(c)'
    BY <2>3, <2>4, <2>5 DEF Mytest2Progress
  <2> QED
    BY <2>1, <2>2, <2>3, <2>5, <2>6 DEF Proceeds, Finds
<1>2. CASE discardFreeBuffers(c)
  <2>1. /\ Call(c, "discard")
        /\ UNCHANGED <<consumer, connected, notice, queue, queued, slot, got, nulls, dead, failed>>
    BY <1>2 DEF discardFreeBuffers, CoreRest, Local, Ok
  <2>2. /\ ~notice /\ got[c] # "other" /\ c \notin dead /\ LeftAt(c, "discard")
        /\ test' = test /\ Left(c) \in Nat /\ Left(c)' = Left(c) - 1 /\ Finds(c)
    BY <2>1, AloneCall
  <2>3. test = "mytest2" /\ Left(c) = 2 /\ Left(c)' = 1 /\ Mytest2Progress(c)
    BY <2>2 DEF LeftAt, Finds
  <2>4. connected = c /\ consumer
    BY <2>3 DEF Mytest2Progress
  <2>5. Mytest2Progress(c)'
    BY <2>1, <2>3, <2>4 DEF Mytest2Progress
  <2> QED
    BY <2>1, <2>2, <2>3, <2>5 DEF Proceeds, Finds
<1> QED
  BY <1>1, <1>2

(* One that is started alone finds the queue as nobody is connected. *)
LEMMA AloneStart ==
  ASSUME TypeOK, InProgram, Connection, LocalInv, NEW c \in Clients, Start(c), c \notin met'
  PROVE  /\ \A d \in Clients : ~Running(d)
         /\ ~notice' /\ met' = met /\ \A d \in Clients : d # c => todo'[d] = <<>>
         /\ got'[c] # "other" /\ c \notin dead' /\ Finds(c)'
<1>1. /\ ~Running(c) /\ todo' = [todo EXCEPT ![c] = Whole] /\ test' = test
      /\ UNCHANGED <<consumer, connected, notice, slots, queue, queued>>
      /\ UNCHANGED <<slot, got, nulls, dead, failed>>
  BY DEF Start, Whole, coreVars
<1>2. \A d \in Clients : ~Running(d)
  BY DEF Start
<1>3. ~notice /\ met' = met
  BY DEF Start
<1>4. c \notin dead /\ got[c] = "none"
  BY <1>1 DEF InProgram
<1>5. todo \in [Clients -> Seq(Calls)] /\ connected \in Clients \cup {None}
  BY DEF TypeOK
<1>6. todo'[c] = Whole /\ \A d \in Clients : d # c => todo'[d] = <<>>
  BY <1>1, <1>2, <1>5 DEF Running
<1>7. Left(c)' = Len(Whole)
  BY <1>6 DEF Left
<1>8. connected = None
  BY <1>2, <1>3, <1>5 DEF Connection
<1>9. CASE test = "mytest3"
  <2>1. Left(c)' = 10
    BY <1>7, <1>9, WholeMytest3
  <2>2. \A i \in Slots : slots[i].state # "ACQUIRED" /\ ~slots[i].sent
    BY <1>8, <1>9 DEF Connection
  <2>3. \A m \in DOMAIN queue : queue[m].stale /\ ~queue[m].sent
    BY <1>8, <1>9 DEF Connection
  <2>4. Progress(c)'
    BY <1>1, <1>8, <2>1, <2>2, <2>3 DEF Progress
  <2> QED
    BY <1>1, <1>2, <1>3, <1>4, <1>6, <1>9, <2>4 DEF Finds
<1>10. CASE test # "mytest3"
  <2>1. queue = <<>> /\ \A i \in Slots : slots[i] = Cleared
    BY <1>2, <1>10 DEF LocalInv
  <2>2. \A i \in Slots : slots[i].state # "ACQUIRED" /\ ~slots[i].sent
    BY <2>1 DEF Cleared
  <2>3. DOMAIN queue = {}
    BY <2>1
  <2>4. CASE test = "mytest"
    <3>1. Left(c)' = 10
      BY <1>7, <2>4, WholeMytest
    <3>2. Progress(c)'
      BY <1>1, <1>8, <2>2, <2>3, <3>1 DEF Progress
    <3>3. MytestQueue(c)'
      BY <1>1, <2>1, <3>1 DEF MytestQueue
    <3> QED
      BY <1>1, <1>2, <1>3, <1>4, <1>6, <2>4, <3>2, <3>3 DEF Finds
  <2>5. CASE test = "mytest2"
    <3>1. Left(c)' = 18
      BY <1>7, <2>5, WholeMytest2
    <3>2. Mytest2Progress(c)'
      BY <1>1, <1>8, <2>1, <3>1 DEF Mytest2Progress
    <3> QED
      BY <1>1, <1>2, <1>3, <1>4, <1>6, <2>5, <3>2 DEF Finds
  <2> QED
    BY <1>10, <2>4, <2>5, TestAssumption DEF TypeOK
<1> QED
  BY <1>9, <1>10

LEMMA AloneServer ==
  ASSUME TypeOK, AloneInv, ServerStep, NEW c \in Clients, Running(c), c \notin met,
         c \notin dead, test # "mytest2"
  PROVE  Progress(c)'
<1>1. Progress(c)
  BY DEF AloneInv
<1>2. Left(c)' = Left(c) /\ (consumer => consumer')
  BY DEF ServerStep, clientVars, Left
<1>3. UNCHANGED <<test, connected, slots, queue, queued, slot, nulls>>
  BY DEF ServerStep, clientVars
<1> QED
  BY <1>1, <1>2, <1>3 DEF Progress

(* Every step of a client that is alone. *)
LEMMA AloneSteps ==
  ASSUME TypeOK, InProgram, Connection, AloneInv, LocalInv, NEW c \in Clients, c \notin met,
         Step(c), ~Ends(c)
  PROVE  Proceeds(c)
BY AloneCreate, AloneConsumerConnect, AloneGetProducer, AloneGetConsumer, AloneConnectToNull,
   AloneConnect, AloneDequeue, AloneDequeueFails, AloneWait, AloneWaitFails, AloneRequest,
   AloneQueue, AloneAcquire, AloneAcquireFails, AloneRelease, AloneCancel, AloneAttach, AloneDetach,
   AloneAttachConsumer, AloneDetachConsumer
DEF Step, return

(* What a step of a client leaves to the others. *)
LEMMA StepOfOne ==
  ASSUME TypeOK, InProgram, NEW c \in Clients, Step(c), ~Ends(c)
  PROVE  /\ Running(c) /\ met' = met /\ UNCHANGED <<test, server>>
         /\ todo'[c] # <<>> /\ \A d \in Clients : d # c => todo'[d] = todo[d]
<1>1. CASE dequeueBufferFails(c)
  BY <1>1, FailsLeft DEF Running
<1>2. ASSUME NEW call \in Calls, Call(c, call), call # "return"
      PROVE  /\ Running(c) /\ met' = met /\ UNCHANGED <<test, server>>
             /\ todo'[c] # <<>> /\ \A d \in Clients : d # c => todo'[d] = todo[d]
  BY <1>2, CallLeft DEF Running
<1>3. dequeueBufferFails(c) \/ \E call \in Calls \ {"return"} : Call(c, call)
  BY DEF Step, return, Create, ConsumerConnect, GetProducer, GetConsumer, getService,
         connectToNull, connect, dequeueBuffer,
         waitForFreeSlot, waitForFreeSlotFails, requestBuffer, queueBuffer,
         acquireBuffer, acquireBufferFails, releaseBuffer, cancelBuffer, attachBuffer,
         attachConsumerBuffer, Attach, detachBuffer, detachConsumerBuffer, Detach,
         discardFreeBuffers, Calls
<1> QED
  BY <1>1, <1>2, <1>3

IsAlone(c) ==
  /\ ~notice
  /\ \A d \in Clients : Running(d) => d = c
  /\ got[c] # "other"
  /\ c \in dead => \/ Left(c) = 7 /\ NoProducer(c)
                   \/ Left(c) = 2 /\ NoConsumer(c)
  /\ test # "mytest2" /\ c \notin dead => Progress(c)

LEMMA AloneStep ==
  ASSUME TypeOK, InProgram, Connection, AloneInv, LocalInv, [Next]_vars
  PROVE  AloneInv'
<1> SUFFICES ASSUME NEW e \in Clients, todo'[e] # <<>>, e \notin met'
             PROVE  IsAlone(e)'
  BY DEF AloneInv, IsAlone, Running
<1>0. todo[e] # <<>> /\ e \notin met => IsAlone(e)
  BY DEF AloneInv, IsAlone, Running
<1>1. ASSUME NEW c \in Clients, Start(c)
      PROVE  IsAlone(e)'
  <2>1. e = c \/ todo[e] # <<>>
    BY <1>1 DEF Start, TypeOK
  <2>2. CASE e = c
    BY <1>1, <2>2, AloneStart DEF IsAlone, Finds, Running
  <2>3. CASE e # c
    <3>1. Running(e)
      BY <2>1, <2>3 DEF Running
    <3>2. c \in met' => e \in met'
      BY <1>1, <3>1 DEF Start
    <3>3. c \notin met'
      BY <3>2
    <3> QED
      BY <1>1, <3>1, <3>3, AloneStart
  <2> QED
    BY <2>2, <2>3
<1>2. ASSUME NEW c \in Clients, Ends(c)
      PROVE  IsAlone(e)'
  <2>1. e # c /\ todo'[e] = todo[e] /\ met' = met \ {c} /\ Running(c)
    BY <1>2 DEF Ends, TypeOK
  <2>2. IsAlone(e)
    BY <1>0, <2>1
  <2> QED
    BY <2>1, <2>2 DEF IsAlone
<1>3. ASSUME NEW c \in Clients, Step(c), ~Ends(c)
      PROVE  IsAlone(e)'
  <2>1. /\ Running(c) /\ met' = met /\ UNCHANGED <<test, server>>
        /\ todo'[c] # <<>> /\ \A d \in Clients : d # c => todo'[d] = todo[d]
    BY <1>3, StepOfOne
  <2>2. e = c
    BY <1>0, <2>1 DEF IsAlone
  <2>3. IsAlone(c)
    BY <1>0, <2>1, <2>2 DEF Running
  <2>4. Proceeds(c)
    BY <1>3, <2>1, <2>2, AloneSteps
  <2> QED
    BY <2>1, <2>2, <2>3, <2>4 DEF IsAlone, Proceeds, Finds, Running
<1>4. ASSUME ServerStep
      PROVE  IsAlone(e)'
  <2>1. UNCHANGED <<test, notice, clientVars>>
    BY <1>4 DEF ServerStep
  <2>2. IsAlone(e) /\ Running(e) /\ e \notin met
    BY <1>0, <2>1 DEF clientVars, Running
  <2>3. test # "mytest2" /\ e \notin dead => Progress(e)'
    BY <1>4, <2>2, AloneServer
  <2> QED
    BY <2>1, <2>2, <2>3 DEF IsAlone, clientVars, Running, Left
<1>5. ASSUME binderDied
      PROVE  IsAlone(e)'
  BY <1>0, <1>5 DEF binderDied, clientVars, IsAlone
<1>6. CASE UNCHANGED vars
  BY <1>0, <1>6 DEF vars, coreVars, clientVars, IsAlone, Running, Progress, Left
<1> QED
  BY <1>1, <1>2, <1>3, <1>4, <1>5, <1>6 DEF Next

LEMMA LocalStep ==
  ASSUME TypeOK, InProgram, Connection, AloneInv, LocalInv, [Next]_vars
  PROVE  LocalInv'
<1>0. test' = test
  BY TodoStep
<1>1. CASE test = "mytest3"
  BY <1>0, <1>1 DEF LocalInv
<1> DEFINE Nobody ==
             (\A c \in Clients : todo[c] = <<>>) =>
               connected = None /\ queue = <<>> /\ \A i \in Slots : slots[i] = Cleared
           Everybody ==
             \A c \in Clients : todo[c] # <<>> =>
               /\ test = "mytest" => MytestQueue(c)
               /\ test = "mytest2" => Mytest2Progress(c)
           Rest == server = <<>> /\ ~notice /\ ~failed /\ met = {} /\ nulls = {}
<1>2. ASSUME test # "mytest3", Nobody', Everybody', Rest'
      PROVE  LocalInv'
  BY <1>2 DEF LocalInv, Running
<1>3. test # "mytest3" => Nobody /\ Everybody /\ Rest
  BY DEF LocalInv, Running
<1>4. ASSUME test # "mytest3", UNCHANGED vars
      PROVE  LocalInv'
  <2>1. /\ Nobody' /\ Rest'
    BY <1>3, <1>4 DEF vars, coreVars, clientVars
  <2>2. Everybody'
    BY <1>3, <1>4 DEF vars, coreVars, clientVars, MytestQueue, Mytest2Progress, Left, Only,
                      Filled
  <2> QED
    BY <1>2, <1>4, <2>1, <2>2
<1>5. ASSUME test # "mytest3", ServerStep \/ binderDied
      PROVE  FALSE
  BY <1>3, <1>5 DEF ServerStep, binderDied
<1>6. ASSUME test # "mytest3", NEW c \in Clients, Start(c)
      PROVE  LocalInv'
  <2>1. \A d \in Clients : ~Running(d)
    BY <1>6 DEF Start
  <2>2. Rest' /\ c \notin met'
    BY <1>3, <1>6, <2>1 DEF Start, coreVars
  <2>3. (\A d \in Clients : d # c => todo'[d] = <<>>) /\ Finds(c)'
    BY <1>6, <2>2, AloneStart
  <2>4. todo'[c] # <<>>
    <3>1. todo' = [todo EXCEPT ![c] = Append(Program, "return")] /\ Whole \in Seq(Calls)
      BY <1>6, WholeIs DEF Start
    <3>2. todo'[c] = Whole
      BY <3>1 DEF TypeOK, Whole
    <3> DEFINE n == Len(Whole)
    <3>3. n \in 10 .. 18
      BY WholeIs
    <3> HIDE DEF n
    <3>4. n # 0
      BY <3>3
    <3>5. Whole # <<>>
      BY <3>4 DEF n
    <3> QED
      BY <3>2, <3>5
  <2>5. Everybody'
    BY <2>3 DEF Finds
  <2> QED
    BY <1>2, <1>6, <2>2, <2>4, <2>5
<1>7. ASSUME test # "mytest3", NEW c \in Clients, Ends(c)
      PROVE  LocalInv'
  <2>1. Running(c) /\ c \notin met
    BY <1>3, <1>7 DEF Ends
  <2>2. \A d \in Clients : d # c => todo[d] = <<>>
    BY <2>1 DEF AloneInv, Running
  <2>3. \A d \in Clients : todo'[d] = <<>>
    BY <1>7, <2>2 DEF Ends, TypeOK
  <2>4. Nobody' /\ Rest'
    BY <1>3, <1>7 DEF Ends
  <2> QED
    BY <1>2, <1>7, <2>3, <2>4
<1>8. ASSUME test # "mytest3", NEW c \in Clients, Step(c), ~Ends(c)
      PROVE  LocalInv'
  <2>1. /\ Running(c) /\ met' = met /\ UNCHANGED <<test, server>>
        /\ todo'[c] # <<>> /\ \A d \in Clients : d # c => todo'[d] = todo[d]
    BY <1>8, StepOfOne
  <2>2. c \notin met
    BY <1>3, <1>8
  <2>3. \A d \in Clients : d # c => todo[d] = <<>>
    BY <2>1, <2>2 DEF AloneInv, Running
  <2>4. Proceeds(c)
    BY <1>8, <2>2, AloneSteps
  <2>5. c \notin dead' /\ Finds(c)' /\ notice' = notice /\ UNCHANGED <<nulls, failed>>
    BY <1>8, <2>4 DEF Proceeds
  <2>6. Everybody'
    BY <2>1, <2>3, <2>5 DEF Finds
  <2>7. Rest' /\ Nobody'
    BY <1>3, <1>8, <2>1, <2>5
  <2> QED
    BY <1>2, <1>8, <2>6, <2>7
<1> QED
  BY <1>1, <1>4, <1>5, <1>6, <1>7, <1>8 DEF Next

-----------------------------------------------------------------------------
(* The theorems.                                                           *)

LEMMA Initially == Init => IInv
<1> SUFFICES ASSUME Init
             PROVE  IInv
  OBVIOUS
<1>1. TypeOK
  <2>1. Cleared \in SlotType /\ \A c \in Clients : <<>> \in Seq(Calls)
    BY DEF Cleared, SlotType, SlotStates
  <2>2. CoreType
    <3>1. <<>> \in Seq(FrameType)
      OBVIOUS
    <3> QED
      BY <2>1, <3>1 DEF Init, CoreType
  <2>3. ClientType
    BY DEF Init, ClientType, Slots
  <2>4. server \in Seq(Calls)
    <3>1. mytest3_server \in Seq(Calls) /\ <<>> \in Seq(Calls)
      BY DEF mytest3_server, createBufferQueue, Calls
    <3> QED
      BY <3>1 DEF Init
  <2>5. todo \in [Clients -> Seq(Calls)] /\ test \in Tests /\ services \subseteq Services
    BY <2>1 DEF Init
  <2> QED
    BY <2>2, <2>3, <2>4, <2>5, TypeParts
<1>2. \A c \in Clients : ~Running(c) /\ Left(c) = 0
  BY DEF Init, Running, Left
<1>3. InProgram
  <2>1. Len(Whole) \in 10 .. 18
    BY <1>1, WholeIs
  <2>2. \A c \in Clients : c \notin dead \cup met /\ got[c] = "none"
    BY DEF Init
  <2> QED
    BY <1>2, <2>1, <2>2 DEF InProgram
<1>4. Connection
  <2>1. DOMAIN queue = {} /\ connected = None
    BY DEF Init
  <2>2. \A i \in Slots : slots[i].state # "ACQUIRED" /\ ~slots[i].sent
    BY DEF Init, Cleared
  <2>3. test = "mytest3" => server = mytest3_server /\ services = {}
    BY DEF Init
  <2>4. ServerConnects
    <3>1. \A i \in 1 .. 4 : 4 - 4 + i = i
      OBVIOUS
    <3>2. \A i \in 1 .. 4 : mytest3_server[i] = mytest3_server[4 - 4 + i]
      BY <3>1
    <3> DEFINE n == Len(server)
               k == Len(mytest3_server)
    <3>3. ASSUME test = "mytest3"
          PROVE  n = 4 /\ k = 4 /\ services = {} /\ server = mytest3_server
      BY <2>3, <3>3, ServerCalls
    <3> HIDE DEF n, k
    <3>4. test = "mytest3" => /\ n <= k /\ n > 2 /\ services = {}
                              /\ \A i \in 1 .. n : server[i] = mytest3_server[k - n + i]
      BY <3>2, <3>3
    <3> QED
      BY <3>4 DEF ServerConnects, n, k
  <2>5. StaleUnsent /\ SomebodyConnected /\ ForgottenQueue
    BY <2>1, <2>2 DEF StaleUnsent, SomebodyConnected, ForgottenQueue
  <2> QED
    BY <2>4, <2>5, ConnectionParts
<1>5. AloneInv
  BY <1>2 DEF AloneInv
<1>6. LocalInv
  BY <1>2 DEF Init, LocalInv
<1> QED
  BY <1>1, <1>3, <1>4, <1>5, <1>6 DEF IInv

(* The inductive invariant holds. *)
THEOREM Invariance == Spec => []IInv
<1>1. IInv /\ [Next]_vars => IInv'
  BY TypeStep, ProgramStep, ConnectionStep, AloneStep, LocalStep DEF IInv
<1> QED
  BY <1>1, Initially, PTL DEF Spec

(* Every variable keeps its type: no call leaves a slot that does not      *)
(* exist, and no frame comes from anything but a client.                   *)
THEOREM TypeCorrect == Spec => []TypeOK
<1>1. IInv => TypeOK
  BY DEF IInv
<1> QED
  BY <1>1, Invariance, PTL

(* A client of mytest3 (main, client.cpp) that meets no other reads the    *)
(* frame it has queued, or one that a client that was killed left behind.  *)
(* It dies only in connect, without the producer, or in acquireBuffer,     *)
(* without the consumer.                                                   *)
THEOREM AloneClientsReadTheirOwn == Spec => []AloneReadsOwn
<1>1. IInv => AloneReadsOwn
  <2> DEFINE DiesAt(c) == \/ Head(todo[c]) = "dequeue" /\ NoProducer(c)
                          \/ Head(todo[c]) = "release" /\ NoConsumer(c)
  <2> SUFFICES ASSUME IInv, NEW c \in Clients \ met
               PROVE  (c \in dead => DiesAt(c)) /\ got[c] # "other"
    BY DEF AloneReadsOwn
  <2>1. CASE ~Running(c)
    BY <2>1 DEF IInv, InProgram
  <2>2. CASE Running(c)
    <3>1. /\ got[c] # "other"
          /\ c \in dead => \/ Left(c) = 7 /\ NoProducer(c)
                           \/ Left(c) = 2 /\ NoConsumer(c)
      BY <2>2 DEF IInv, AloneInv
    <3>2. c \in dead => test = "mytest3"
      BY <3>1 DEF IInv, LocalInv
    <3>3. LeftAt(c, Head(todo[c]))
      BY <2>2, Place DEF IInv
    <3>4. c \in dead => DiesAt(c)
      BY <3>1, <3>2, <3>3 DEF LeftAt
    <3> QED
      BY <3>1, <3>4
  <2> QED
    BY <2>1, <2>2
<1> QED
  BY <1>1, Invariance, PTL

(* No call of mytest and mytest2 fails, however often and with however     *)
(* many clients they are run one after the other.                          *)
THEOREM LocalCallsAllSucceed == Spec => []LocalCallsSucceed
<1>1. IInv => LocalCallsSucceed
  BY DEF IInv, LocalInv, LocalCallsSucceed
<1> QED
  BY <1>1, Invariance, PTL
=============================================================================
