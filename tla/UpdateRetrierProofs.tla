-------------------------- MODULE UpdateRetrierProofs --------------------------
(***************************************************************************)
(* For every set of updaters, all capacities of the channels and all       *)
(* delays: type correctness of UpdateRetrier, that it implements           *)
(* RetryQueue, that it never waits on itself as long as there are too few  *)
(* updaters to fill both channels, and that it gives every updater up      *)
(* after as many retries as fit into its life time.                        *)
(***************************************************************************)
EXTENDS UpdateRetrier, SequenceTheorems, FiniteSetTheorems, TLAPS

\* The seconds a prover may take for a step.
USE SMTT(30), ZenonT(30)

-----------------------------------------------------------------------------
(* The inductive invariant.                                                 *)

\* What run has taken out of data, and what is in targetChannel, is due.
DueOK ==
  /\ run.timestamp <= now
  /\ run.pc = "push" => run.item \in Item /\ run.item.deliveryTime <= now
  /\ \A i \in 1 .. Len(targetChannel) : targetChannel[i].deliveryTime <= now

\* The handler has an updater exactly while it is in clusterUpdate().
HandlerOK ==
  /\ handler.pc = "update" => handler.value \in Updaters /\ sending["handler"] = None
  /\ handler.pc # "update" => handler.value = "none"

Distinct(q) == \A i, j \in 1 .. Len(q) : q[i].value = q[j].value => i = j

Outside(u, q) == \A i \in 1 .. Len(q) : q[i].value # u

\* Nobody has an updater that somebody else has or that is in the retrier.
Unique ==
  /\ Distinct(Pipeline)
  /\ \A p \in Senders : sending[p] # None => Outside(sending[p].value, Pipeline)
  /\ \A p, q \in Senders :
       p # q /\ sending[p] # None => sending[p].value # sending[q].value
  /\ handler.pc = "update" => /\ Outside(handler.value, Pipeline)
                              /\ \A p \in Senders : sending[p].value # handler.value

IInv == TypeOK /\ DueOK /\ HandlerOK /\ Unique

-----------------------------------------------------------------------------
(* Queues with distinct updaters.                                           *)

\* Appending an updater that is not in the queue keeps its updaters distinct.
LEMMA DistinctAppend ==
  ASSUME NEW q \in Seq(Item), NEW item \in Item, Distinct(q), Outside(item.value, q)
  PROVE  Distinct(Append(q, item))
<1>1. /\ Len(Append(q, item)) = Len(q) + 1 /\ Len(q) \in Nat
      /\ \A i \in 1 .. Len(q) : Append(q, item)[i] = q[i]
      /\ Append(q, item)[Len(q) + 1] = item
  BY AppendProperties, LenProperties
<1> QED
  BY <1>1 DEF Distinct, Outside

\* An updater stays outside when another one is appended.
LEMMA OutsideAppend ==
  ASSUME NEW q \in Seq(Item), NEW item \in Item, NEW u, u # item.value, Outside(u, q)
  PROVE  Outside(u, Append(q, item))
<1>1. /\ Len(Append(q, item)) = Len(q) + 1 /\ Len(q) \in Nat
      /\ \A i \in 1 .. Len(q) : Append(q, item)[i] = q[i]
      /\ Append(q, item)[Len(q) + 1] = item
  BY AppendProperties, LenProperties
<1> QED
  BY <1>1 DEF Outside

\* The rest of a queue has distinct updaters, and no longer the first one.
LEMMA DistinctTail ==
  ASSUME NEW q \in Seq(Item), q # <<>>, Distinct(q)
  PROVE  Distinct(Tail(q)) /\ Outside(Head(q).value, Tail(q))
<1>1. /\ Len(Tail(q)) = Len(q) - 1 /\ Len(q) \in Nat \ {0}
      /\ \A i \in 1 .. Len(Tail(q)) : Tail(q)[i] = q[i + 1]
      /\ Head(q) = q[1]
  BY HeadTailProperties, LenProperties, EmptySeq
<1> QED
  BY <1>1 DEF Distinct, Outside

\* An updater stays outside when the first one leaves.
LEMMA OutsideTail ==
  ASSUME NEW q \in Seq(Item), q # <<>>, NEW u, Outside(u, q)
  PROVE  Outside(u, Tail(q))
<1>1. /\ Len(Tail(q)) = Len(q) - 1 /\ Len(q) \in Nat \ {0}
      /\ \A i \in 1 .. Len(Tail(q)) : Tail(q)[i] = q[i + 1]
  BY HeadTailProperties, LenProperties, EmptySeq
<1> QED
  BY <1>1 DEF Outside

-----------------------------------------------------------------------------
(* What the actions do to the pipeline.                                     *)

\* The first element moves from the second sequence to the end of the first.
LEMMA MoveHead ==
  ASSUME NEW S, NEW s \in Seq(S), NEW t \in Seq(S), t # <<>>
  PROVE  (s \o <<Head(t)>>) \o Tail(t) = s \o t
<1>1. Head(t) \in S /\ Tail(t) \in Seq(S)
  BY HeadTailProperties
<1>2. <<Head(t)>> \in Seq(S)
  BY <1>1
<1>3. <<Head(t)>> \o Tail(t) = t
  BY <1>1, <1>2
<1> QED
  BY <1>1, <1>2, <1>3, ConcatAssociative

\* The head and the tail of a concatenation.
LEMMA ConcatTail ==
  ASSUME NEW S, NEW s \in Seq(S), NEW t \in Seq(S), s # <<>>
  PROVE  s \o t # <<>> /\ Head(s \o t) = Head(s) /\ Tail(s \o t) = Tail(s) \o t
<1>1. s \o t \in Seq(S) /\ Len(s \o t) = Len(s) + Len(t) /\ Len(s) \in Nat \ {0}
      /\ Len(t) \in Nat
  BY ConcatProperties, LenProperties, EmptySeq
<1>2. s \o t # <<>>
  BY <1>1
<1>3. Tail(s) \in Seq(S) /\ Len(Tail(s)) = Len(s) - 1
  BY HeadTailProperties
<1>4. Head(s \o t) = Head(s)
  BY <1>1, ConcatProperties
<1>5. Tail(s \o t) = Tail(s) \o t
  <2>1. Tail(s \o t) \in Seq(S) /\ Len(Tail(s \o t)) = Len(s) + Len(t) - 1
    BY <1>1, <1>2, HeadTailProperties
  <2>2. Tail(s) \o t \in Seq(S) /\ Len(Tail(s) \o t) = Len(s) + Len(t) - 1
    BY <1>1, <1>3, ConcatProperties
  <2>3. ASSUME NEW i \in 1 .. Len(s) + Len(t) - 1
        PROVE  Tail(s \o t)[i] = (Tail(s) \o t)[i]
    <3>1. Tail(s \o t)[i] = (s \o t)[i + 1]
      BY <1>1, <1>2, <2>1, HeadTailProperties
    <3>2. (s \o t)[i + 1] = IF i + 1 <= Len(s) THEN s[i + 1] ELSE t[i + 1 - Len(s)]
      BY <1>1, ConcatProperties
    <3>3. (Tail(s) \o t)[i] = IF i <= Len(s) - 1 THEN Tail(s)[i] ELSE t[i - (Len(s) - 1)]
      BY <1>1, <1>3, ConcatProperties
    <3>4. i <= Len(s) - 1 => Tail(s)[i] = s[i + 1]
      BY <1>1, <1>3, HeadTailProperties
    <3>5. i + 1 - Len(s) = i - (Len(s) - 1)
      BY <1>1
    <3> QED
      BY <3>1, <3>2, <3>3, <3>4, <3>5, <1>1
  <2> QED
    BY <2>1, <2>2, <2>3, SeqEqual
<1> QED
  BY <1>2, <1>4, <1>5

\* The parts of the pipeline are sequences of items.
LEMMA PipelineType ==
  ASSUME TypeOK, DueOK
  PROVE  /\ targetChannel \in Seq(Item) /\ InRun \in Seq(Item)
         /\ data \in Seq(Item) /\ updateChannel \in Seq(Item)
         /\ targetChannel \o InRun \in Seq(Item)
         /\ (targetChannel \o InRun) \o data \in Seq(Item)
         /\ Pipeline \in Seq(Item)
<1>1. /\ targetChannel \in Seq(Item) /\ data \in Seq(Item) /\ updateChannel \in Seq(Item)
      /\ run.pc = "push" => run.item \in Item
  BY DEF TypeOK, DueOK
<1>2. InRun \in Seq(Item)
  BY <1>1 DEF InRun
<1>3. targetChannel \o InRun \in Seq(Item)
  BY <1>1, <1>2, ConcatProperties
<1>4. (targetChannel \o InRun) \o data \in Seq(Item)
  BY <1>1, <1>3, ConcatProperties
<1>5. Pipeline \in Seq(Item)
  BY <1>1, <1>4, ConcatProperties DEF Pipeline
<1> QED
  BY <1>1, <1>2, <1>3, <1>4, <1>5

\* Sending an item appends it to the pipeline.
LEMMA SendPipeline ==
  ASSUME TypeOK, DueOK, NEW p \in Senders, Send(p)
  PROVE  sending[p] \in Item /\ Pipeline' = Append(Pipeline, sending[p])
<1> DEFINE s == (targetChannel \o InRun) \o data
<1>1. sending[p] \in Item
  BY DEF TypeOK, Send
<1>2. s \in Seq(Item) /\ updateChannel \in Seq(Item) /\ Pipeline \in Seq(Item)
  BY PipelineType
<1>3. Pipeline' = s \o Append(updateChannel, sending[p])
  BY DEF Send, Pipeline, InRun
<1>4. Pipeline = s \o updateChannel
  BY DEF Pipeline
<1>5. <<sending[p]>> \in Seq(Item)
  BY <1>1
<1> HIDE DEF s
<1>6. s \o Append(updateChannel, sending[p]) = (s \o updateChannel) \o <<sending[p]>>
  <2>1. Append(updateChannel, sending[p]) = updateChannel \o <<sending[p]>>
    BY <1>1, <1>2, AppendIsConcat
  <2>2. (s \o updateChannel) \o <<sending[p]>> = s \o (updateChannel \o <<sending[p]>>)
    BY <1>2, <1>5, ConcatAssociative, SMTT(30)
  <2> QED
    BY <2>1, <2>2
<1>7. Append(Pipeline, sending[p]) = Pipeline \o <<sending[p]>>
  BY <1>1, <1>2, AppendIsConcat
<1> QED
  BY <1>1, <1>3, <1>4, <1>6, <1>7

\* The handler takes the first item of the pipeline.
LEMMA HandlePipeline ==
  ASSUME TypeOK, DueOK, Handle
  PROVE  /\ Pipeline # <<>> /\ Head(Pipeline) = Head(targetChannel)
         /\ Pipeline' = Tail(Pipeline)
<1> DEFINE t == targetChannel
           s == t \o InRun
           r == s \o data
<1>1. t \in Seq(Item) /\ InRun \in Seq(Item) /\ data \in Seq(Item)
      /\ updateChannel \in Seq(Item) /\ s \in Seq(Item) /\ r \in Seq(Item)
  BY PipelineType
<1>2. t # <<>>
  BY DEF Handle
<1>3. Pipeline = r \o updateChannel
  BY DEF Pipeline
<1>4. Pipeline' = ((Tail(t) \o InRun) \o data) \o updateChannel
  BY DEF Handle, Pipeline, InRun
<1>5. s # <<>> /\ Head(s) = Head(t) /\ Tail(s) = Tail(t) \o InRun
  BY <1>1, <1>2, ConcatTail, ZenonT(30)
<1> HIDE DEF s
<1>6. r # <<>> /\ Head(r) = Head(s) /\ Tail(r) = Tail(s) \o data
  BY <1>1, <1>5, ConcatTail, ZenonT(30)
<1> HIDE DEF r
<1>7. /\ r \o updateChannel # <<>> /\ Head(r \o updateChannel) = Head(r)
      /\ Tail(r \o updateChannel) = Tail(r) \o updateChannel
  BY <1>1, <1>6, ConcatTail, ZenonT(30)
<1> QED
  BY <1>3, <1>4, <1>5, <1>6, <1>7, ZenonT(30)

\* An item that run takes from data stays where it was in the pipeline.
LEMMA DeliverPipeline ==
  ASSUME TypeOK, DueOK, Deliver
  PROVE  Pipeline' = Pipeline
<1>1. targetChannel \in Seq(Item) /\ data \in Seq(Item) /\ updateChannel \in Seq(Item)
  BY DEF TypeOK
<1>2. InRun = <<>> /\ targetChannel' = targetChannel /\ updateChannel' = updateChannel
  BY DEF Deliver, InRun
<1>3. CASE data # <<>> /\ run.timestamp >= Head(data).deliveryTime
  <2>1. data' = Tail(data) /\ run' = [run EXCEPT !.pc = "push", !.item = Head(data)]
    BY <1>3 DEF Deliver
  <2>2. InRun' = <<Head(data)>>
    BY <2>1 DEF InRun, TypeOK
  <2>3. (targetChannel \o <<Head(data)>>) \o Tail(data) = targetChannel \o data
    BY <1>1, <1>3, MoveHead
  <2>4. targetChannel \o <<>> = targetChannel
    BY <1>1, ConcatEmptySeq
  <2> QED
    BY <1>2, <2>1, <2>2, <2>3, <2>4, ZenonT(30) DEF Pipeline
<1>4. CASE ~(data # <<>> /\ run.timestamp >= Head(data).deliveryTime)
  <2>1. data' = data /\ run'.pc = "select"
    BY <1>4, ZenonT(30) DEF Deliver, TypeOK
  <2> QED
    BY <1>2, <2>1 DEF Pipeline, InRun
<1> QED
  BY <1>3, <1>4

\* So does one that run sends to targetChannel.
LEMMA PushPipeline ==
  ASSUME TypeOK, DueOK, Push
  PROVE  Pipeline' = Pipeline
<1>1. targetChannel \in Seq(Item) /\ run.item \in Item
  BY DEF TypeOK, DueOK, Push
<1>2. InRun = <<run.item>> /\ InRun' = <<>>
  BY DEF Push, InRun, TypeOK
<1>3. targetChannel' = targetChannel \o <<run.item>>
  BY <1>1, AppendIsConcat DEF Push
<1>4. targetChannel' \in Seq(Item)
  BY <1>1, AppendProperties DEF Push
<1>5. targetChannel' \o <<>> = targetChannel'
  BY <1>4, ConcatEmptySeq
<1>6. data' = data /\ updateChannel' = updateChannel
  BY DEF Push
<1> QED
  BY <1>2, <1>3, <1>5, <1>6 DEF Pipeline

\* So does one that run receives.
LEMMA ReceivePipeline ==
  ASSUME TypeOK, DueOK, Receive
  PROVE  Pipeline' = Pipeline
<1> DEFINE s == targetChannel \o InRun
<1>1. s \in Seq(Item) /\ data \in Seq(Item) /\ updateChannel \in Seq(Item)
  BY PipelineType
<1>2. updateChannel # <<>>
  BY DEF Receive
<1>3. InRun = <<>> /\ InRun' = <<>>
  BY DEF Receive, InRun, TypeOK, Awake
<1>4. Pipeline' = (s \o Append(data, Head(updateChannel))) \o Tail(updateChannel)
  BY <1>3 DEF Receive, Pipeline
<1>5. Pipeline = (s \o data) \o updateChannel
  BY DEF Pipeline
<1>6. (s \o Append(data, Head(updateChannel))) \o Tail(updateChannel)
        = (s \o data) \o updateChannel
  <2> SUFFICES ASSUME NEW a \in Seq(Item), NEW q \in Seq(Item), NEW t \in Seq(Item),
                      t # <<>>
               PROVE  (a \o Append(q, Head(t))) \o Tail(t) = (a \o q) \o t
    BY <1>1, <1>2, ZenonT(30)
  <2>1. Head(t) \in Item /\ Tail(t) \in Seq(Item)
    BY HeadTailProperties
  <2>2. <<Head(t)>> \in Seq(Item) /\ a \o q \in Seq(Item)
    BY <2>1
  <2>3. Append(q, Head(t)) = q \o <<Head(t)>>
    BY <2>1, AppendIsConcat
  <2>4. a \o (q \o <<Head(t)>>) = (a \o q) \o <<Head(t)>>
    BY <2>2, ConcatAssociative
  <2>5. ((a \o q) \o <<Head(t)>>) \o Tail(t) = (a \o q) \o t
    BY <2>2, MoveHead
  <2> QED
    BY <2>3, <2>4, <2>5, ZenonT(30)
<1> QED
  BY <1>4, <1>5, <1>6, ZenonT(30)

\* Nothing else touches the pipeline.
LEMMA OtherPipeline ==
  ASSUME UNCHANGED <<updateChannel, data, targetChannel>>,
         run' = run \/ (run.pc # "push" /\ run'.pc # "push")
  PROVE  Pipeline' = Pipeline
BY ZenonT(30) DEF Pipeline, InRun

-----------------------------------------------------------------------------
(* The invariant holds.                                                     *)

\* What retryClusterUpdate() leaves behind, and what it may send.
LEMMA RetryType ==
  ASSUME TypeOK, NEW p \in Senders, NEW u \in Updaters, RetryClusterUpdate(p, u)
  PROVE  /\ sending' \in [Senders -> Item \cup {None}]
         /\ backoff' \in [Updaters -> [duration : Nat, startTime : Nat \cup {Zero}]]
         /\ attempts' \in [Updaters -> Nat]
         /\ \A q \in Senders : q # p => sending'[q] = sending[q]
         /\ sending'[p] = sending[p] \/ sending'[p].value = u
<1> DEFINE b == [backoff[u] EXCEPT !.startTime = IF @ = Zero THEN now ELSE @]
           d == NextDuration(b.duration)
<1>1. /\ now \in Nat /\ sending \in [Senders -> Item \cup {None}]
      /\ backoff \in [Updaters -> [duration : Nat, startTime : Nat \cup {Zero}]]
      /\ attempts \in [Updaters -> Nat]
  BY DEF TypeOK
<1>2. b \in [duration : Nat, startTime : Nat \cup {Zero}]
  BY <1>1 DEF Zero
<1>3. d \in Nat
  BY <1>2, BackoffAssumption DEF NextDuration
<1>4. now + d \in Nat
  BY <1>1, <1>3
<1>5. [value |-> u, deliveryTime |-> now + d] \in Item
  BY <1>4 DEF Item
<1>6. [b EXCEPT !.duration = d] \in [duration : Nat, startTime : Nat \cup {Zero}]
  BY <1>2, <1>3, ZenonT(30)
<1>7. NewBackoff \in [duration : Nat, startTime : Nat \cup {Zero}]
  BY DEF NewBackoff
<1>8. CASE HasExpired(b)
  <2>1. /\ backoff' = [backoff EXCEPT ![u] = NewBackoff]
        /\ attempts' = [attempts EXCEPT ![u] = 0]
        /\ sending' = sending
    BY <1>8 DEF RetryClusterUpdate, Forget
  <2>2. backoff' \in [Updaters -> [duration : Nat, startTime : Nat \cup {Zero}]]
    BY <1>1, <1>7, <2>1
  <2>3. attempts' \in [Updaters -> Nat]
    BY <1>1, <2>1
  <2> QED
    BY <1>1, <2>1, <2>2, <2>3
<1>9. CASE ~HasExpired(b)
  <2> DEFINE item == [value |-> u, deliveryTime |-> now + d]
  <2>1. /\ backoff' = [backoff EXCEPT ![u] = [b EXCEPT !.duration = d]]
        /\ sending' = [sending EXCEPT ![p] = item]
        /\ attempts' = attempts
    BY <1>9 DEF RetryClusterUpdate
  <2>2. item.value = u
    OBVIOUS
  <2> HIDE DEF b, d, item
  <2>3. backoff' \in [Updaters -> [duration : Nat, startTime : Nat \cup {Zero}]]
    BY <1>1, <1>6, <2>1
  <2>4. /\ sending' \in [Senders -> Item \cup {None}]
        /\ \A q \in Senders : q # p => sending'[q] = sending[q]
        /\ sending'[p] = item
    BY <1>1, <1>5, <2>1 DEF item
  <2> QED
    BY <1>1, <2>1, <2>2, <2>3, <2>4
<1> QED
  BY <1>8, <1>9

\* The initial state satisfies the invariant.
LEMMA InvInit == Init => IInv
<1> SUFFICES ASSUME Init PROVE IInv
  OBVIOUS
<1>1. TypeOK
  <2>1. /\ now \in Nat /\ stopped \in BOOLEAN
        /\ run \in [pc : {"deliver", "push", "select", "done"}, timestamp : Nat,
                    wakeUp : Nat, item : Item \cup {None}]
        /\ handler \in [pc : {"select", "update", "done"}, value : Updaters \cup {"none"}]
        /\ sending \in [Senders -> Item \cup {None}]
        /\ attempts \in [Updaters -> Nat]
    BY ZenonT(30) DEF Init, Selecting
  <2>2. backoff \in [Updaters -> [duration : Nat, startTime : Nat \cup {Zero}]]
    BY DEF Init, NewBackoff
  <2>3. /\ updateChannel \in Seq(Item) /\ Len(updateChannel) <= UpdateCap
        /\ targetChannel \in Seq(Item) /\ Len(targetChannel) <= TargetCap
        /\ data \in Seq(Item)
    BY CapacityAssumption, EmptySeq DEF Init
  <2> QED
    BY <2>1, <2>2, <2>3 DEF TypeOK
<1>2. DueOK /\ HandlerOK
  BY DEF Init, DueOK, HandlerOK, Selecting
<1>3. Pipeline = <<>>
  BY DEF Init, Pipeline, InRun
<1>4. Unique
  BY <1>3 DEF Init, Unique, Distinct, Outside, Selecting
<1> QED
  BY <1>1, <1>2, <1>4 DEF IInv

\* Every step keeps the types.
LEMMA TypeStep == TypeOK /\ DueOK /\ HandlerOK /\ [Next]_vars => TypeOK'
<1> SUFFICES ASSUME TypeOK, DueOK, HandlerOK, [Next]_vars PROVE TypeOK'
  OBVIOUS
<1> USE CapacityAssumption, BackoffAssumption
<1>1. ASSUME NEW p \in Clients, NEW u \in Updaters, ClientFails(p, u) PROVE TypeOK'
  <2>1. p \in Senders /\ RetryClusterUpdate(p, u)
    BY <1>1 DEF Senders, ClientFails
  <2> QED
    BY <1>1, <2>1, RetryType, ZenonT(30) DEF TypeOK, ClientFails
<1>2. ASSUME NEW p \in Senders, Send(p) PROVE TypeOK'
  <2>1. sending[p] \in Item /\ updateChannel \in Seq(Item)
    BY <1>2 DEF TypeOK, Send
  <2>2. updateChannel' \in Seq(Item) /\ Len(updateChannel') <= UpdateCap
    BY <1>2, <2>1 DEF Send
  <2> QED
    BY <1>2, <2>2 DEF TypeOK, Send
<1>3. CASE Deliver
  <2>1. CASE data # <<>> /\ run.timestamp >= Head(data).deliveryTime
    <3>1. data' = Tail(data) /\ run' = [run EXCEPT !.pc = "push", !.item = Head(data)]
      BY <1>3, <2>1 DEF Deliver
    <3>2. Head(data) \in Item /\ Tail(data) \in Seq(Item)
      BY <2>1, HeadTailProperties DEF TypeOK
    <3> QED
      BY <1>3, <3>1, <3>2, ZenonT(30) DEF TypeOK, Deliver
  <2>2. CASE ~(data # <<>> /\ run.timestamp >= Head(data).deliveryTime)
    <3> DEFINE w == IF data = <<>> THEN run.timestamp + IdleWakeUp
                    ELSE Head(data).deliveryTime
    <3>1. data' = data /\ run' = [run EXCEPT !.pc = "select", !.wakeUp = w]
      BY <1>3, <2>2 DEF Deliver
    <3>2. w \in Nat
      <4>1. data # <<>> => Head(data) \in Item
        BY HeadTailProperties DEF TypeOK
      <4>2. run.timestamp \in Nat
        BY DEF TypeOK
      <4> QED
        BY <4>1, <4>2 DEF Item
    <3> HIDE DEF w
    <3> QED
      BY <1>3, <3>1, <3>2, ZenonT(30) DEF TypeOK, Deliver
  <2> QED
    BY <2>1, <2>2
<1>4. CASE Push
  <2>1. targetChannel' \in Seq(Item) /\ Len(targetChannel') <= TargetCap
    BY <1>4 DEF Push, TypeOK, DueOK
  <2> QED
    BY <1>4, <2>1, ZenonT(30) DEF TypeOK, Push
<1>5. CASE WakeUp
  BY <1>5, ZenonT(30) DEF TypeOK, WakeUp, Awake
<1>6. CASE Receive
  <2>1. /\ Head(updateChannel) \in Item /\ Tail(updateChannel) \in Seq(Item)
        /\ Len(Tail(updateChannel)) = Len(updateChannel) - 1 /\ Len(updateChannel) \in Nat
    BY <1>6, HeadTailProperties, LenProperties DEF TypeOK, Receive
  <2>2. data' \in Seq(Item) /\ updateChannel' \in Seq(Item)
        /\ Len(updateChannel') <= UpdateCap
    BY <1>6, <2>1 DEF Receive, TypeOK
  <2> QED
    BY <1>6, <2>2, ZenonT(30) DEF TypeOK, Receive, Awake
<1>7. CASE RunStops
  BY <1>7, ZenonT(30) DEF TypeOK, RunStops
<1>8. CASE Handle
  <2>1. /\ Head(targetChannel) \in Item /\ targetChannel' \in Seq(Item)
        /\ Len(targetChannel') = Len(targetChannel) - 1 /\ Len(targetChannel) \in Nat
    BY <1>8, HeadTailProperties, LenProperties DEF TypeOK, Handle
  <2>2. Head(targetChannel).value \in Updaters /\ Len(targetChannel') <= TargetCap
    <3>1. Head(targetChannel).value \in Updaters
      BY <2>1 DEF Item
    <3>2. Len(targetChannel) <= TargetCap
      BY DEF TypeOK
    <3> QED
      BY <2>1, <3>1, <3>2
  <2>3. /\ backoff' \in [Updaters -> [duration : Nat, startTime : Nat \cup {Zero}]]
        /\ attempts' \in [Updaters -> Nat]
        /\ handler' \in [pc : {"select", "update", "done"}, value : Updaters \cup {"none"}]
    <3> DEFINE u == Head(targetChannel).value
    <3>1. \/ /\ backoff' = [backoff EXCEPT ![u] = NewBackoff]
             /\ attempts' = [attempts EXCEPT ![u] = 0] /\ handler' = handler
          \/ /\ handler' = [pc |-> "update", value |-> u]
             /\ attempts' = [attempts EXCEPT ![u] = @ + 1] /\ backoff' = backoff
      BY <1>8 DEF Handle, Forget
    <3>2. u \in Updaters
      BY <2>2
    <3>3. NewBackoff \in [duration : Nat, startTime : Nat \cup {Zero}]
      BY DEF NewBackoff
    <3> HIDE DEF u
    <3>4. backoff' \in [Updaters -> [duration : Nat, startTime : Nat \cup {Zero}]]
      BY <3>1, <3>2, <3>3, ZenonT(30) DEF TypeOK
    <3>5. attempts' \in [Updaters -> Nat]
      <4>1. attempts \in [Updaters -> Nat]
        BY DEF TypeOK
      <4>2. attempts[u] + 1 \in Nat
        BY <3>2, <4>1
      <4> QED
        BY <3>1, <3>2, <4>1, <4>2
    <3>6. handler' \in [pc : {"select", "update", "done"}, value : Updaters \cup {"none"}]
      BY <3>1, <3>2 DEF TypeOK
    <3> QED
      BY <3>4, <3>5, <3>6
  <2> QED
    BY <1>8, <2>1, <2>2, <2>3, ZenonT(30) DEF TypeOK, Handle
<1>9. CASE UpdateSucceeds
  <2>1. handler.value \in Updaters
    BY <1>9 DEF UpdateSucceeds, HandlerOK
  <2> QED
    BY <1>9, <2>1 DEF TypeOK, UpdateSucceeds, Forget, NewBackoff, Selecting
<1>10. CASE UpdateFails
  <2>1. handler.value \in Updaters /\ "handler" \in Senders
        /\ RetryClusterUpdate("handler", handler.value)
    BY <1>10 DEF UpdateFails, HandlerOK, Senders
  <2>2. /\ sending' \in [Senders -> Item \cup {None}]
        /\ backoff' \in [Updaters -> [duration : Nat, startTime : Nat \cup {Zero}]]
        /\ attempts' \in [Updaters -> Nat]
    BY <2>1, RetryType
  <2> QED
    BY <1>10, <2>2 DEF TypeOK, UpdateFails, Selecting
<1>11. CASE HandlerStops
  BY <1>11, ZenonT(30) DEF TypeOK, HandlerStops
<1>12. CASE Stop
  BY <1>12 DEF TypeOK, Stop
<1>13. CASE Tick
  BY <1>13 DEF TypeOK, Tick
<1>14. CASE UNCHANGED vars
  BY <1>14 DEF TypeOK, vars
<1> QED
  BY <1>1, <1>2, <1>3, <1>4, <1>5, <1>6, <1>7, <1>8, <1>9, <1>10, <1>11, <1>12, <1>13,
     <1>14 DEF Next, Run, Handler

\* What is delivered stays due.
LEMMA DueStep == TypeOK /\ DueOK /\ [Next]_vars => DueOK'
<1> SUFFICES ASSUME TypeOK, DueOK, [Next]_vars PROVE DueOK'
  OBVIOUS
<1>1. /\ now \in Nat /\ run.timestamp \in Nat /\ targetChannel \in Seq(Item)
      /\ data \in Seq(Item)
      /\ run \in [pc : {"deliver", "push", "select", "done"}, timestamp : Nat,
                  wakeUp : Nat, item : Item \cup {None}]
      /\ \A i \in 1 .. Len(targetChannel) : targetChannel[i] \in Item
  BY ElementOfSeq DEF TypeOK
<1>2. CASE UNCHANGED <<now, run, targetChannel>>
  BY <1>2 DEF DueOK
<1>3. CASE Deliver
  <2>1. CASE data # <<>> /\ run.timestamp >= Head(data).deliveryTime
    <3>1. /\ run'.timestamp = run.timestamp /\ run'.item = Head(data)
          /\ now' = now /\ targetChannel' = targetChannel
      BY <1>1, <1>3, <2>1, ZenonT(30) DEF Deliver
    <3>2. Head(data) \in Item
      BY <1>1, <2>1, HeadTailProperties
    <3>3. Head(data).deliveryTime \in Nat
      BY <3>2 DEF Item
    <3>4. Head(data).deliveryTime <= now
      BY <1>1, <2>1, <3>3 DEF DueOK
    <3> QED
      BY <3>1, <3>2, <3>4 DEF DueOK
  <2>2. CASE ~(data # <<>> /\ run.timestamp >= Head(data).deliveryTime)
    <3>1. /\ run'.timestamp = run.timestamp /\ run'.pc = "select"
          /\ now' = now /\ targetChannel' = targetChannel
      BY <1>1, <1>3, <2>2, ZenonT(30) DEF Deliver
    <3> QED
      BY <3>1 DEF DueOK
  <2> QED
    BY <2>1, <2>2
<1>4. CASE Push
  <2>1. /\ run'.timestamp = run.timestamp /\ run'.pc = "deliver" /\ now' = now
        /\ targetChannel' = Append(targetChannel, run.item)
        /\ run.item \in Item /\ run.item.deliveryTime <= now
    BY <1>1, <1>4 DEF Push, DueOK
  <2>2. /\ Len(targetChannel') = Len(targetChannel) + 1 /\ Len(targetChannel) \in Nat
        /\ \A i \in 1 .. Len(targetChannel) : targetChannel'[i] = targetChannel[i]
        /\ targetChannel'[Len(targetChannel) + 1] = run.item
    BY <1>1, <2>1, AppendProperties, LenProperties
  <2> QED
    BY <2>1, <2>2 DEF DueOK
<1>5. CASE WakeUp \/ Receive
  <2>1. /\ run'.timestamp = now /\ run'.pc = "deliver" /\ now' = now
        /\ targetChannel' = targetChannel
    BY <1>1, <1>5, ZenonT(30) DEF WakeUp, Receive, Awake
  <2> QED
    BY <1>1, <2>1 DEF DueOK
<1>6. CASE RunStops
  <2>1. /\ run'.timestamp = run.timestamp /\ run'.pc = "done" /\ now' = now
        /\ targetChannel' = targetChannel
    BY <1>1, <1>6 DEF RunStops
  <2> QED
    BY <2>1 DEF DueOK
<1>7. CASE Handle
  <2>1. run' = run /\ now' = now /\ targetChannel' = Tail(targetChannel)
        /\ targetChannel # <<>>
    BY <1>7 DEF Handle
  <2>2. /\ Len(targetChannel') = Len(targetChannel) - 1 /\ Len(targetChannel) \in Nat
        /\ \A i \in 1 .. Len(targetChannel') : targetChannel'[i] = targetChannel[i + 1]
    BY <1>1, <2>1, HeadTailProperties, LenProperties
  <2> QED
    BY <2>1, <2>2 DEF DueOK
<1>8. CASE Tick
  <2>1. now' = now + 1 /\ run' = run /\ targetChannel' = targetChannel
    BY <1>8 DEF Tick
  <2>2. run.item \in Item => run.item.deliveryTime \in Nat
    BY DEF Item
  <2>3. \A i \in 1 .. Len(targetChannel) : targetChannel[i].deliveryTime \in Nat
    BY <1>1 DEF Item
  <2> QED
    BY <1>1, <2>1, <2>2, <2>3 DEF DueOK
<1> QED
  BY <1>2, <1>3, <1>4, <1>5, <1>6, <1>7, <1>8
  DEF Next, Run, Handler, vars, ClientFails, Send, UpdateSucceeds, UpdateFails,
      HandlerStops, Stop

\* No updater gets a second owner.
LEMMA UniqueStep == IInv /\ [Next]_vars => HandlerOK' /\ Unique'
<1> SUFFICES ASSUME IInv, [Next]_vars PROVE HandlerOK' /\ Unique'
  OBVIOUS
<1>1. /\ TypeOK /\ DueOK /\ HandlerOK /\ Unique
      /\ sending \in [Senders -> Item \cup {None}] /\ "handler" \in Senders
      /\ handler \in [pc : {"select", "update", "done"}, value : Updaters \cup {"none"}]
  BY DEF IInv, TypeOK, Senders
<1>2. Pipeline \in Seq(Item)
  BY <1>1, PipelineType
<1>3. None.value = "none" /\ \A item \in Item : item.value \in Updaters
  BY DEF None, Item
<1>4. \A p \in Senders : sending[p] # None => sending[p] \in Item
  BY <1>1
<1>5. CASE Pipeline' = Pipeline /\ sending' = sending /\ handler' = handler
  BY <1>1, <1>5 DEF HandlerOK, Unique
<1>6. ASSUME NEW p \in Clients, NEW u \in Updaters, ClientFails(p, u)
      PROVE  HandlerOK' /\ Unique'
  <2>1. p \in Senders /\ p # "handler" /\ RetryClusterUpdate(p, u) /\ sending[p] = None
    BY <1>6 DEF Senders, Clients, ClientFails
  <2>2. /\ \A q \in Senders : q # p => sending'[q] = sending[q]
        /\ sending'[p] = None \/ sending'[p].value = u
    BY <1>1, <2>1, RetryType
  <2>3. Pipeline' = Pipeline /\ handler' = handler
    BY <1>6, OtherPipeline DEF ClientFails
  <2>4. /\ Outside(u, Pipeline) /\ \A q \in Senders : sending[q].value # u
        /\ handler.value # u
    <3>1. DOMAIN Pipeline = 1 .. Len(Pipeline)
      BY <1>2, LenProperties
    <3> QED
      BY <1>6, <3>1 DEF ClientFails, InUse, Values, Outside
  <2>5. HandlerOK'
    BY <1>1, <2>1, <2>2, <2>3 DEF HandlerOK
  <2>6. Unique'
    BY <1>1, <1>3, <2>1, <2>2, <2>3, <2>4, NoneAssumption DEF Unique, HandlerOK
  <2> QED
    BY <2>5, <2>6
<1>7. ASSUME NEW p \in Senders, Send(p) PROVE HandlerOK' /\ Unique'
  <2>1. /\ handler' = handler /\ sending[p] # None /\ sending'[p] = None
        /\ \A q \in Senders : q # p => sending'[q] = sending[q]
    BY <1>1, <1>7 DEF Send
  <2>2. sending[p] \in Item /\ Pipeline' = Append(Pipeline, sending[p])
    BY <1>1, <1>7, SendPipeline
  <2>3. HandlerOK'
    BY <1>1, <2>1 DEF HandlerOK
  <2>4. Distinct(Pipeline)'
    <3>1. Distinct(Append(Pipeline, sending[p]))
      BY <1>1, <1>2, <2>1, <2>2, DistinctAppend DEF Unique
    <3> QED
      BY <2>2, <3>1 DEF Distinct
  <2>5. ASSUME NEW q \in Senders, sending'[q] # None
        PROVE  Outside(sending'[q].value, Pipeline')
    <3>1. q # p /\ sending'[q] = sending[q] /\ sending[q] # None
      BY <2>1, <2>5
    <3>2. Outside(sending[q].value, Pipeline) /\ sending[q].value # sending[p].value
      BY <1>1, <3>1 DEF Unique
    <3> QED
      BY <1>2, <2>2, <3>1, <3>2, OutsideAppend
  <2>6. ASSUME NEW q \in Senders, NEW o \in Senders, q # o, sending'[q] # None
        PROVE  sending'[q].value # sending'[o].value
    <3>1. q # p /\ sending'[q] = sending[q] /\ sending[q] # None
      BY <2>1, <2>6
    <3>2. sending[q].value \in Updaters
      BY <1>3, <1>4, <3>1
    <3> QED
      BY <1>1, <1>3, <2>1, <2>6, <3>1, <3>2, NoneAssumption DEF Unique
  <2>7. ASSUME handler'.pc = "update"
        PROVE  /\ Outside(handler'.value, Pipeline')
               /\ \A q \in Senders : sending'[q].value # handler'.value
    <3>1. /\ Outside(handler.value, Pipeline) /\ handler.value \in Updaters
          /\ \A q \in Senders : sending[q].value # handler.value
      BY <1>1, <2>1, <2>7 DEF Unique, HandlerOK
    <3>2. Outside(handler.value, Pipeline')
      BY <1>2, <2>2, <3>1, OutsideAppend
    <3> QED
      BY <1>3, <2>1, <3>1, <3>2, NoneAssumption
  <2> QED
    BY <2>3, <2>4, <2>5, <2>6, <2>7 DEF Unique, Outside
<1>8. CASE Handle
  <2> DEFINE u == Head(targetChannel).value
  <2>1. /\ Pipeline # <<>> /\ Head(Pipeline).value = u /\ Pipeline' = Tail(Pipeline)
    BY <1>1, <1>8, HandlePipeline
  <2>2. /\ sending' = sending /\ handler.pc = "select" /\ sending["handler"] = None
        /\ handler' = handler \/ handler' = [pc |-> "update", value |-> u]
    BY <1>8 DEF Handle, HandlerIdle
  <2>3. u \in Updaters
    BY <1>2, <1>3, <2>1, HeadTailProperties
  <2>4. Distinct(Tail(Pipeline)) /\ Outside(u, Tail(Pipeline))
    BY <1>1, <1>2, <2>1, DistinctTail DEF Unique
  <2>5. \A p \in Senders : sending[p] # None => Outside(sending[p].value, Tail(Pipeline))
    BY <1>1, <1>2, <2>1, OutsideTail DEF Unique
  <2>6. \A p \in Senders : sending[p].value # u
    <3>1. 1 \in 1 .. Len(Pipeline) /\ Pipeline[1] = Head(Pipeline)
      BY <1>2, <2>1, EmptySeq
    <3>2. \A p \in Senders : sending[p] # None => sending[p].value # u
      BY <1>1, <2>1, <3>1 DEF Unique, Outside
    <3> QED
      BY <1>3, <2>3, <3>2, NoneAssumption
  <2> HIDE DEF u
  <2>7. HandlerOK'
    BY <1>1, <2>2, <2>3 DEF HandlerOK
  <2>8. Unique'
    BY <1>1, <2>1, <2>2, <2>4, <2>5, <2>6 DEF Unique, Distinct, Outside
  <2> QED
    BY <2>7, <2>8
<1>9. CASE UpdateSucceeds \/ HandlerStops
  <2>1. /\ Pipeline' = Pipeline /\ sending' = sending
    BY <1>9, OtherPipeline DEF UpdateSucceeds, HandlerStops
  <2>2. handler'.pc # "update" /\ handler'.value = "none"
    BY <1>1, <1>9 DEF UpdateSucceeds, HandlerStops, HandlerIdle, Selecting, HandlerOK
  <2> QED
    BY <1>1, <2>1, <2>2 DEF HandlerOK, Unique
<1>10. CASE UpdateFails
  <2> DEFINE u == handler.value
  <2>1. /\ u \in Updaters /\ RetryClusterUpdate("handler", u) /\ sending["handler"] = None
        /\ Outside(u, Pipeline) /\ \A p \in Senders : sending[p].value # u
    BY <1>1, <1>10 DEF UpdateFails, HandlerOK, Unique
  <2>2. /\ \A q \in Senders : q # "handler" => sending'[q] = sending[q]
        /\ sending'["handler"] = None \/ sending'["handler"].value = u
    BY <1>1, <2>1, RetryType
  <2>3. Pipeline' = Pipeline
    BY <1>10, OtherPipeline DEF UpdateFails
  <2>4. handler'.pc = "select" /\ handler'.value = "none"
    BY <1>10 DEF UpdateFails, Selecting
  <2> HIDE DEF u
  <2>5. HandlerOK'
    BY <2>4 DEF HandlerOK
  <2>6. Unique'
    BY <1>1, <1>3, <2>1, <2>2, <2>3, <2>4, NoneAssumption DEF Unique
  <2> QED
    BY <2>5, <2>6
<1>11. CASE Run
  <2>1. sending' = sending /\ handler' = handler
    BY <1>11 DEF Run, Deliver, Push, WakeUp, Receive
  <2>2. WakeUp => Pipeline' = Pipeline
    BY <1>1, OtherPipeline DEF WakeUp, Awake, TypeOK
  <2>3. Pipeline' = Pipeline
    BY <1>1, <1>11, <2>2, DeliverPipeline, PushPipeline, ReceivePipeline DEF Run
  <2> QED
    BY <1>5, <2>1, <2>3
<1>12. CASE RunStops
  <2>1. Pipeline' = Pipeline
    BY <1>1, <1>12, OtherPipeline DEF RunStops, TypeOK
  <2> QED
    BY <1>5, <1>12, <2>1 DEF RunStops
<1>13. CASE Stop \/ Tick \/ UNCHANGED vars
  <2>1. Pipeline' = Pipeline
    BY <1>13, OtherPipeline DEF Stop, Tick, vars
  <2> QED
    BY <1>5, <1>13, <2>1 DEF Stop, Tick, vars
<1> QED
  BY <1>6, <1>7, <1>8, <1>9, <1>10, <1>11, <1>12, <1>13 DEF Next, Handler

\* The invariant is inductive.
LEMMA InvNext == IInv /\ [Next]_vars => IInv'
BY TypeStep, DueStep, UniqueStep DEF IInv

\* The invariant holds in every reachable state.
LEMMA Invariant == Spec => []IInv
<1>1. Init => IInv
  BY InvInit
<1>2. IInv /\ [Next]_vars => IInv'
  BY InvNext
<1> QED
  BY <1>1, <1>2, PTL DEF Spec

-----------------------------------------------------------------------------
(* The theorems.                                                            *)

\* The channels never hold more than their capacity, and every item, delay and time of the
\* retrier is of its type.
THEOREM RetrierTypes == Spec => []TypeOK
<1>1. IInv => TypeOK
  BY DEF IInv
<1> QED
  BY <1>1, Invariant, PTL

\* Every step is a step of the queue or leaves the queue as it is.
LEMMA QueueStep == IInv /\ [Next]_vars => [Abstract!Next]_<<now, Pipeline>>
<1> SUFFICES ASSUME IInv, [Next]_vars PROVE [Abstract!Next]_<<now, Pipeline>>
  OBVIOUS
<1>1. TypeOK /\ DueOK /\ Unique
  BY DEF IInv
<1>2. Pipeline \in Seq(Item)
  BY <1>1, PipelineType
<1>3. CASE now' = now /\ Pipeline' = Pipeline
  BY <1>3
<1>4. ASSUME NEW p \in Clients, NEW u \in Updaters, ClientFails(p, u)
      PROVE  now' = now /\ Pipeline' = Pipeline
  BY <1>4, OtherPipeline DEF ClientFails
<1>5. ASSUME NEW p \in Senders, Send(p) PROVE Abstract!Submit
  <2>1. sending[p] \in Item /\ Pipeline' = Append(Pipeline, sending[p]) /\ now' = now
    BY <1>1, <1>5, SendPipeline, ZenonT(30) DEF Send
  <2>2. Outside(sending[p].value, Pipeline)
    BY <1>1, <1>5 DEF Unique, Send
  <2>3. /\ Len(Pipeline') = Len(Pipeline) + 1 /\ Len(Pipeline) \in Nat
        /\ Pipeline'[Len(Pipeline')] = sending[p]
    BY <1>2, <2>1, AppendProperties, LenProperties
  <2>4. sending[p] \in Abstract!Item
    BY <2>1 DEF Item, Abstract!Item
  <2> QED
    BY <2>1, <2>2, <2>3, <2>4 DEF Abstract!Submit, Outside
<1>6. CASE Handle
  <2>1. /\ Pipeline # <<>> /\ Head(Pipeline) = Head(targetChannel)
        /\ Pipeline' = Tail(Pipeline)
    BY <1>1, <1>6, HandlePipeline
  <2>2. Head(targetChannel).deliveryTime <= now
    <3>1. targetChannel \in Seq(Item) /\ targetChannel # <<>>
      BY <1>1, <1>6 DEF TypeOK, Handle
    <3>2. 1 \in 1 .. Len(targetChannel) /\ Head(targetChannel) = targetChannel[1]
      BY <3>1, EmptySeq
    <3> QED
      BY <1>1, <3>2 DEF DueOK
  <2>3. now' = now
    BY <1>6 DEF Handle
  <2> QED
    BY <2>1, <2>2, <2>3 DEF Abstract!Next, Abstract!Deliver
<1>7. CASE UpdateSucceeds \/ UpdateFails \/ HandlerStops \/ Stop \/ UNCHANGED vars
  <2>1. now' = now /\ Pipeline' = Pipeline
    BY <1>7, OtherPipeline DEF UpdateSucceeds, UpdateFails, HandlerStops, Stop, vars
  <2> QED
    BY <1>3, <2>1
<1>8. CASE Run \/ RunStops
  <2>1. WakeUp \/ RunStops => Pipeline' = Pipeline
    BY <1>1, OtherPipeline, ZenonT(30) DEF WakeUp, RunStops, Awake, TypeOK
  <2>2. Pipeline' = Pipeline
    BY <1>1, <1>8, <2>1, DeliverPipeline, PushPipeline, ReceivePipeline DEF Run
  <2>3. now' = now
    BY <1>8 DEF Run, Deliver, Push, WakeUp, Receive, RunStops
  <2> QED
    BY <1>3, <2>2, <2>3
<1>9. CASE Tick
  <2>1. Pipeline' = Pipeline /\ now' = now + 1
    BY <1>9, OtherPipeline DEF Tick
  <2> QED
    BY <2>1 DEF Abstract!Next, Abstract!Tick
<1> QED
  BY <1>3, <1>4, <1>5, <1>6, <1>7, <1>8, <1>9 DEF Next, Handler, Abstract!Next

\* The two channels, the list data and the item in run's hands are one first-in-first-out
\* queue that has each updater at most once and delivers none before its time.
THEOREM RetrierIsQueue == Spec => ImplementsRetryQueue
<1>1. Init => Abstract!Init
  BY DEF Init, Abstract!Init, Pipeline, InRun
<1>2. IInv /\ [Next]_vars => [Abstract!Next]_<<now, Pipeline>>
  BY QueueStep
<1> QED
  BY <1>1, <1>2, Invariant, PTL DEF Spec, ImplementsRetryQueue, Abstract!Spec

\* A circular wait takes an updater in each place of both channels, one in run's hands and
\* one in the handler's.
LEMMA CircularWaitCount ==
  ASSUME IInv, ~NoCircularWait, IsFiniteSet(Updaters)
  PROVE  TargetCap + UpdateCap + 2 <= Cardinality(Updaters)
<1> DEFINE n == Len(Pipeline)
           last == sending["handler"].value
           f == [i \in 1 .. n + 1 |-> IF i <= n THEN Pipeline[i].value ELSE last]
<1>1. /\ TypeOK /\ DueOK /\ Unique /\ "handler" \in Senders
      /\ run.pc = "push" /\ Len(targetChannel) = TargetCap
      /\ sending["handler"] # None /\ Len(updateChannel) = UpdateCap
  BY DEF IInv, NoCircularWait, Senders
<1>2. /\ targetChannel \in Seq(Item) /\ InRun \in Seq(Item) /\ data \in Seq(Item)
      /\ updateChannel \in Seq(Item) /\ targetChannel \o InRun \in Seq(Item)
      /\ (targetChannel \o InRun) \o data \in Seq(Item) /\ Pipeline \in Seq(Item)
  BY <1>1, PipelineType
<1>3. n \in Nat /\ n >= TargetCap + 1 + UpdateCap
  <2>1. InRun = <<run.item>> /\ Len(InRun) = 1
    BY <1>1 DEF InRun
  <2>2. Len(targetChannel \o InRun) = TargetCap + 1
    BY <1>1, <1>2, <2>1, ConcatProperties
  <2>3. Len((targetChannel \o InRun) \o data) = TargetCap + 1 + Len(data)
    BY <1>2, <2>2, ConcatProperties
  <2>4. n = TargetCap + 1 + Len(data) + UpdateCap
    <3> DEFINE s == (targetChannel \o InRun) \o data
    <3>1. n = Len(s \o updateChannel) /\ s \in Seq(Item) /\ updateChannel \in Seq(Item)
      BY <1>2 DEF Pipeline
    <3> HIDE DEF s
    <3>2. Len(s \o updateChannel) = Len(s) + Len(updateChannel)
      BY <3>1, ConcatProperties
    <3> QED
      BY <1>1, <2>3, <3>1, <3>2 DEF s
  <2>5. Len(data) \in Nat
    BY <1>2, LenProperties
  <2> HIDE DEF n
  <2> QED
    BY <2>4, <2>5, CapacityAssumption
<1>4. last \in Updaters /\ Outside(last, Pipeline) /\ Distinct(Pipeline)
  <2>1. sending["handler"] \in Item
    BY <1>1 DEF TypeOK
  <2> QED
    BY <1>1, <2>1 DEF Item, Unique
<1>5. \A i \in 1 .. n : Pipeline[i].value \in Updaters
  <2>1. \A i \in 1 .. n : Pipeline[i] \in Item
    BY <1>2, ElementOfSeq
  <2> QED
    BY <2>1 DEF Item
<1> HIDE DEF last
<1>6. \A i, j \in 1 .. n + 1 : f[i] = f[j] => i = j
  BY <1>3, <1>4 DEF Distinct, Outside
<1>7. f \in [1 .. n + 1 -> Updaters]
  BY <1>3, <1>4, <1>5
<1> HIDE DEF f, n
<1>8. f \in Injection(1 .. n + 1, Updaters)
  BY <1>6, <1>7 DEF Injection, IsInjective
<1>9. Cardinality(1 .. n + 1) <= Cardinality(Updaters)
  BY <1>8, FS_Injection
<1>10. Cardinality(1 .. n + 1) = n + 1
  BY <1>3, FS_Interval
<1>11. Cardinality(Updaters) \in Nat
  BY FS_CardinalityType
<1> QED
  BY <1>3, <1>9, <1>10, <1>11, CapacityAssumption

\* With fewer than TargetCap + UpdateCap + 2 updaters run and the handler never wait for
\* each other: 1102 with the capacities of newClusterUpdateRetrier().
THEOREM RetrierNeverWaitsOnItself ==
  ASSUME IsFiniteSet(Updaters), Cardinality(Updaters) < TargetCap + UpdateCap + 2
  PROVE  Spec => []NoCircularWait
<1>1. IInv => NoCircularWait
  <2> SUFFICES ASSUME IInv, ~NoCircularWait PROVE FALSE
    OBVIOUS
  <2>1. TargetCap + UpdateCap + 2 <= Cardinality(Updaters)
    BY CircularWaitCount
  <2>2. Cardinality(Updaters) \in Nat
    BY FS_CardinalityType
  <2> QED
    BY <2>1, <2>2, CapacityAssumption
<1> QED
  BY <1>1, Invariant, PTL

-----------------------------------------------------------------------------
(* The delays.  Elapsed is a recursive function; that a function satisfies  *)
(* its equation follows from the closed form of the sum, and the invariant  *)
(* below carries what would otherwise need an induction over k.             *)

\* How many delays are whole multiples of Increment.
Whole == MaxDuration \div Increment

Triangle(k) == (k * (k + 1)) \div 2

\* The sum of the first k delays.
Sum(k) == IF k <= Whole THEN Triangle(k) * Increment
          ELSE Triangle(Whole) * Increment + (k - Whole) * MaxDuration

\* After Whole increments the next one would exceed the longest delay.
LEMMA WholeFacts ==
  ASSUME Increment > 0
  PROVE  /\ Whole \in Nat /\ Whole * Increment <= MaxDuration
         /\ MaxDuration < (Whole + 1) * Increment
BY BackoffAssumption DEF Whole

\* The triangular numbers.
LEMMA TriangleFacts ==
  Triangle(0) = 0 /\ \A k \in Nat \ {0} : Triangle(k) = Triangle(k - 1) + k
<1>1. Triangle(0) = 0
  BY DEF Triangle
<1>2. ASSUME NEW k \in Nat \ {0} PROVE Triangle(k) = Triangle(k - 1) + k
  <2>1. k * (k + 1) = (k - 1) * k + 2 * k
    OBVIOUS
  <2>2. (k - 1) * ((k - 1) + 1) = (k - 1) * k
    OBVIOUS
  <2>3. (k - 1) * k \in Int
    OBVIOUS
  <2>4. \A x \in Int : (x + 2 * k) \div 2 = (x \div 2) + k
    OBVIOUS
  <2> QED
    BY <2>1, <2>2, <2>3, <2>4 DEF Triangle
<1> QED
  BY <1>1, <1>2

\* The closed form grows by one delay at a time.
LEMMA SumStep ==
  ASSUME Increment > 0, NEW k \in Nat \ {0}
  PROVE  Sum(k) = Sum(k - 1) + Delay(k)
<1> DEFINE T == Triangle(Whole)
<1>1. Increment \in Nat \ {0} /\ MaxDuration \in Nat
  BY BackoffAssumption
<1>2. /\ Whole \in Nat /\ Whole * Increment <= MaxDuration
      /\ MaxDuration < (Whole + 1) * Increment
  BY WholeFacts
<1>3. Triangle(k) = Triangle(k - 1) + k /\ Triangle(k - 1) \in Int /\ T \in Int
  BY <1>2, TriangleFacts DEF Triangle
<1>4. T * Increment \in Int
  BY <1>1, <1>3
<1> HIDE DEF T
<1>5. CASE k <= Whole
  <2>1. k * Increment <= MaxDuration
    BY <1>1, <1>2, <1>5
  <2>2. /\ Delay(k) = k * Increment /\ Sum(k) = Triangle(k) * Increment
        /\ Sum(k - 1) = Triangle(k - 1) * Increment
    BY <1>2, <1>5, <2>1 DEF Sum, Delay
  <2>3. \A t \in Int : (t + k) * Increment = t * Increment + k * Increment
    BY <1>1
  <2> QED
    BY <1>3, <2>2, <2>3
<1>6. CASE k = Whole + 1
  <2>1. ~(k * Increment <= MaxDuration)
    BY <1>1, <1>2, <1>6
  <2>2. /\ Delay(k) = MaxDuration /\ Sum(k) = T * Increment + (k - Whole) * MaxDuration
        /\ Sum(k - 1) = T * Increment
    BY <1>2, <1>6, <2>1 DEF Sum, Delay, T
  <2>3. (k - Whole) * MaxDuration = MaxDuration
    BY <1>1, <1>2, <1>6
  <2> QED
    BY <1>1, <1>4, <2>2, <2>3
<1>7. CASE k > Whole + 1
  <2>1. ~(k * Increment <= MaxDuration)
    <3>1. (Whole + 1) * Increment <= k * Increment
      BY <1>1, <1>2, <1>7
    <3>2. k * Increment \in Int /\ (Whole + 1) * Increment \in Int
      BY <1>1, <1>2
    <3> QED
      BY <1>1, <1>2, <3>1, <3>2
  <2>2. /\ Delay(k) = MaxDuration /\ Sum(k) = T * Increment + (k - Whole) * MaxDuration
        /\ Sum(k - 1) = T * Increment + (k - 1 - Whole) * MaxDuration
    BY <1>2, <1>7, <2>1 DEF Sum, Delay, T
  <2>3. (k - Whole) * MaxDuration = (k - 1 - Whole) * MaxDuration + MaxDuration
    BY <1>1, <1>2, <1>7
  <2>4. (k - 1 - Whole) * MaxDuration \in Int
    BY <1>1, <1>2
  <2> QED
    BY <1>1, <1>4, <2>2, <2>3, <2>4
<1> QED
  BY <1>2, <1>5, <1>6, <1>7

\* A function satisfies the equation of Elapsed, so Elapsed does.
LEMMA ElapsedEquation ==
  ASSUME Increment > 0
  PROVE  \A k \in Nat : Elapsed[k] = IF k = 0 THEN 0 ELSE Elapsed[k - 1] + Delay(k)
<1> DEFINE g == [k \in Nat |-> Sum(k)]
<1>1. g[0] = 0
  BY WholeFacts, TriangleFacts, BackoffAssumption DEF Sum
<1>2. \A k \in Nat : g[k] = IF k = 0 THEN 0 ELSE g[k - 1] + Delay(k)
  BY <1>1, SumStep
<1>3. g = [k \in Nat |-> g[k]]
  OBVIOUS
<1> HIDE DEF g
<1>4. g = [k \in Nat |-> IF k = 0 THEN 0 ELSE g[k - 1] + Delay(k)]
  BY <1>2, <1>3, ZenonT(30)
<1>5. \E f : f = [k \in Nat |-> IF k = 0 THEN 0 ELSE f[k - 1] + Delay(k)]
  BY <1>4
<1>6. Elapsed = [k \in Nat |-> IF k = 0 THEN 0 ELSE Elapsed[k - 1] + Delay(k)]
  BY <1>5 DEF Elapsed
<1> HIDE DEF Elapsed
<1> QED
  BY <1>6

\* backoffItem.next() goes from one delay to the next, and no delay is zero.
LEMMA DelayStep ==
  ASSUME Increment > 0, MaxDuration > 0, NEW k \in Nat
  PROVE  /\ Delay(k) \in Nat /\ Delay(0) = 0
         /\ NextDuration(Delay(k)) = Delay(k + 1) /\ Delay(k + 1) > 0
<1>1. Increment \in Nat \ {0} /\ MaxDuration \in Nat \ {0}
  BY BackoffAssumption
<1>2. k * Increment \in Nat /\ (k + 1) * Increment = k * Increment + Increment
  BY <1>1
<1> QED
  BY <1>1, <1>2 DEF Delay, NextDuration

-----------------------------------------------------------------------------
(* How far the backoff of every updater has come.                           *)

\* The first k delays fit into the life time, for every k the handler got to.
Fits(u) ==
  /\ \A k \in 1 .. attempts[u] : Elapsed[k] < Expiry
  /\ Elapsed[attempts[u]] \in Nat /\ attempts[u] <= Elapsed[attempts[u]]

Fresh(u) == backoff[u] = NewBackoff /\ attempts[u] = 0

\* The updater waits for the handler, one delay longer than before.
Waits(item) ==
  LET u == item.value
      k == attempts[u] + 1
  IN  /\ backoff[u].duration = Delay(k)
      /\ backoff[u].startTime \in Nat
      /\ backoff[u].startTime + Elapsed[k] <= item.deliveryTime

\* All delays so far have passed since the first failure.
Tried(u) ==
  /\ backoff[u].duration = Delay(attempts[u])
  /\ backoff[u].startTime \in Nat
  /\ backoff[u].startTime + Elapsed[attempts[u]] <= now

Idle(u) ==
  /\ Outside(u, Pipeline) /\ handler.value # u
  /\ \A p \in Senders : sending[p].value # u

BackoffOK ==
  /\ \A u \in Updaters : Fits(u)
  /\ \A u \in Updaters : Idle(u) => Fresh(u)
  /\ \A i \in 1 .. Len(Pipeline) : Waits(Pipeline[i])
  /\ \A p \in Senders : sending[p] # None => Waits(sending[p])
  /\ handler.pc = "update" => Tried(handler.value)

\* Forgetting an updater makes it fresh and leaves the others alone.
LEMMA ForgetFacts ==
  ASSUME TypeOK, Increment > 0, NEW u \in Updaters, Forget(u)
  PROVE  /\ Fresh(u)' /\ Fits(u)'
         /\ \A v \in Updaters : v # u => backoff'[v] = backoff[v] /\ attempts'[v] = attempts[v]
<1>1. /\ backoff' = [backoff EXCEPT ![u] = NewBackoff]
      /\ attempts' = [attempts EXCEPT ![u] = 0]
      /\ backoff \in [Updaters -> [duration : Nat, startTime : Nat \cup {Zero}]]
      /\ attempts \in [Updaters -> Nat]
  BY DEF Forget, TypeOK
<1>2. backoff'[u] = NewBackoff /\ attempts'[u] = 0
  BY <1>1
<1>3. Elapsed[0] = 0
  BY ElapsedEquation
<1>4. Fits(u)'
  BY <1>2, <1>3 DEF Fits
<1>5. Fresh(u)'
  BY <1>2 DEF Fresh, NewBackoff
<1> QED
  BY <1>1, <1>4, <1>5

\* retryClusterUpdate() for a new updater, or one whose delays have all passed, forgets it
\* or makes it wait one delay longer.
LEMMA RetryBackoff ==
  ASSUME TypeOK, Increment > 0, MaxDuration > 0, NEW p \in Senders, NEW u \in Updaters,
         Fits(u), Fresh(u) \/ Tried(u), RetryClusterUpdate(p, u)
  PROVE  /\ \A v \in Updaters : v # u => backoff'[v] = backoff[v] /\ attempts'[v] = attempts[v]
         /\ Fits(u)'
         /\ \/ Fresh(u)' /\ sending' = sending
            \/ Waits(sending[p])' /\ sending'[p].value = u /\ sending'[p] # None
<1> DEFINE b == [backoff[u] EXCEPT !.startTime = IF @ = Zero THEN now ELSE @]
           d == NextDuration(b.duration)
           k == attempts[u]
           item == [value |-> u, deliveryTime |-> now + d]
<1>1. CASE HasExpired(b)
  <2>1. Forget(u) /\ sending' = sending
    BY <1>1 DEF RetryClusterUpdate
  <2> QED
    BY <2>1, ForgetFacts
<1>2. CASE ~HasExpired(b)
  <2>1. /\ backoff' = [backoff EXCEPT ![u] = [b EXCEPT !.duration = d]]
        /\ sending' = [sending EXCEPT ![p] = item]
        /\ attempts' = attempts
    BY <1>2 DEF RetryClusterUpdate
  <2>2. /\ backoff \in [Updaters -> [duration : Nat, startTime : Nat \cup {Zero}]]
        /\ sending \in [Senders -> Item \cup {None}] /\ now \in Nat /\ k \in Nat
    BY DEF TypeOK
  <2>3. /\ b.duration = Delay(k) /\ b.startTime \in Nat /\ Elapsed[k] \in Nat
        /\ b.startTime + Elapsed[k] <= now
    <3>1. Elapsed[0] = 0 /\ Delay(0) = 0
      BY ElapsedEquation, DelayStep
    <3>2. CASE Fresh(u)
      BY <2>2, <3>1, <3>2 DEF Fresh, NewBackoff
    <3>3. CASE Tried(u)
      BY <2>2, <3>3 DEF Tried, Fits, Zero
    <3> QED
      BY <3>2, <3>3
  <2>4. d = Delay(k + 1) /\ d \in Nat /\ Elapsed[k + 1] = Elapsed[k] + d
    <3>1. k + 1 \in Nat /\ k + 1 # 0 /\ (k + 1) - 1 = k
      BY <2>2
    <3>2. NextDuration(Delay(k)) = Delay(k + 1) /\ Delay(k + 1) \in Nat
      BY <2>2, <3>1, DelayStep
    <3>3. Elapsed[k + 1] = Elapsed[k] + Delay(k + 1)
      BY <3>1, ElapsedEquation
    <3>4. d = NextDuration(Delay(k))
      BY <2>3
    <3> QED
      BY <3>2, <3>3, <3>4
  <2>5. b.startTime + Elapsed[k + 1] <= now + d
    BY <2>2, <2>3, <2>4
  <2>6. backoff'[u] = [b EXCEPT !.duration = d] /\ sending'[p] = item
    BY <2>1, <2>2
  <2>7. b \in [duration : Nat, startTime : Nat \cup {Zero}]
    BY <2>2
  <2>8. backoff'[u].duration = d /\ backoff'[u].startTime = b.startTime
    BY <2>6, <2>7
  <2>9. item.value = u /\ item.deliveryTime = now + d /\ item # None
    BY NoneAssumption DEF None
  <2> HIDE DEF b, d, item
  <2>10. Waits(sending[p])'
    BY <2>1, <2>3, <2>4, <2>5, <2>6, <2>8, <2>9 DEF Waits
  <2>11. Fits(u)'
    BY <2>1 DEF Fits
  <2> QED
    BY <2>1, <2>2, <2>6, <2>9, <2>10, <2>11
<1> QED
  BY <1>1, <1>2

\* The initial state.
LEMMA BackoffInit == ASSUME Increment > 0, Init PROVE BackoffOK
<1>1. Pipeline = <<>>
  BY DEF Init, Pipeline, InRun
<1>2. Elapsed[0] = 0
  BY ElapsedEquation
<1>3. /\ \A u \in Updaters : Fits(u) /\ Fresh(u)
  BY <1>2 DEF Init, Fits, Fresh
<1> QED
  BY <1>1, <1>3 DEF BackoffOK, Init, Selecting

\* Every step keeps the backoffs in order.
LEMMA BackoffStep ==
  ASSUME Increment > 0, MaxDuration > 0, Expiry > 0, IInv, BackoffOK, [Next]_vars
  PROVE  BackoffOK'
<1>1. /\ TypeOK /\ DueOK /\ HandlerOK /\ Unique
      /\ sending \in [Senders -> Item \cup {None}] /\ "handler" \in Senders
      /\ now \in Nat /\ attempts \in [Updaters -> Nat]
  BY DEF IInv, TypeOK, Senders
<1>2. /\ Pipeline \in Seq(Item) /\ Len(Pipeline) \in Nat
      /\ \A i \in 1 .. Len(Pipeline) : Pipeline[i] \in Item
  BY <1>1, PipelineType, LenProperties, ElementOfSeq
<1>3. None.value = "none" /\ \A item \in Item : item.value \in Updaters
  BY DEF None, Item
<1>4. /\ \A p \in Senders : sending[p] # None => sending[p] \in Item
      /\ handler.pc = "update" => handler.value \in Updaters
  BY <1>1 DEF HandlerOK
<1>5. CASE /\ Pipeline' = Pipeline /\ sending' = sending /\ handler'.value = handler.value
           /\ handler' = handler \/ handler'.pc # "update"
           /\ backoff' = backoff /\ attempts' = attempts
           /\ now' = now \/ now' = now + 1
  <2>1. ASSUME handler'.pc = "update" PROVE Tried(handler.value)'
    <3>1. Tried(handler.value) /\ handler' = handler /\ handler.value \in Updaters
      BY <1>4, <1>5, <2>1 DEF BackoffOK
    <3> DEFINE e == Elapsed[attempts[handler.value]]
               s == backoff[handler.value].startTime
    <3>2. e \in Nat /\ s \in Nat /\ s + e <= now
      BY <3>1 DEF BackoffOK, Fits, Tried
    <3> HIDE DEF e, s
    <3>3. s + e <= now'
      BY <1>1, <1>5, <3>2
    <3> QED
      BY <1>5, <3>1, <3>3 DEF Tried, e, s
  <2>2. \A u \in Updaters : Fits(u)'
    BY <1>5 DEF BackoffOK, Fits
  <2>3. \A u \in Updaters : Idle(u)' => Fresh(u)'
    BY <1>5 DEF BackoffOK, Idle, Fresh, Outside
  <2>4. \A i \in 1 .. Len(Pipeline) : Waits(Pipeline[i])'
    BY <1>5 DEF BackoffOK, Waits
  <2>5. \A p \in Senders : sending'[p] # None => Waits(sending[p])'
    BY <1>5 DEF BackoffOK, Waits
  <2> QED
    BY <1>5, <2>1, <2>2, <2>3, <2>4, <2>5 DEF BackoffOK
<1>6. ASSUME NEW p \in Clients, NEW u \in Updaters, ClientFails(p, u) PROVE BackoffOK'
  <2>1. p \in Senders /\ RetryClusterUpdate(p, u) /\ sending[p] = None
    BY <1>6 DEF Senders, ClientFails
  <2>2. Pipeline' = Pipeline /\ handler' = handler /\ now' = now
    BY <1>6, OtherPipeline DEF ClientFails
  <2>3. Idle(u)
    <3>1. DOMAIN Pipeline = 1 .. Len(Pipeline)
      BY <1>2, LenProperties
    <3> QED
      BY <1>6, <3>1 DEF ClientFails, InUse, Values, Outside, Idle
  <2>4. Fits(u) /\ Fresh(u)
    BY <2>3 DEF BackoffOK
  <2>5. /\ \A v \in Updaters : v # u => backoff'[v] = backoff[v] /\ attempts'[v] = attempts[v]
        /\ Fits(u)'
        /\ \/ Fresh(u)' /\ sending' = sending
           \/ Waits(sending[p])' /\ sending'[p].value = u /\ sending'[p] # None
    BY <1>1, <2>1, <2>4, RetryBackoff, ZenonT(60)
  <2>6. \A q \in Senders : q # p => sending'[q] = sending[q]
    BY <1>1, <2>1, RetryType
  <2>7. \A v \in Updaters : Fits(v)'
    BY <2>5 DEF BackoffOK, Fits
  <2>8. ASSUME NEW v \in Updaters, Idle(v)' PROVE Fresh(v)'
    <3>1. CASE v = u
      BY <2>1, <2>5, <2>8, <3>1 DEF Idle
    <3>2. CASE v # u
      <4>1. Idle(v)
        BY <1>3, <2>1, <2>2, <2>6, <2>8, NoneAssumption DEF Idle, Outside
      <4> QED
        BY <2>5, <3>2, <4>1 DEF BackoffOK, Fresh
    <3> QED
      BY <3>1, <3>2
  <2>9. ASSUME NEW i \in 1 .. Len(Pipeline) PROVE Waits(Pipeline[i])'
    <3>1. Waits(Pipeline[i]) /\ Pipeline[i].value # u /\ Pipeline[i].value \in Updaters
      BY <1>2, <1>3, <2>3 DEF BackoffOK, Idle, Outside
    <3> QED
      BY <2>2, <2>5, <3>1 DEF Waits
  <2>10. ASSUME NEW q \in Senders, sending'[q] # None PROVE Waits(sending[q])'
    <3>1. CASE q = p
      BY <2>1, <2>5, <2>10, <3>1
    <3>2. CASE q # p
      <4>1. sending'[q] = sending[q] /\ sending[q].value # u /\ sending[q].value \in Updaters
            /\ Waits(sending[q])
        BY <1>3, <1>4, <2>3, <2>6, <2>10, <3>2 DEF Idle, BackoffOK
      <4> QED
        BY <2>5, <4>1 DEF Waits
    <3> QED
      BY <3>1, <3>2
  <2>11. ASSUME handler'.pc = "update" PROVE Tried(handler.value)'
    <3>1. Tried(handler.value) /\ handler.value # u /\ handler.value \in Updaters
      BY <1>4, <2>2, <2>3, <2>11 DEF Idle, BackoffOK
    <3> QED
      BY <2>2, <2>5, <3>1 DEF Tried
  <2> QED
    BY <2>2, <2>7, <2>8, <2>9, <2>10, <2>11, ZenonT(30) DEF BackoffOK
<1>7. ASSUME NEW p \in Senders, Send(p) PROVE BackoffOK'
  <2>1. /\ handler' = handler /\ sending[p] # None /\ sending'[p] = None
        /\ \A q \in Senders : q # p => sending'[q] = sending[q]
        /\ backoff' = backoff /\ attempts' = attempts /\ now' = now
    BY <1>1, <1>7 DEF Send
  <2>2. sending[p] \in Item /\ Pipeline' = Append(Pipeline, sending[p])
    BY <1>1, <1>7, SendPipeline
  <2>3. /\ Len(Pipeline') = Len(Pipeline) + 1
        /\ \A i \in 1 .. Len(Pipeline) : Pipeline'[i] = Pipeline[i]
        /\ Pipeline'[Len(Pipeline) + 1] = sending[p]
    BY <1>2, <2>2, AppendProperties
  <2>4. ASSUME NEW u \in Updaters, Idle(u)' PROVE Idle(u)
    <3>1. \A i \in 1 .. Len(Pipeline) + 1 : Pipeline'[i].value # u
      BY <2>3, <2>4 DEF Idle, Outside
    <3>2. sending[p].value # u /\ Outside(u, Pipeline)
      BY <1>2, <2>3, <3>1 DEF Outside
    <3> QED
      BY <2>1, <2>4, <3>2 DEF Idle
  <2>5. ASSUME NEW i \in 1 .. Len(Pipeline') PROVE Waits(Pipeline[i])'
    <3>1. CASE i \in 1 .. Len(Pipeline)
      <4>1. Pipeline'[i] = Pipeline[i] /\ Waits(Pipeline[i])
        BY <2>3, <3>1 DEF BackoffOK
      <4> QED
        BY <2>1, <4>1 DEF Waits
    <3>2. CASE i = Len(Pipeline) + 1
      <4>1. Pipeline'[i] = sending[p] /\ Waits(sending[p])
        BY <2>1, <2>3, <3>2 DEF BackoffOK
      <4> QED
        BY <2>1, <4>1 DEF Waits
    <3> QED
      BY <1>2, <2>3, <2>5, <3>1, <3>2
  <2> QED
    BY <2>1, <2>4, <2>5, ZenonT(60) DEF BackoffOK, Fits, Fresh, Waits, Tried
<1>8. CASE Handle
  <2> DEFINE item == Head(targetChannel)
  <2>0. PICK u : u = item.value
    OBVIOUS
  <2>1. /\ Pipeline # <<>> /\ Head(Pipeline) = item /\ Pipeline' = Tail(Pipeline)
    BY <1>1, <1>8, HandlePipeline
  <2>2. /\ Len(Pipeline') = Len(Pipeline) - 1 /\ Len(Pipeline) \in Nat \ {0}
        /\ \A i \in 1 .. Len(Pipeline') : Pipeline'[i] = Pipeline[i + 1]
        /\ item = Pipeline[1] /\ item \in Item
    BY <1>2, <2>1, HeadTailProperties, LenProperties, EmptySeq
  <2>3. item.deliveryTime <= now /\ item.deliveryTime \in Nat /\ u \in Updaters
    <3>1. targetChannel \in Seq(Item) /\ targetChannel # <<>>
      BY <1>1, <1>8 DEF TypeOK, Handle
    <3>2. 1 \in 1 .. Len(targetChannel) /\ item = targetChannel[1]
      BY <3>1, EmptySeq
    <3> QED
      BY <1>1, <2>0, <2>2, <3>2 DEF DueOK, Item
  <2>4. Waits(item) /\ Fits(u)
    BY <2>2, <2>3 DEF BackoffOK
  <2>5. /\ Outside(u, Tail(Pipeline)) /\ \A p \in Senders : sending[p].value # u
        /\ handler.pc # "update" /\ handler.value = "none" /\ sending' = sending
        /\ now' = now
    <3>1. Outside(u, Tail(Pipeline))
      BY <1>1, <1>2, <2>0, <2>1, DistinctTail DEF Unique
    <3>2. \A p \in Senders : sending[p] # None => sending[p].value # u
      BY <1>1, <1>2, <2>0, <2>2 DEF Unique, Outside
    <3>3. \A p \in Senders : sending[p].value # u
      BY <1>3, <2>3, <3>2, NoneAssumption
    <3> QED
      BY <1>1, <1>8, <3>1, <3>3 DEF Handle, HandlerIdle, HandlerOK
  <2>6. /\ \A v \in Updaters : v # u => backoff'[v] = backoff[v] /\ attempts'[v] = attempts[v]
        /\ Fits(u)'
        /\ \/ Fresh(u)' /\ handler' = handler
           \/ Tried(u)' /\ handler'.value = u
    <3>1. CASE HasExpired(backoff[u])
      <4>1. Forget(u) /\ handler' = handler
        BY <1>8, <2>0, <3>1 DEF Handle
      <4> QED
        BY <1>1, <2>3, <4>1, ForgetFacts
    <3>2. CASE ~HasExpired(backoff[u])
      <4> DEFINE k == attempts[u] + 1
                 s == backoff[u].startTime
      <4>1. /\ handler' = [pc |-> "update", value |-> u] /\ backoff' = backoff
            /\ attempts' = [attempts EXCEPT ![u] = @ + 1]
        BY <1>8, <2>0, <3>2 DEF Handle
      <4>2. attempts[u] \in Nat /\ attempts'[u] = k /\ k \in Nat /\ k # 0 /\ k - 1 = attempts[u]
        BY <1>1, <2>3, <4>1
      <4>3. s \in Nat /\ now - s < Expiry
        BY <1>1, <2>0, <2>4, <3>2, BackoffAssumption DEF Waits, HasExpired
      <4>4. Elapsed[k] = Elapsed[attempts[u]] + Delay(k)
        BY <4>2, ElapsedEquation
      <4>5. Delay(k) \in Nat /\ Delay(k) > 0
        BY <4>2, DelayStep
      <4>6. Elapsed[k] \in Nat /\ k <= Elapsed[k]
        BY <2>4, <4>2, <4>4, <4>5 DEF Fits
      <4>7. s + Elapsed[k] <= now /\ backoff[u].duration = Delay(k)
        BY <1>1, <2>0, <2>3, <2>4, <4>3, <4>6 DEF Waits
      <4>8. Elapsed[k] < Expiry
        BY <1>1, <4>3, <4>6, <4>7, BackoffAssumption
      <4>9. \A j \in 1 .. k : Elapsed[j] < Expiry
        <5>1. \A j \in 1 .. k : j \in 1 .. attempts[u] \/ j = k
          BY <4>2
        <5> QED
          BY <2>4, <4>8, <5>1 DEF Fits
      <4>10. attempts'[u] \in Nat /\ s = backoff'[u].startTime
             /\ backoff'[u].duration = Delay(attempts'[u]) /\ s + Elapsed[attempts'[u]] <= now
        BY <4>1, <4>2, <4>7
      <4>11. Fits(u)'
        BY <4>2, <4>6, <4>9 DEF Fits
      <4>12. Tried(u)'
        BY <2>5, <4>3, <4>10 DEF Tried
      <4> QED
        BY <1>1, <4>1, <4>11, <4>12
    <3> QED
      BY <3>1, <3>2
  <2>7. \A v \in Updaters : Fits(v)'
    BY <2>6 DEF BackoffOK, Fits
  <2>8. ASSUME NEW v \in Updaters, Idle(v)' PROVE Fresh(v)'
    <3>1. CASE v = u
      BY <2>6, <2>8, <3>1 DEF Idle
    <3>2. CASE v # u
      <4>1. \A i \in 1 .. Len(Pipeline) : Pipeline[i].value # v
        <5>1. ASSUME NEW i \in 1 .. Len(Pipeline), i # 1 PROVE Pipeline[i].value # v
          <6>1. i - 1 \in 1 .. Len(Pipeline') /\ Pipeline'[i - 1] = Pipeline[i]
            BY <2>2, <5>1
          <6> QED
            BY <2>8, <6>1 DEF Idle, Outside
        <5> QED
          BY <2>0, <2>2, <3>2, <5>1
      <4>2. Idle(v)
        BY <2>3, <2>5, <2>8, <4>1, NoneAssumption DEF Idle, Outside
      <4> QED
        BY <2>6, <3>2, <4>2 DEF BackoffOK, Fresh
    <3> QED
      BY <3>1, <3>2
  <2>9. ASSUME NEW i \in 1 .. Len(Pipeline') PROVE Waits(Pipeline[i])'
    <3>1. /\ i + 1 \in 1 .. Len(Pipeline) /\ Pipeline'[i] = Pipeline[i + 1]
      BY <2>2
    <3>2. Waits(Pipeline[i + 1]) /\ Pipeline[i + 1].value \in Updaters
      BY <1>2, <1>3, <3>1 DEF BackoffOK
    <3>3. Pipeline'[i].value # u
      BY <2>1, <2>5 DEF Outside
    <3> QED
      BY <2>6, <3>1, <3>2, <3>3 DEF Waits
  <2>10. ASSUME NEW q \in Senders, sending'[q] # None PROVE Waits(sending[q])'
    <3>1. sending'[q] = sending[q] /\ sending[q].value # u /\ sending[q].value \in Updaters
          /\ Waits(sending[q])
      BY <1>3, <1>4, <2>5, <2>10, ZenonT(30) DEF BackoffOK
    <3> QED
      BY <2>6, <3>1 DEF Waits
  <2>11. handler'.pc = "update" => Tried(handler.value)'
    BY <2>5, <2>6, ZenonT(30) DEF Tried
  <2> QED
    BY <2>7, <2>8, <2>9, <2>10, <2>11, ZenonT(30) DEF BackoffOK
<1>9. CASE UpdateSucceeds \/ UpdateFails
  <2> DEFINE p == "handler"
  <2>0. PICK u : u = handler.value
    OBVIOUS
  <2>1. /\ handler.pc = "update" /\ u \in Updaters /\ Outside(u, Pipeline)
        /\ \A q \in Senders : sending[q].value # u
        /\ sending[p] = None /\ p \in Senders
    BY <1>1, <1>9, <2>0 DEF UpdateSucceeds, UpdateFails, HandlerOK, Unique
  <2>2. Pipeline' = Pipeline /\ now' = now /\ handler' = Selecting
    BY <1>9, OtherPipeline DEF UpdateSucceeds, UpdateFails
  <2>3. Fits(u) /\ Tried(u)
    BY <2>0, <2>1, ZenonT(60) DEF BackoffOK
  <2>4. /\ \A v \in Updaters : v # u => backoff'[v] = backoff[v] /\ attempts'[v] = attempts[v]
        /\ Fits(u)'
        /\ \/ Fresh(u)' /\ sending' = sending
           \/ Waits(sending[p])' /\ sending'[p].value = u /\ sending'[p] # None
        /\ \A q \in Senders : q # p => sending'[q] = sending[q]
    <3>1. CASE UpdateSucceeds
      <4>1. Forget(u) /\ sending' = sending
        BY <2>0, <3>1 DEF UpdateSucceeds
      <4> QED
        BY <1>1, <2>1, <4>1, ForgetFacts, ZenonT(60)
    <3>2. CASE UpdateFails
      <4>1. RetryClusterUpdate(p, u)
        BY <2>0, <3>2 DEF UpdateFails
      <4>2. \A q \in Senders : q # p => sending'[q] = sending[q]
        BY <1>1, <2>1, <4>1, RetryType
      <4> QED
        BY <1>1, <2>1, <2>3, <4>1, <4>2, RetryBackoff, ZenonT(60)
    <3> QED
      BY <1>9, <3>1, <3>2, ZenonT(60)
  <2> HIDE DEF p
  <2>5. \A v \in Updaters : Fits(v)'
    BY <2>4 DEF BackoffOK, Fits
  <2>6. ASSUME NEW v \in Updaters, Idle(v)' PROVE Fresh(v)'
    <3>1. CASE v = u
      BY <2>1, <2>4, <2>6, <3>1 DEF Idle
    <3>2. CASE v # u
      <4>1. Idle(v)
        BY <1>3, <2>0, <2>1, <2>2, <2>4, <2>6, <3>2, NoneAssumption, ZenonT(30)
           DEF Idle, Outside
      <4> QED
        BY <2>4, <3>2, <4>1, ZenonT(30) DEF BackoffOK, Fresh
    <3> QED
      BY <3>1, <3>2
  <2>7. ASSUME NEW i \in 1 .. Len(Pipeline) PROVE Waits(Pipeline[i])'
    <3>1. Waits(Pipeline[i]) /\ Pipeline[i].value # u /\ Pipeline[i].value \in Updaters
      BY <1>2, <1>3, <2>1, ZenonT(60) DEF BackoffOK, Outside
    <3> QED
      BY <2>2, <2>4, <3>1, ZenonT(60) DEF Waits
  <2>8. ASSUME NEW q \in Senders, sending'[q] # None PROVE Waits(sending[q])'
    <3>1. CASE q = p
      BY <2>1, <2>4, <2>8, <3>1, ZenonT(60)
    <3>2. CASE q # p
      <4>1. sending'[q] = sending[q] /\ sending[q].value # u /\ sending[q].value \in Updaters
            /\ Waits(sending[q])
        BY <1>3, <1>4, <2>1, <2>4, <2>8, <3>2, ZenonT(30) DEF BackoffOK
      <4> QED
        BY <2>4, <4>1, ZenonT(30) DEF Waits
    <3> QED
      BY <3>1, <3>2
  <2> QED
    BY <2>2, <2>5, <2>6, <2>7, <2>8, ZenonT(60) DEF BackoffOK, Selecting
<1>10. CASE Run \/ RunStops \/ HandlerStops \/ Stop \/ Tick \/ UNCHANGED vars
  <2>1. WakeUp \/ RunStops \/ HandlerStops \/ Stop \/ Tick \/ UNCHANGED vars
          => Pipeline' = Pipeline
    BY <1>1, OtherPipeline, ZenonT(30)
       DEF WakeUp, RunStops, HandlerStops, Stop, Tick, vars, Awake, TypeOK
  <2>2. Pipeline' = Pipeline
    BY <1>1, <1>10, <2>1, DeliverPipeline, PushPipeline, ReceivePipeline DEF Run
  <2>3. /\ sending' = sending /\ backoff' = backoff /\ attempts' = attempts
        /\ now' = now \/ now' = now + 1
        /\ handler' = handler \/ (handler'.pc = "done" /\ handler'.value = handler.value)
    BY <1>1, <1>10 DEF Run, Deliver, Push, WakeUp, Receive, RunStops, HandlerStops, Stop,
                       Tick, vars, TypeOK
  <2> QED
    BY <1>5, <2>2, <2>3
<1> QED
  BY <1>6, <1>7, <1>8, <1>9, <1>10 DEF Next, Handler

\* The updaters are retried only while their delays fit into their life time: with a
\* positive increment, longest delay and life time, as clustercontroller.go sets them, the
\* handler calls clusterUpdate() for one updater no more often than that, for every
\* number of updaters, capacity of the channels and schedule of the goroutines.
THEOREM RetrierGivesUp ==
  ASSUME Increment > 0, MaxDuration > 0, Expiry > 0
  PROVE  Spec => []RetriesBounded
<1>1. Init => BackoffOK
  BY BackoffInit
<1>2. IInv /\ BackoffOK /\ [Next]_vars => BackoffOK'
  BY BackoffStep
<1>3. IInv /\ BackoffOK => RetriesBounded
  <2> SUFFICES ASSUME IInv, BackoffOK, NEW u \in Updaters
               PROVE  attempts[u] <= Cardinality({k \in 1 .. Expiry : Elapsed[k] < Expiry})
    BY DEF RetriesBounded
  <2> DEFINE S == {k \in 1 .. Expiry : Elapsed[k] < Expiry}
             n == attempts[u]
  <2>1. /\ n \in Nat /\ Expiry \in Nat /\ \A k \in 1 .. n : Elapsed[k] < Expiry
        /\ Elapsed[n] \in Nat /\ n <= Elapsed[n]
    BY BackoffAssumption DEF IInv, TypeOK, BackoffOK, Fits
  <2>2. n # 0 => n \in 1 .. n /\ n <= Expiry
    <3>1. n # 0 => n \in 1 .. n
      BY <2>1
    <3> QED
      BY <2>1, <3>1
  <2>3. 1 .. n \in SUBSET S
    BY <2>1, <2>2
  <2>4. IsFiniteSet(1 .. Expiry) /\ S \in SUBSET (1 .. Expiry)
    <3>1. 1 \in Int /\ Expiry \in Int
      BY <2>1
    <3>2. IsFiniteSet(1 .. Expiry)
      BY <3>1, FS_Interval
    <3> QED
      BY <3>2
  <2> HIDE DEF S, n
  <2>5. IsFiniteSet(S)
    BY <2>4, FS_Subset, ZenonT(30)
  <2>6. Cardinality(1 .. n) <= Cardinality(S)
    BY <2>3, <2>5, FS_Subset, ZenonT(30)
  <2>7. Cardinality(1 .. n) = n
    BY <2>1, FS_Interval
  <2> QED
    BY <2>6, <2>7 DEF S, n
<1> QED
  BY <1>1, <1>2, <1>3, Invariant, PTL DEF Spec


=============================================================================
