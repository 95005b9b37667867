----------------------------- MODULE UpdateRetrier -----------------------------
(***************************************************************************)
(* The clusterUpdateRetrier of pkg/controller/cluster/clustercontroller.go *)
(* and the code that feeds and drains it.  A goroutine whose clusterUpdate *)
(* failed sends its updater, with a delivery time, into updateChannel.     *)
(* The run goroutine moves items from updateChannel to the list data and,  *)
(* when they are due, to targetChannel.  The handler goroutine takes them  *)
(* from targetChannel and calls clusterUpdate again, which may send them   *)
(* back.  Both channels are bounded and their sends block.                 *)
(***************************************************************************)
EXTENDS Integers, Sequences, FiniteSets

CONSTANTS Updaters,           \* identities of clusterUpdater values
          TargetCap,          \* capacity of targetChannel
          UpdateCap,          \* capacity of updateChannel
          Increment,          \* BackoffIncrementalDuration
          MaxDuration,        \* BackoffMaxDuration
          Expiry,             \* BackoffExpiryDuration
          IdleWakeUp,         \* how long run sleeps when data is empty
          MaxTime,            \* bound: the clock stops here
          MaxFirst,           \* bound: no updater fails first after this time
          MayStop             \* whether stop() is called

ASSUME CapacityAssumption == TargetCap \in Nat /\ UpdateCap \in Nat

ASSUME BackoffAssumption ==
  /\ Increment \in Nat /\ MaxDuration \in Nat
  /\ Expiry \in Int /\ IdleWakeUp \in Nat

ASSUME NoneAssumption == "none" \notin Updaters

VARIABLES now,             \* time.Now()
          updateChannel,
          data,
          targetChannel,
          run,             \* the run goroutine
          handler,         \* the handler goroutine
          sending,         \* the item a goroutine is blocked on sending, if any
          backoff,         \* the backoffItem of every updater
          attempts,        \* history: calls of clusterUpdate by the handler
          stopped          \* stopChannel is closed

vars == <<now, updateChannel, data, targetChannel, run, handler, sending,
          backoff, attempts, stopped>>

-----------------------------------------------------------------------------
Clients == {"worker", "reconcile"}

Senders == Clients \cup {"handler"}

\* The zero time.Time.
Zero == -1

Item == [value : Updaters, deliveryTime : Nat]

None == [value |-> "none", deliveryTime |-> 0]

Selecting == [pc |-> "select", value |-> "none"]

NewBackoff == [duration |-> 0, startTime |-> Zero]

Values(items) == {items[i].value : i \in DOMAIN items}

InRun == IF run.pc = "push" THEN <<run.item>> ELSE <<>>

\* Everything between deliverAfter and the handler, oldest first.
Pipeline == targetChannel \o InRun \o data \o updateChannel

\* The updaters some goroutine has in its hands or the retrier holds.
InUse == Values(Pipeline) \cup {sending[p].value : p \in Senders} \cup {handler.value}

-----------------------------------------------------------------------------
(* backoffItem                                                              *)

NextDuration(d) ==
  IF d + Increment <= MaxDuration THEN d + Increment ELSE MaxDuration

HasExpired(b) == Expiry > 0 /\ now - b.startTime >= Expiry

-----------------------------------------------------------------------------
\* The updater u is forgotten by everyone.
Forget(u) ==
  /\ backoff' = [backoff EXCEPT ![u] = NewBackoff]
  /\ attempts' = [attempts EXCEPT ![u] = 0]

\* Variant for mutation: the backoff starts again with every failure.
RetryFromStart(p, u) ==
  LET b == [backoff[u] EXCEPT !.startTime = now]
      d == NextDuration(b.duration)
  IN  /\ backoff' = [backoff EXCEPT ![u] = [b EXCEPT !.duration = d]]
      /\ sending' = [sending EXCEPT ![p] = [value |-> u, deliveryTime |-> now + d]]
      /\ UNCHANGED attempts

\* retryClusterUpdate(), up to the send of deliverAfter(), by goroutine p.
RetryClusterUpdate(p, u) ==
  LET b == [backoff[u] EXCEPT !.startTime = IF @ = Zero THEN now ELSE @]
      d == NextDuration(b.duration)
  IN  IF HasExpired(b)
      THEN /\ Forget(u)
           /\ UNCHANGED sending
      ELSE /\ backoff' = [backoff EXCEPT ![u] = [b EXCEPT !.duration = d]]
           /\ sending' = [sending EXCEPT
                            ![p] = [value |-> u, deliveryTime |-> now + d]]
           /\ UNCHANGED attempts

\* clusterUpdate() of the worker or of the reconcile loop fails for an updater
\* it has just made.
ClientFails(p, u) ==
  /\ now <= MaxFirst
  /\ sending[p] = None
  /\ u \notin InUse
  /\ RetryClusterUpdate(p, u)
  /\ UNCHANGED <<now, updateChannel, data, targetChannel, run, handler, stopped>>

\* Variant for mutation: the channel takes one item too many.
SendOver(p) ==
  /\ sending[p] # None
  /\ Len(updateChannel) <= UpdateCap
  /\ updateChannel' = Append(updateChannel, sending[p])
  /\ sending' = [sending EXCEPT ![p] = None]
  /\ UNCHANGED <<now, data, targetChannel, run, handler, backoff, attempts, stopped>>

\* The send of deliverAfter() goes through.
Send(p) ==
  /\ sending[p] # None
  /\ Len(updateChannel) < UpdateCap
  /\ updateChannel' = Append(updateChannel, sending[p])
  /\ sending' = [sending EXCEPT ![p] = None]
  /\ UNCHANGED <<now, data, targetChannel, run, handler, backoff, attempts, stopped>>

-----------------------------------------------------------------------------
(* The run goroutine: deliver what is due, then sleep in the select.        *)

\* Variant for mutation: the delivered item is not popped.
DeliverKeeps ==
  /\ run.pc = "deliver"
  /\ IF data # <<>> /\ run.timestamp >= Head(data).deliveryTime
     THEN run' = [run EXCEPT !.pc = "push", !.item = Head(data)]
     ELSE run' = [run EXCEPT !.pc = "select",
                    !.wakeUp = IF data = <<>> THEN run.timestamp + IdleWakeUp
                               ELSE Head(data).deliveryTime]
  /\ UNCHANGED <<now, updateChannel, data, targetChannel, handler, sending, backoff,
                 attempts, stopped>>

\* One turn of the loop of deliver(), for the time run read before it; when it
\* returns, run goes to sleep until the first item of data is due.
Deliver ==
  /\ run.pc = "deliver"
  /\ IF data # <<>> /\ run.timestamp >= Head(data).deliveryTime
     THEN /\ run' = [run EXCEPT !.pc = "push", !.item = Head(data)]
          /\ data' = Tail(data)
     ELSE /\ run' = [run EXCEPT !.pc = "select",
                       !.wakeUp = IF data = <<>> THEN run.timestamp + IdleWakeUp
                                  ELSE Head(data).deliveryTime]
          /\ UNCHANGED data
  /\ UNCHANGED <<now, updateChannel, targetChannel, handler, sending, backoff,
                 attempts, stopped>>

\* The send of deliver() goes through.
Push ==
  /\ run.pc = "push"
  /\ Len(targetChannel) < TargetCap
  /\ targetChannel' = Append(targetChannel, run.item)
  /\ run' = [run EXCEPT !.pc = "deliver", !.item = None]
  /\ UNCHANGED <<now, updateChannel, data, handler, sending, backoff, attempts,
                 stopped>>

Awake == [run EXCEPT !.pc = "deliver", !.timestamp = now, !.wakeUp = 0]

WakeUp ==
  /\ run.pc = "select"
  /\ now >= run.wakeUp
  /\ run' = Awake
  /\ UNCHANGED <<now, updateChannel, data, targetChannel, handler, sending,
                 backoff, attempts, stopped>>

\* Variant for mutation: new items go to the front of data.
ReceiveFront ==
  /\ run.pc = "select"
  /\ updateChannel # <<>>
  /\ data' = <<Head(updateChannel)>> \o data
  /\ updateChannel' = Tail(updateChannel)
  /\ run' = Awake
  /\ UNCHANGED <<now, targetChannel, handler, sending, backoff, attempts, stopped>>

Receive ==
  /\ run.pc = "select"
  /\ updateChannel # <<>>
  /\ data' = Append(data, Head(updateChannel))
  /\ updateChannel' = Tail(updateChannel)
  /\ run' = Awake
  /\ UNCHANGED <<now, targetChannel, handler, sending, backoff, attempts, stopped>>

RunStops ==
  /\ run.pc = "select"
  /\ stopped
  /\ run' = [run EXCEPT !.pc = "done", !.wakeUp = 0]
  /\ UNCHANGED <<now, updateChannel, data, targetChannel, handler, sending,
                 backoff, attempts, stopped>>

-----------------------------------------------------------------------------
(* The handler goroutine.                                                   *)

HandlerIdle == handler.pc = "select" /\ sending["handler"] = None

\* Variant for mutation: an expired updater is put back.
HandlePutsBack ==
  LET u == Head(targetChannel).value
  IN  /\ HandlerIdle
      /\ targetChannel # <<>>
      /\ IF HasExpired(backoff[u])
         THEN /\ targetChannel' = Append(Tail(targetChannel), Head(targetChannel))
              /\ UNCHANGED <<handler, attempts, backoff>>
         ELSE /\ targetChannel' = Tail(targetChannel)
              /\ handler' = [pc |-> "update", value |-> u]
              /\ attempts' = [attempts EXCEPT ![u] = @ + 1]
              /\ UNCHANGED backoff
      /\ UNCHANGED <<now, updateChannel, data, run, sending, stopped>>

\* An expired updater is dropped, another one is given to clusterUpdate().
Handle ==
  LET u == Head(targetChannel).value
  IN  /\ HandlerIdle
      /\ targetChannel # <<>>
      /\ targetChannel' = Tail(targetChannel)
      /\ IF HasExpired(backoff[u])
         THEN Forget(u) /\ UNCHANGED handler
         ELSE /\ handler' = [pc |-> "update", value |-> u]
              /\ attempts' = [attempts EXCEPT ![u] = @ + 1]
              /\ UNCHANGED backoff
      /\ UNCHANGED <<now, updateChannel, data, run, sending, stopped>>

\* update() returns nil.
UpdateSucceeds ==
  /\ handler.pc = "update"
  /\ Forget(handler.value)
  /\ handler' = Selecting
  /\ UNCHANGED <<now, updateChannel, data, targetChannel, run, sending, stopped>>

\* update() returns an error, and the updater goes back.
UpdateFails ==
  /\ handler.pc = "update"
  /\ RetryClusterUpdate("handler", handler.value)
  /\ handler' = Selecting
  /\ UNCHANGED <<now, updateChannel, data, targetChannel, run, stopped>>

HandlerStops ==
  /\ HandlerIdle
  /\ stopped
  /\ handler' = [handler EXCEPT !.pc = "done"]
  /\ UNCHANGED <<now, updateChannel, data, targetChannel, run, sending, backoff,
                 attempts, stopped>>

-----------------------------------------------------------------------------
Stop ==
  /\ MayStop
  /\ ~stopped
  /\ stopped' = TRUE
  /\ UNCHANGED <<now, updateChannel, data, targetChannel, run, handler, sending,
                 backoff, attempts>>

Tick ==
  /\ now < MaxTime
  /\ now' = now + 1
  /\ UNCHANGED <<updateChannel, data, targetChannel, run, handler, sending,
                 backoff, attempts, stopped>>

Init ==
  /\ now = 0
  /\ updateChannel = <<>> /\ data = <<>> /\ targetChannel = <<>>
  /\ run = [pc |-> "deliver", timestamp |-> 0, wakeUp |-> 0, item |-> None]
  /\ handler = Selecting
  /\ sending = [p \in Senders |-> None]
  /\ backoff = [u \in Updaters |-> NewBackoff]
  /\ attempts = [u \in Updaters |-> 0]
  /\ stopped = FALSE

Run == Deliver \/ Push \/ WakeUp \/ Receive

Handler == Handle \/ UpdateSucceeds \/ UpdateFails

Next ==
  \/ \E p \in Clients, u \in Updaters : ClientFails(p, u)
  \/ \E p \in Senders : Send(p)
  \/ Run \/ RunStops
  \/ Handler \/ HandlerStops
  \/ Stop
  \/ Tick

\* Goroutines that can run do, a select with a case that stays ready takes it
\* in the end (Go chooses among the ready cases at random), and time passes.
Fairness ==
  /\ \A p \in Senders : SF_vars(Send(p))
  /\ WF_vars(Deliver) /\ WF_vars(Push) /\ WF_vars(WakeUp) /\ SF_vars(Receive)
  /\ SF_vars(RunStops)
  /\ WF_vars(Handle) /\ SF_vars(HandlerStops)
  /\ WF_vars(UpdateSucceeds \/ UpdateFails)
  /\ WF_vars(Tick)

Spec == Init /\ [][Next]_vars /\ Fairness

-----------------------------------------------------------------------------
(* Properties.                                                              *)

\* The variables hold what their declarations say.
TypeOK ==
  /\ now \in Nat
  /\ updateChannel \in Seq(Item) /\ Len(updateChannel) <= UpdateCap
  /\ targetChannel \in Seq(Item) /\ Len(targetChannel) <= TargetCap
  /\ data \in Seq(Item)
  /\ run \in [pc : {"deliver", "push", "select", "done"}, timestamp : Nat,
              wakeUp : Nat, item : Item \cup {None}]
  /\ handler \in [pc : {"select", "update", "done"}, value : Updaters \cup {"none"}]
  /\ sending \in [Senders -> Item \cup {None}]
  /\ backoff \in [Updaters -> [duration : Nat, startTime : Nat \cup {Zero}]]
  /\ attempts \in [Updaters -> Nat]
  /\ stopped \in BOOLEAN

Abstract == INSTANCE RetryQueue WITH queue <- Pipeline

\* The two channels, the list and the item in run's hands are one queue: an
\* updater is in it at most once, is never lost, overtaken or delivered before
\* its time, whatever the five sends and receives interleave with.
ImplementsRetryQueue == Abstract!Spec

\* run waiting for the handler to make room in targetChannel and the handler
\* waiting for run to make room in updateChannel would wait for ever.  It takes
\* TargetCap + UpdateCap + 2 updaters; with fewer it never happens.
NoCircularWait ==
  ~ /\ run.pc = "push" /\ Len(targetChannel) = TargetCap
    /\ sending["handler"] # None /\ Len(updateChannel) = UpdateCap

\* The k-th delay, k increments or the longest one, and the sum of the first k.
Delay(k) == IF k * Increment <= MaxDuration THEN k * Increment ELSE MaxDuration

Elapsed[k \in Nat] == IF k = 0 THEN 0 ELSE Elapsed[k - 1] + Delay(k)

\* An updater is retried as often as its growing delays fit into its life time,
\* and no more: hasExpired() and next() together bound the retries, however
\* late the goroutines run.
RetriesBounded ==
  \A u \in Updaters :
    attempts[u] <= Cardinality({k \in 1 .. Expiry : Elapsed[k] < Expiry})

\* Every updater given to the retrier is written or expires in the end, unless the
\* retrier is stopped.
Settles == \A u \in Updaters : u \in InUse ~> u \notin InUse \/ stopped

=============================================================================
