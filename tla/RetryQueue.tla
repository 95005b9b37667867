------------------------------ MODULE RetryQueue ------------------------------
(***************************************************************************)
(* What clusterUpdateRetrier promises its users: one queue of updaters,    *)
(* handed to the handler in the order they came, each at most once and     *)
(* never before its delivery time.                                         *)
(***************************************************************************)
EXTENDS Naturals, Sequences

CONSTANT Updaters

VARIABLES now,     \* the clock
          queue    \* the undelivered items, oldest first

Item == [value : Updaters, deliveryTime : Nat]

Init == now = 0 /\ queue = <<>>

\* An updater that is not in the queue joins its end.
Submit ==
  LET item == queue'[Len(queue')]
  IN  /\ Len(queue') = Len(queue) + 1
      /\ item \in Item
      /\ queue' = Append(queue, item)
      /\ \A i \in 1 .. Len(queue) : queue[i].value # item.value
      /\ UNCHANGED now

\* The oldest item is delivered, once it is due.
Deliver ==
  /\ queue # <<>>
  /\ Head(queue).deliveryTime <= now
  /\ queue' = Tail(queue)
  /\ UNCHANGED now

Tick ==
  /\ now' = now + 1
  /\ UNCHANGED queue

Next == Submit \/ Deliver \/ Tick

Spec == Init /\ [][Next]_<<now, queue>>

=============================================================================
