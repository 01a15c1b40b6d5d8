---------------------------- MODULE BoundedQueue ----------------------------
(***************************************************************************)
(* What a fifo promises its two users: a FIFO queue of at most Capacity    *)
(* items.  A put is refused exactly when the queue is full and a get comes *)
(* back empty exactly when it is empty; an item that was taken stays       *)
(* intact in the taker's hand (fifo.c hands out a pointer into the ring,   *)
(* not a copy) until the taker is done with it.                            *)
(*                                                                         *)
(* Clearing the queue takes time, and these promises do not hold while it  *)
(* lasts: when the putting side clears, the other side may be given items  *)
(* it had before, and then the queue is left with items nobody has put;    *)
(* when the taking side clears, items put meanwhile are lost or refused.   *)
(***************************************************************************)
EXTENDS Integers, Sequences

CONSTANTS Values, Nothing, Torn, Capacity

VARIABLES queue,    \* the items put and not yet taken, oldest first
          held,     \* the item the taker is working on, or Nothing
          full,     \* was the last put refused
          empty,    \* did the last get find nothing
          clearing  \* "none", the side that is clearing the queue, or
                    \* "disturbed" once the other side has taken something

qvars == <<queue, held, full, empty, clearing>>

Init ==
  /\ queue = <<>> /\ held = Nothing
  /\ full = FALSE /\ empty = FALSE
  /\ clearing = "none"

Put(v) ==
  /\ clearing = "none"
  /\ Len(queue) < Capacity
  /\ queue' = Append(queue, v)
  /\ full' = FALSE
  /\ UNCHANGED <<held, empty, clearing>>

Refuse ==
  /\ clearing = "none"
  /\ Len(queue) = Capacity
  /\ full' = TRUE
  /\ UNCHANGED <<queue, held, empty, clearing>>

Get ==
  /\ clearing = "none"
  /\ held = Nothing
  /\ queue # <<>>
  /\ held' = Head(queue)
  /\ queue' = Tail(queue)
  /\ empty' = FALSE
  /\ UNCHANGED <<full, clearing>>

GetNothing ==
  /\ clearing # "popper"
  /\ held = Nothing
  /\ queue = <<>>
  /\ empty' = TRUE
  /\ UNCHANGED <<queue, held, full, clearing>>

Release ==
  /\ held # Nothing
  /\ held' = Nothing
  /\ UNCHANGED <<queue, full, empty, clearing>>

-----------------------------------------------------------------------------
(* fifoInit *)

\* Everything that is still queued is forgotten.
BeginClear(side) ==
  /\ clearing = "none"
  /\ held = Nothing
  /\ queue' = <<>>
  /\ clearing' = side
  /\ UNCHANGED <<held, full, empty>>

\* Something that was put before is taken, perhaps for the second time.
GetStale ==
  /\ clearing \in {"pusher", "disturbed"}
  /\ held = Nothing
  /\ held' \in Values
  /\ empty' = FALSE
  /\ clearing' = "disturbed"
  /\ UNCHANGED <<queue, full>>

\* A put in vain, refused or not.
PutLost ==
  /\ clearing = "popper"
  /\ full' \in BOOLEAN
  /\ UNCHANGED <<queue, held, empty, clearing>>

\* The queue is empty, unless the taker was given stale items in between.
EndClear ==
  /\ clearing \in {"pusher", "popper"}
  /\ held = Nothing
  /\ clearing' = "none"
  /\ UNCHANGED <<queue, held, full, empty>>

EndDisturbed ==
  /\ clearing = "disturbed"
  /\ held = Nothing
  /\ queue' \in Seq(Values \cup {Torn})
  /\ Len(queue') \in 1 .. Capacity
  /\ clearing' = "none"
  /\ UNCHANGED <<held, full, empty>>

Next ==
  \/ \E v \in Values : Put(v)
  \/ Refuse \/ Get \/ GetNothing \/ Release
  \/ \E side \in {"pusher", "popper"} : BeginClear(side)
  \/ GetStale \/ PutLost \/ EndClear \/ EndDisturbed

Spec == Init /\ [][Next]_qvars

=============================================================================
