------------------------------ MODULE Repeater ------------------------------
(***************************************************************************)
(* What a sending station promises its host: packets are taken in the      *)
(* order in which they were written, one at a time; for each a fixed       *)
(* number of attempts to send it is made before the next one is taken;     *)
(* none is skipped, attempted too often or cut short.  An attempt that the *)
(* radio refuses counts.  Only a station that has not been configured      *)
(* throws packets away.                                                    *)
(***************************************************************************)
EXTENDS Integers, Sequences

CONSTANTS Packets, NoPacket, Counts, Capacity

VARIABLES configured, \* the station has been given its parameters
          waiting,    \* packets written by the host and not yet taken
          current,    \* the packet being sent, or NoPacket
          left        \* how many attempts are still to be made for current

rvars == <<configured, waiting, current, left>>

Init == configured = FALSE /\ waiting = <<>> /\ current = NoPacket /\ left = 0

Submit(p) ==
  /\ Len(waiting) < Capacity
  /\ waiting' = Append(waiting, p)
  /\ UNCHANGED <<configured, current, left>>

Configure ==
  /\ current = NoPacket
  /\ configured' = TRUE
  /\ UNCHANGED <<waiting, current, left>>

Discard ==
  /\ ~ configured /\ waiting # <<>>
  /\ waiting' = Tail(waiting)
  /\ UNCHANGED <<configured, current, left>>

Begin ==
  /\ configured /\ current = NoPacket /\ waiting # <<>>
  /\ current' = Head(waiting)
  /\ waiting' = Tail(waiting)
  /\ left' \in Counts
  /\ UNCHANGED configured

Attempt ==
  /\ left > 0
  /\ left' = left - 1
  /\ UNCHANGED <<configured, waiting, current>>

End ==
  /\ current # NoPacket /\ left = 0
  /\ current' = NoPacket
  /\ UNCHANGED <<configured, waiting, left>>

Next ==
  \/ \E p \in Packets : Submit(p)
  \/ Configure \/ Discard \/ Begin \/ Attempt \/ End

\* Whatever the station has accepted it works off: the host may do nothing.
Fairness == WF_rvars(Discard \/ Begin \/ Attempt \/ End)

Spec == Init /\ [][Next]_rvars /\ Fairness

\* The safety part.
SafeSpec == Init /\ [][Next]_rvars

=============================================================================
