------------------------------- MODULE Broadcast -------------------------------
(***************************************************************************)
(* What f-MAC promises the users of a shared channel: a packet that has    *)
(* been accepted reaches every other station before its sender is ready    *)
(* for the next one.  Nothing is said of when, or of how often the packet  *)
(* is sent; the senders do not wait for each other.                        *)
(***************************************************************************)
CONSTANT Stations

VARIABLES sending, \* has station i a packet under way
          reached  \* has it been received by all others

bvars == <<sending, reached>>

Init ==
  /\ sending = [i \in Stations |-> FALSE]
  /\ reached = [i \in Stations |-> FALSE]

Start(i) ==
  /\ ~ sending[i]
  /\ sending' = [sending EXCEPT ![i] = TRUE]
  /\ UNCHANGED reached

\* The packets of some stations reach everyone, maybe at the same time.
Reach(senders) ==
  /\ \A i \in senders : sending[i] /\ ~ reached[i]
  /\ reached' = [i \in Stations |-> reached[i] \/ i \in senders]
  /\ UNCHANGED sending

End(i) ==
  /\ sending[i] /\ reached[i]
  /\ sending' = [sending EXCEPT ![i] = FALSE]
  /\ reached' = [reached EXCEPT ![i] = FALSE]

Next ==
  \/ \E i \in Stations : Start(i) \/ End(i)
  \/ \E senders \in SUBSET Stations : Reach(senders)

Spec == Init /\ [][Next]_bvars

=============================================================================
