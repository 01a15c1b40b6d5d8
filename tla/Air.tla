-------------------------------- MODULE Air --------------------------------
(***************************************************************************)
(* N stations running fmac.c on one radio channel, in discrete time: the   *)
(* purpose of the protocol.  A packet is sent as N framelets, spaced by a  *)
(* multiple of delta that is different for every station, followed by the  *)
(* pause t'.  No station listens before it sends; the spacing alone has to *)
(* make sure that of every packet one framelet meets no other framelet.    *)
(*                                                                         *)
(* Module Fmac has the sending side step by step; here a station is its    *)
(* state and repetition counter and each of its steps takes no time.  A    *)
(* framelet may be on air during the AirTime that follows the start of the *)
(* timer: flush switches the radio to transmit mode, then it sends.        *)
(* Assumed: flush succeeds, and a handler runs at most Jitter late.        *)
(***************************************************************************)
EXTENDS Integers

CONSTANTS
  N,          \* number of stations, which is also n, the framelets per packet
  K,          \* K[i]: station i's entry of the optimalK table
  PacketTime, \* time a framelet takes on air (frameletLen * 8 * usPerBit)
  SwitchTime, \* RXTX_SWITCHING_US
  Jitter      \* largest delay of a timer interrupt, clock drift included

Stations == 0 .. N - 1
Framelets == 1 .. N

\* optimalK (with optimalKOff): the tables there are, for two and three
\* stations.
optimalK(count) ==
  CASE count = 2 -> [i \in 0 .. 1 |-> IF i = 0 THEN 2 ELSE 3]
    [] count = 3 -> [i \in 0 .. 2 |-> CASE i = 0 -> 2 [] i = 1 -> 3 [] i = 2 -> 5]

AirTime == PacketTime + SwitchTime

\* A station receives nothing from the moment it leaves receive mode until it is
\* back in it (flush, txempty).
DeafTime == PacketTime + 2 * SwitchTime

\* Seeded fault: the mode switches are forgotten.
deltaNoSwitch == PacketTime * 2

\* fmacInit: "delta includes packet time and rx->tx/tx->rx switch".
delta == (PacketTime + 2 * SwitchTime) * 2

\* t_i, the pause between two framelets of station i
Wait(i) == delta * K[i]

kmax == CHOOSE k \in {K[i] : i \in Stations} : \A i \in Stations : K[i] <= k

\* Seeded fault: the pause after a packet is one delta short.
WaitEndShort == kmax * (N - 1) * delta

\* t', the pause after the last framelet
WaitEnd == (kmax * (N - 1) + 1) * delta

ASSUME CountAssumption == N \in Nat \ {0}

ASSUME TimeAssumption ==
  /\ PacketTime \in Nat \ {0} /\ SwitchTime \in Nat /\ Jitter \in Nat
  /\ (N - 1) * Jitter <= SwitchTime

\* What the table has to satisfy: up to N - 1 waits of one station never take
\* as long as up to N - 1 waits of another.
ASSUME TableAssumption ==
  /\ K \in [Stations -> Nat \ {0}]
  /\ \A i, j \in Stations : i # j =>
       \A d, e \in 1 .. N - 1 : d * K[i] # e * K[j]

VARIABLES
  state, \* fmacCtx.state of every station
  rep,   \* framelets of the current packet started so far (repetition)
  age,   \* age[i][m]: time since framelet m of i's packet was started
  hit    \* hit[i][m]: stations that did not listen to it, because they were
         \* sending, or that disturbed it for the others

vars == <<state, rep, age, hit>>

Init ==
  /\ state = [i \in Stations |-> "IDLE"]
  /\ rep = [i \in Stations |-> 0]
  /\ age = [i \in Stations |-> [m \in Framelets |-> 0]]
  /\ hit = [i \in Stations |-> [m \in Framelets |-> {}]]

\* The age of station i's last framelet, which is what its timer shows.
Last(i) == age[i][rep[i]]

\* Stations other than i that do not receive now ...
Deaf(i) == {j \in Stations \ {i} : rep[j] > 0 /\ Last(j) < DeafTime}

\* ... and those that may be on air.
Busy(i) == {j \in Stations \ {i} : rep[j] > 0 /\ Last(j) < AirTime}

\* Seeded fault: the end of the sequence is not recognised.
TransmitEndless(i, m) ==
  /\ rep' = [rep EXCEPT ![i] = m]
  /\ state' = [state EXCEPT ![i] = "SEND"]
  /\ age' = [age EXCEPT ![i][m] = 0]
  /\ UNCHANGED hit

\* Framelet m of station i starts: dispatch in state FMAC_SEND.
Transmit(i, m) ==
  /\ rep' = [rep EXCEPT ![i] = m]
  /\ state' = [state EXCEPT ![i] = IF m = N THEN "WAIT_END" ELSE "SEND"]
  /\ age' = [age EXCEPT ![i][m] = 0]
  /\ hit' = [j \in Stations |->
               CASE j = i        -> [hit[i] EXCEPT ![m] = Deaf(i)]
                 [] j \in Busy(i) -> [hit[j] EXCEPT ![rep[j]] = @ \cup {i}]
                 [] OTHER        -> hit[j]]

\* fmacSend: allowed in state FMAC_IDLE only, at whatever time the host likes.
Send(i) ==
  /\ state[i] = "IDLE"
  /\ Transmit(i, 1)

\* The timer after t_i: the next framelet.
Again(i) ==
  /\ state[i] = "SEND"
  /\ Last(i) >= Wait(i)
  /\ Transmit(i, rep[i] + 1)

\* The timer after t': back to FMAC_IDLE.
Finish(i) ==
  /\ state[i] = "WAIT_END"
  /\ Last(i) >= WaitEnd
  /\ state' = [state EXCEPT ![i] = "IDLE"]
  /\ rep' = [rep EXCEPT ![i] = 0]
  /\ age' = [age EXCEPT ![i] = [m \in Framelets |-> 0]]
  /\ hit' = [hit EXCEPT ![i] = [m \in Framelets |-> {}]]

\* Time passes, but no timer interrupt is more than Jitter late.
Tick ==
  /\ \A i \in Stations :
       /\ state[i] = "SEND" => Last(i) < Wait(i) + Jitter
       /\ state[i] = "WAIT_END" => Last(i) < WaitEnd + Jitter
  /\ age' = [i \in Stations |-> [m \in Framelets |->
               IF m <= rep[i] THEN age[i][m] + 1 ELSE 0]]
  /\ UNCHANGED <<state, rep, hit>>

Next ==
  \/ \E i \in Stations : Send(i) \/ Again(i) \/ Finish(i)
  \/ Tick

Spec == Init /\ [][Next]_vars

-----------------------------------------------------------------------------
(* Properties *)

TypeOK ==
  /\ state \in [Stations -> {"IDLE", "SEND", "WAIT_END"}]
  /\ rep \in [Stations -> 0 .. N]
  /\ age \in [Stations -> [Framelets -> Nat]]
  /\ hit \in [Stations -> [Framelets -> SUBSET Stations]]
  /\ \A i \in Stations : /\ rep[i] = 0 <=> state[i] = "IDLE"
                         /\ rep[i] = N <=> state[i] = "WAIT_END"

\* No station disturbs two framelets of the same packet, neither with two
\* framelets of one packet nor with framelets of two.
NoDoubleHit ==
  \A i \in Stations : \A m1, m2 \in Framelets :
    m1 # m2 => hit[i][m1] \cap hit[i][m2] = {}

\* The promise of f-MAC: of every packet at least one framelet overlaps no
\* framelet of any other station.
OneFrameletGetsThrough ==
  \A i \in Stations : state[i] = "WAIT_END" => \E m \in Framelets : hit[i][m] = {}

\* The framelets of station i that have left the air and met nothing.
Received(i) == {m \in 1 .. rep[i] : age[i][m] >= AirTime /\ hit[i][m] = {}}

Channel == INSTANCE Broadcast WITH
  sending <- [i \in Stations |-> state[i] # "IDLE"],
  reached <- [i \in Stations |-> Received(i) # {}]

\* The stations are a reliable broadcast: no station is ready for its next packet
\* before the one it has sent has been received by all others, and nothing that has
\* been received can be disturbed afterwards.
ImplementsBroadcast == Channel!Spec

=============================================================================
