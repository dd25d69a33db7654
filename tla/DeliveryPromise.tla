--------------------------- MODULE DeliveryPromise ---------------------------
(***************************************************************************)
(* What the outbox promises about the chat, without leases, runs, crashes  *)
(* or states: the chunks of a delivery appear in order, each at most once  *)
(* plus once per retry an operator has authorised, and never again once    *)
(* acknowledged.                                                           *)
(***************************************************************************)
EXTENDS Naturals

CONSTANTS
  Delivery,
  Chunk,
  Careful       \* whoever acknowledges or pardons a chunk has looked into the chat

VARIABLES
  posted,       \* copies of a chunk in the chat
  acked,        \* the chunk is acknowledged
  pardons       \* retries authorised by the operator

promiseVars == <<posted, acked, pardons>>

Init ==
  /\ posted = [d \in Delivery |-> [k \in Chunk |-> 0]]
  /\ acked = [d \in Delivery |-> [k \in Chunk |-> FALSE]]
  /\ pardons = [d \in Delivery |-> [k \in Chunk |-> 0]]

\* k is the chunk whose turn it is
Turn(d, k) == ~acked[d][k] /\ \A j \in Chunk : j < k => acked[d][j]

Post(d, k) ==
  /\ Turn(d, k)
  /\ posted[d][k] <= pardons[d][k]
  /\ Careful => posted[d][k] = 0
  /\ posted' = [posted EXCEPT ![d][k] = @ + 1]
  /\ UNCHANGED <<acked, pardons>>

Acknowledge(d, k) ==
  /\ Turn(d, k)
  /\ Careful => posted[d][k] > 0
  /\ acked' = [acked EXCEPT ![d][k] = TRUE]
  /\ UNCHANGED <<posted, pardons>>

Pardon(d, k) ==
  /\ Turn(d, k)
  /\ Careful => posted[d][k] = 0
  /\ pardons' = [pardons EXCEPT ![d][k] = @ + 1]
  /\ UNCHANGED <<posted, acked>>

Next == \E d \in Delivery, k \in Chunk : Post(d, k) \/ Acknowledge(d, k) \/ Pardon(d, k)

Spec == Init /\ [][Next]_promiseVars
=============================================================================
