------------------------------- MODULE Outbox -------------------------------
(***************************************************************************)
(* What a forwarder promises about the batches that are submitted to it,   *)
(* whatever the network does: it takes every batch, sends the oldest it    *)
(* has waiting, at most one request at a time, gets the whole request      *)
(* delivered or back, and drops only the oldest of those that wait.        *)
(* Batch b is the b-th batch submitted.                                    *)
(***************************************************************************)
EXTENDS Naturals

VARIABLES submitted,    \* number of batches
          waiting,      \* batches to be sent
          outbound,     \* batches in the request that is under way
          delivered,
          dropped

outboxVars == <<submitted, waiting, outbound, delivered, dropped>>

\* S holds the oldest batches of B, or all or none of them.
OldestOf(S, B) == S \subseteq B /\ \A s \in S, b \in B \ S : s < b

OutboxInit == /\ submitted = 0
              /\ waiting = {}
              /\ outbound = {}
              /\ delivered = {}
              /\ dropped = {}

\* The batches B wait, less some of the oldest, which are dropped.
Keep(B) == \E S \in SUBSET B : /\ OldestOf(S, B)
                               /\ waiting' = B \ S
                               /\ dropped' = dropped \cup S

Accept == /\ submitted' = submitted + 1
          /\ Keep(waiting \cup {submitted'})
          /\ UNCHANGED <<outbound, delivered>>

Dispatch == /\ outbound = {}
            /\ \E S \in SUBSET waiting : /\ S # {}
                                         /\ OldestOf(S, waiting)
                                         /\ outbound' = S
                                         /\ waiting' = waiting \ S
            /\ UNCHANGED <<submitted, delivered, dropped>>

Deliver == /\ outbound # {}
           /\ delivered' = delivered \cup outbound
           /\ outbound' = {}
           /\ UNCHANGED <<submitted, waiting, dropped>>

TakeBack == /\ outbound # {}
            /\ Keep(outbound \cup waiting)
            /\ outbound' = {}
            /\ UNCHANGED <<submitted, delivered>>

OutboxNext == Accept \/ Dispatch \/ Deliver \/ TakeBack

OutboxSpec == OutboxInit /\ [][OutboxNext]_outboxVars
=============================================================================
