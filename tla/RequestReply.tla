---------------------------- MODULE RequestReply ----------------------------
(***************************************************************************)
(* What the control plane promises its clients, whatever threads, queues   *)
(* and reference counts it takes to keep the promise: a request is issued  *)
(* once, is settled once, and its outcome never changes afterwards.  A     *)
(* client that waits leaves with the outcome and not before; a client that *)
(* does not wait (its send failed, or it registered a callback) may leave  *)
(* at any time, and the request is settled all the same.                   *)
(***************************************************************************)
CONSTANTS Requests, Outcomes, NoOutcome

VARIABLES outcome, client

vars == <<outcome, client>>

Init ==
  /\ outcome = [r \in Requests |-> NoOutcome]
  /\ client = [r \in Requests |-> "none"]

Settled(r) == outcome[r] # NoOutcome

Issue(r) ==
  /\ client[r] = "none"
  /\ client' = [client EXCEPT ![r] = "sending"]
  /\ UNCHANGED outcome

Wait(r) ==
  /\ client[r] = "sending"
  /\ client' = [client EXCEPT ![r] = "waiting"]
  /\ UNCHANGED outcome

\* By whom -- a reply, a teardown, a cancellation -- is left open.
Settle(r) ==
  /\ client[r] # "none"
  /\ ~Settled(r)
  /\ \E o \in Outcomes : outcome' = [outcome EXCEPT ![r] = o]
  /\ UNCHANGED client

Collect(r) ==
  /\ client[r] = "waiting"
  /\ Settled(r)
  /\ client' = [client EXCEPT ![r] = "gone"]
  /\ UNCHANGED outcome

Leave(r) ==
  /\ client[r] = "sending"
  /\ client' = [client EXCEPT ![r] = "gone"]
  /\ UNCHANGED outcome

Next == \E r \in Requests :
          Issue(r) \/ Wait(r) \/ Settle(r) \/ Collect(r) \/ Leave(r)

Spec == Init /\ [][Next]_vars
=============================================================================
