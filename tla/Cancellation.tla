---------------------------- MODULE Cancellation ----------------------------
(***************************************************************************)
(* RegistryCancellation and CancelHandle: the registry of cancel sessions, *)
(* the slot of each session that says what a CancelRequest acts on now,   *)
(* and the cancels on their way to a target.                              *)
(*                                                                         *)
(* A session stands for its key: keys are random, fresh per session, and  *)
(* a key that is not registered finds nothing, which changes no state.    *)
(* cancel() copies the target out of the slot and only then awaits        *)
(* target.cancel(), so a cancel in flight keeps the target it captured    *)
(* however the slot changes in the meantime.  Its lookup of the slot and  *)
(* its read of the slot are two lock sections and one step here: dropping *)
(* the handle in between leaves the slot as it was, so what is captured   *)
(* then is what would have been captured just before the drop.            *)
(***************************************************************************)
EXTENDS Integers, FiniteSets

CONSTANTS
  Sessions,     \* client sessions
  Targets,      \* what a cancel can act on
  NoTarget,     \* an empty slot
  MaxCancels    \* bound: cancels in flight at once

VARIABLES
  registered,   \* the sessions whose key is in the registry
  slot,         \* the target each session's cancel would act on
  inflight      \* cancels that have captured a target and not yet reached it

CancelRequests == [session : Sessions, target : Targets]

CancelTypeOK ==
  /\ registered \subseteq Sessions
  /\ slot \in [Sessions -> Targets \cup {NoTarget}]
  /\ inflight \subseteq CancelRequests

CancelInit ==
  /\ registered = {}
  /\ slot = [s \in Sessions |-> NoTarget]
  /\ inflight = {}

\* begin(): a fresh key with an empty slot enters the registry.
BeginSession(s) ==
  /\ s \notin registered
  /\ registered' = registered \cup {s}
  /\ slot' = [slot EXCEPT ![s] = NoTarget]
  /\ UNCHANGED inflight

\* CancelHandle::set
SetTarget(s, t) ==
  /\ slot' = [slot EXCEPT ![s] = t]
  /\ UNCHANGED <<registered, inflight>>

\* CancelHandle::clear
ClearTarget(s) ==
  /\ slot' = [slot EXCEPT ![s] = NoTarget]
  /\ UNCHANGED <<registered, inflight>>

\* Drop for CancelHandle: the key leaves the registry.  Nobody can reach the
\* slot any more, so it counts as empty.
DropHandle(s) ==
  /\ registered' = registered \ {s}
  /\ slot' = [slot EXCEPT ![s] = NoTarget]
  /\ UNCHANGED inflight

\* cancel(): look the session up and capture its current target.
Cancel(s) ==
  /\ s \in registered
  /\ slot[s] # NoTarget
  /\ Cardinality(inflight) < MaxCancels
  /\ inflight' = inflight \cup {[session |-> s, target |-> slot[s]]}
  /\ UNCHANGED <<registered, slot>>

\* target.cancel() completes: the cancel reached its target or was lost.
CancelDone(k) ==
  /\ k \in inflight
  /\ inflight' = inflight \ {k}
  /\ UNCHANGED <<registered, slot>>
=============================================================================
