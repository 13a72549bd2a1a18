------------------------------ MODULE EventLog ------------------------------
(***************************************************************************)
(* What MarchHare promises of the events of a stream: a pod starts the     *)
(* handlers of the events it takes in the order of the stream, and of no   *)
(* event twice.  It does not promise that a pod takes every event.         *)
(***************************************************************************)
EXTENDS Naturals, Sequences

CONSTANTS Pods, Events

VARIABLES
  log,     \* all events, in the order they were published
  taken    \* taken[p]: the positions of log that pod p has taken, one after the other

Init == log = <<>> /\ taken = [p \in Pods |-> <<>>]

Publish == \E e \in Events : log' = Append(log, e) /\ UNCHANGED taken

Take(p) ==
  \E i \in DOMAIN log :
    /\ \A k \in DOMAIN taken[p] : taken[p][k] < i
    /\ taken' = [taken EXCEPT ![p] = Append(@, i)]
    /\ UNCHANGED log

Next == Publish \/ \E p \in Pods : Take(p)

Spec == Init /\ [][Next]_<<log, taken>>

=============================================================================
