----------------------------- MODULE MarchHare -----------------------------
(***************************************************************************)
(* The MarchHare core plugin: a Redis stream of plugin events and, in each *)
(* pod, a listener that reads it and spawns a handler task per event.      *)
(*                                                                         *)
(* The listener polls with XREAD, which blocks for 100 ms.  Its cursor is  *)
(* "$" (here None) until the first event arrived: each poll then starts at *)
(* the end that the stream has when Redis gets the command.                *)
(*                                                                         *)
(* XREAD returns up to ten events at once; they are dispatched one by one, *)
(* so a read of one event at a time has the same effect.  The trimming of  *)
(* the stream to its last 1000 events is left out.                         *)
(***************************************************************************)
EXTENDS Naturals, Sequences

CONSTANTS Pods, Plugins, None

ASSUME NoneIsNoPosition == None \notin Nat

VARIABLES
  stream,      \* the Redis stream
  listening,   \* listening[p]: the listener task runs
  ready,       \* ready[p]: _ready_event is set
  cursor,      \* cursor[p]: last_id, None for "$"
  reading,     \* reading[p]: the position after which the pending XREAD looks, or None
  handlers,    \* handlers[p]: the events whose handler task has not run yet
  got          \* history: the events for which pod p has spawned a handler, in this order

hareVars == <<stream, listening, ready, cursor, reading, handlers, got>>

Events == [kind : {"installation", "uninstallation"}, plugin : Plugins, pod : Pods]

HareTypeOK ==
  /\ stream \in Seq(Events)
  /\ listening \in [Pods -> BOOLEAN] /\ ready \in [Pods -> BOOLEAN]
  /\ cursor \in [Pods -> 0..Len(stream) \cup {None}]
  /\ reading \in [Pods -> 0..Len(stream) \cup {None}]
  /\ handlers \in [Pods -> SUBSET DOMAIN stream] /\ got \in [Pods -> Seq(DOMAIN stream)]

HareInit ==
  /\ stream = <<>>
  /\ listening = [p \in Pods |-> FALSE] /\ ready = [p \in Pods |-> FALSE]
  /\ cursor = [p \in Pods |-> None] /\ reading = [p \in Pods |-> None]
  /\ handlers = [p \in Pods |-> {}] /\ got = [p \in Pods |-> <<>>]

\* notify_event
Publish(p, kind, x) ==
  /\ stream' = Append(stream, [kind |-> kind, plugin |-> x, pod |-> p])
  /\ UNCHANGED <<listening, ready, cursor, reading, handlers, got>>

\* start_consumer
Listen(p) ==
  /\ ~listening[p] /\ listening' = [listening EXCEPT ![p] = TRUE]
  /\ UNCHANGED <<stream, ready, cursor, reading, handlers, got>>

\* mark_ready
MarkReady(p) ==
  /\ listening[p] /\ ~ready[p]
  /\ ready' = [ready EXCEPT ![p] = TRUE]
  /\ UNCHANGED <<stream, listening, cursor, reading, handlers, got>>

\* Mutants of From: a new listener reads the stream from its start; every read
\* starts at the end of the stream.
FromStart(p) == IF cursor[p] = None THEN 0 ELSE cursor[p]
FromEnd(p) == Len(stream)

From(p) == IF cursor[p] = None THEN Len(stream) ELSE cursor[p]

\* _listener_loop: the next XREAD ...
Poll(p) ==
  /\ listening[p] /\ reading[p] = None
  /\ reading' = [reading EXCEPT ![p] = From(p)]
  /\ UNCHANGED <<stream, listening, ready, cursor, handlers, got>>

\* ... returns nothing ...
PollAgain(p) ==
  /\ reading[p] = Len(stream)
  /\ reading' = [reading EXCEPT ![p] = None]
  /\ UNCHANGED <<stream, listening, ready, cursor, handlers, got>>

Pending(p) == reading[p] # None /\ reading[p] < Len(stream)

\* ... or returns an event: a handler is spawned if the pod is ready, and the
\* cursor moves in any case.
Receive(p) ==
  /\ Pending(p)
  /\ LET i == reading[p] + 1
     IN /\ IF ready[p]
           THEN /\ handlers' = [handlers EXCEPT ![p] = @ \cup {i}]
                /\ got' = [got EXCEPT ![p] = Append(@, i)]
           ELSE UNCHANGED <<handlers, got>>
        /\ cursor' = [cursor EXCEPT ![p] = i]
        /\ reading' = [reading EXCEPT ![p] = None]
  /\ UNCHANGED <<stream, listening, ready>>

\* The handler task of event i starts to run.
Handle(p, i) ==
  /\ i \in handlers[p] /\ handlers' = [handlers EXCEPT ![p] = @ \ {i}]
  /\ UNCHANGED <<stream, listening, ready, cursor, reading, got>>

\* stop, or the end of the process: listener and handlers are gone.
Halt(p) ==
  /\ listening' = [listening EXCEPT ![p] = FALSE]
  /\ ready' = [ready EXCEPT ![p] = FALSE]
  /\ cursor' = [cursor EXCEPT ![p] = None]
  /\ reading' = [reading EXCEPT ![p] = None]
  /\ handlers' = [handlers EXCEPT ![p] = {}]
  /\ UNCHANGED <<stream, got>>

HareNext ==
  \E p \in Pods :
    \/ Listen(p) \/ MarkReady(p) \/ Poll(p) \/ PollAgain(p) \/ Receive(p) \/ Halt(p)
    \/ \E i \in handlers[p] : Handle(p, i)
    \/ \E kind \in {"installation", "uninstallation"}, x \in Plugins : Publish(p, kind, x)

HareSpec == HareInit /\ [][HareNext]_hareVars

-----------------------------------------------------------------------------

\* MarchHare implements EventLog: whatever polls, restarts and readiness do, the
\* handlers of a pod start in stream order and for no event twice
\* (_listener_loop advances last_id with every message it dispatches).
Log == INSTANCE EventLog WITH log <- stream, taken <- got

HandlersInOrder == Log!Spec

=============================================================================
