------------------------------- MODULE Webhooks -------------------------------
(***************************************************************************)
(* The webhooks of an event: a list in Redis that a registration or a      *)
(* deletion reads, changes and stores, without a lock; and the hook that   *)
(* posts an event to the webhooks it has read, one after the other.        *)
(***************************************************************************)
EXTENDS Lists, SequencesExt, FiniteSets

CONSTANTS Addresses,   \* the URLs of webhooks
          Editors,     \* requests and hooks under way at a time
          MaxEvents    \* bound: requests and events

ASSUME WebhooksAssumption == MaxEvents \in Nat

VARIABLES
    webhooks,  \* the stored list of URLs
    editor,    \* per editor: what it does, and the list it has read
    told,      \* per event: the posts, as a list of URLs
    events     \* requests and events so far

whVars == <<webhooks, editor, told, events>>

Out == [op |-> "none", url |-> "", list |-> <<>>, event |-> 0]
Edit(k, e) == editor' = [editor EXCEPT ![k] = e]
Comes(k, e) ==
    /\ editor[k] = Out /\ events < MaxEvents
    /\ events' = events + 1
    /\ Edit(k, e)

\* set_webhook: a URL that is there already is left as it is.
Register(k, url) ==
    /\ Comes(k, [op |-> "register", url |-> url, list |-> webhooks, event |-> 0])
    /\ UNCHANGED <<webhooks, told>>

\* Mutant of Registered: it is appended whatever the list holds.
RegisteredAgain(list, url) == Append(list, url)

Registered(list, url) == IF Contains(list, url) THEN list ELSE Append(list, url)

\* delete_webhook: the encrypted secret differs each time, the URL decides alone.
Unregister(k, url) ==
    /\ Comes(k, [op |-> "unregister", url |-> url, list |-> webhooks, event |-> 0])
    /\ UNCHANGED <<webhooks, told>>

StoreWebhooks(k) ==
    /\ editor[k].op \in {"register", "unregister"}
    /\ LET e == editor[k] IN
       webhooks' = IF e.op = "register" THEN Registered(e.list, e.url)
                   ELSE Only(e.list, Addresses \ {e.url})
    /\ Edit(k, Out)
    /\ UNCHANGED <<told, events>>

\* An event reads the list.
Trigger(k) ==
    /\ Comes(k, [op |-> "post", url |-> "", list |-> webhooks, event |-> events + 1])
    /\ UNCHANGED <<webhooks, told>>

\* A post that fails is logged; the next one follows.
Post(k) ==
    /\ editor[k].op = "post"
    /\ LET e == editor[k] IN
       IF e.list = <<>> THEN Edit(k, Out) /\ UNCHANGED told
       ELSE /\ \/ told' = [told EXCEPT ![e.event] = Append(@, Head(e.list))]
               \/ UNCHANGED told
            /\ Edit(k, [e EXCEPT !.list = Tail(@)])
    /\ UNCHANGED <<webhooks, events>>

EditorDies(k) ==
    /\ editor[k] # Out
    /\ Edit(k, Out)
    /\ UNCHANGED <<webhooks, told, events>>

-----------------------------------------------------------------------------
whInit ==
    /\ webhooks = <<>>
    /\ editor = [k \in Editors |-> Out]
    /\ told = [n \in 1..MaxEvents |-> <<>>]
    /\ events = 0

whNext ==
    \E k \in Editors :
      \/ \E url \in Addresses : Register(k, url) \/ Unregister(k, url)
      \/ StoreWebhooks(k) \/ Trigger(k) \/ Post(k) \/ EditorDies(k)

whSpec == whInit /\ [][whNext]_whVars

-----------------------------------------------------------------------------
(* Properties. *)

\* No URL is registered twice, and none is told of an event twice, whichever
\* registrations and deletions store a list over the other's.
OnceEach == IsInjective(webhooks) /\ \A n \in 1..MaxEvents : IsInjective(told[n])
=============================================================================
