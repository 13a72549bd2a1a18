----------------------------- MODULE ChatSessions -----------------------------
(***************************************************************************)
(* Conversations in Redis and the sessions that talk in them: requests of  *)
(* one turn, WebSocket handlers with turn after turn, and requests that    *)
(* change the attributes of a conversation.  Sessions of all replicas      *)
(* interleave at every call to Redis and at the language model.  A         *)
(* conversation may be deleted, or expire, under any of them.              *)
(***************************************************************************)
EXTENDS Naturals, Sequences, SequencesExt

CONSTANTS Nowhere,
          Rooms,        \* conversations
          Sessions,
          MaxOpens,     \* bound: sessions opened
          MaxTurns,     \* bound: messages of users
          MaxVanish     \* bound: conversations deleted or expired, sessions that die

ASSUME ChatAssumption == Nowhere \notin Sessions

VARIABLES
    convs,     \* per conversation: what is stored
    session,   \* per session: where it is and its working memory
    calm,      \* history: conversations of one turn at a time, none of them cut short
    tally      \* opened, turns, vanished

csVars == <<convs, session, calm, tally>>

Absent == [there |-> FALSE, msgs |-> <<>>, given |-> FALSE, tags |-> {}]
Off == [kind |-> "none", at |-> "off", room |-> Nowhere, local |-> <<>>, turn |-> 0, tags |-> {}]
Kinds == {"http", "socket", "edit"}

IsAt(s, at) == session[s].at = at
Room(s) == session[s].room
Conv(s) == convs[Room(s)]
Turns(s, r) == session' = [session EXCEPT ![s] = r]
Moves(s, at) == Turns(s, [session[s] EXCEPT !.at = at])
InTurn(s) == session[s].at \notin {"off", "ready"} /\ session[s].kind # "edit"
Says(who, s) == [who |-> who, turn |-> session[s].turn]

\* What follows a turn: a request ends, a socket waits for the next message.
Rests(s, local) ==
    Turns(s, IF session[s].kind = "socket"
             THEN [session[s] EXCEPT !.at = "ready", !.local = local] ELSE Off)

-----------------------------------------------------------------------------
(* Sessions. *)

\* StrayCat.from_cat reads the history.
Connect(s, c, kind) ==
    /\ session[s] = Off /\ tally.opens < MaxOpens
    /\ tally' = [tally EXCEPT !.opens = @ + 1]
    /\ Turns(s, [Off EXCEPT !.kind = kind, !.room = c, !.local = convs[c].msgs,
                            !.at = IF kind = "edit" THEN "read" ELSE "ready"])
    /\ UNCHANGED <<convs, calm>>

\* The handler of a socket ends; its place in the table of connections is
\* modelled in Delivery.
HangUp(s) ==
    /\ session[s].kind = "socket" /\ IsAt(s, "ready")
    /\ Turns(s, Off)
    /\ UNCHANGED <<convs, calm, tally>>

\* The replica of a session ends.
SessionDies(s) ==
    /\ session[s] # Off /\ tally.vanished < MaxVanish
    /\ tally' = [tally EXCEPT !.vanished = @ + 1]
    /\ calm' = IF InTurn(s) THEN calm \ {Room(s)} ELSE calm
    /\ Turns(s, Off)
    /\ UNCHANGED convs

\* delete_conversation, or the expiration of the key.
Vanish(c) ==
    /\ convs[c].there /\ tally.vanished < MaxVanish
    /\ tally' = [tally EXCEPT !.vanished = @ + 1]
    /\ convs' = [convs EXCEPT ![c] = Absent]
    /\ calm' = calm \ {c}
    /\ UNCHANGED session

-----------------------------------------------------------------------------
(* A turn. *)

\* A turn that fast_reply answers changes nothing here and is left out.
StartTurn(s) ==
    /\ IsAt(s, "ready") /\ tally.turns < MaxTurns
    /\ tally' = [tally EXCEPT !.turns = @ + 1]
    /\ Turns(s, [session[s] EXCEPT !.at = "init user", !.turn = tally.turns + 1])
    /\ calm' = IF \E t \in Sessions : InTurn(t) /\ Room(t) = Room(s)
               THEN calm \ {Room(s)} ELSE calm
    /\ UNCHANGED convs

\* update_messages: SET NX, ARRAPPEND, and the list read again.
Ensure(s) ==
    /\ session[s].at \in {"init user", "init assistant"}
    /\ convs' = IF Conv(s).there THEN convs
                ELSE [convs EXCEPT ![Room(s)] = [Absent EXCEPT !.there = TRUE]]
    /\ Moves(s, IF IsAt(s, "init user") THEN "append user" ELSE "append assistant")
    /\ UNCHANGED <<calm, tally>>

\* Mutant of Appended: the history of the session and the message.
AppendedToLocal(s, m) == Append(session[s].local, m)

Appended(s, m) == Append(Conv(s).msgs, m)

\* A conversation that is gone again makes the append fail; the hook's error is
\* caught, and the turn goes on with the history as it was.
AppendMessage(s) ==
    /\ session[s].at \in {"append user", "append assistant"}
    /\ LET user == IsAt(s, "append user") IN
       IF Conv(s).there
       THEN /\ convs' = [convs EXCEPT ![Room(s)].msgs =
                           Appended(s, Says(IF user THEN "user" ELSE "assistant", s))]
            /\ Moves(s, IF user THEN "reread" ELSE "last")
       ELSE /\ IF user THEN Moves(s, "think") ELSE Rests(s, session[s].local)
            /\ UNCHANGED convs
    /\ UNCHANGED <<calm, tally>>

\* The first message of a conversation sets its attributes.
Reread(s) ==
    /\ IsAt(s, "reread")
    /\ Turns(s, [session[s] EXCEPT !.local = Conv(s).msgs,
                   !.at = IF Len(Conv(s).msgs) = 1 THEN "read" ELSE "think"])
    /\ UNCHANGED <<convs, calm, tally>>

RereadLast(s) ==
    /\ IsAt(s, "last")
    /\ Rests(s, Conv(s).msgs)
    /\ UNCHANGED <<convs, calm, tally>>

\* The agent answers or fails, or agent_fast_reply ends the turn without the
\* hooks that store an answer.
Think(s) ==
    /\ IsAt(s, "think")
    /\ \/ Moves(s, "init assistant") /\ UNCHANGED calm
       \/ Moves(s, "failed") /\ UNCHANGED calm
       \/ Rests(s, session[s].local) /\ calm' = calm \ {Room(s)}
    /\ UNCHANGED <<convs, tally>>

\* Mutant of Fail: the message of a turn that failed stays.
FailKeeps(s) ==
    /\ IsAt(s, "failed")
    /\ Rests(s, session[s].local)
    /\ UNCHANGED <<convs, calm, tally>>

\* pop_last_message_if_human looks at the history of the session.
Fail(s) ==
    /\ IsAt(s, "failed")
    /\ LET h == session[s].local IN
       IF h # <<>> /\ Last(h).who = "user"
       THEN Turns(s, [session[s] EXCEPT !.local = Front(h),
                        !.at = IF Conv(s).there THEN "pop" ELSE "renew"])
       ELSE Rests(s, h)
    /\ UNCHANGED <<convs, calm, tally>>

\* set_messages, after its read: the whole history of the session is stored, over
\* the messages or, when the read found nothing, as a new conversation.
StorePopped(s) ==
    /\ session[s].at \in {"pop", "renew"}
    /\ convs' = CASE IsAt(s, "renew") ->
                       [convs EXCEPT ![Room(s)] =
                          [Absent EXCEPT !.there = TRUE, !.msgs = session[s].local]]
                  [] IsAt(s, "pop") /\ Conv(s).there ->
                       [convs EXCEPT ![Room(s)].msgs = session[s].local]
                  [] OTHER -> convs
    /\ Rests(s, session[s].local)
    /\ UNCHANGED <<calm, tally>>

-----------------------------------------------------------------------------
(* set_attributes: of a first turn, or of a request that edits.  It reads,  *)
(* stores the name, and stores the tags it read with its own.              *)

AfterAttributes(s) == IF session[s].kind = "edit" THEN Turns(s, Off) ELSE Moves(s, "think")

ReadAttributes(s) ==
    /\ IsAt(s, "read")
    /\ IF Conv(s).there
       THEN Turns(s, [session[s] EXCEPT !.at = "name", !.tags =
                        Conv(s).tags \union IF session[s].kind = "edit" THEN {s} ELSE {}])
       ELSE AfterAttributes(s)
    /\ UNCHANGED <<convs, calm, tally>>

StoreName(s) ==
    /\ IsAt(s, "name")
    /\ IF Conv(s).there
       THEN /\ convs' = [convs EXCEPT ![Room(s)].given = (session[s].kind = "edit")]
            /\ Moves(s, "tags")
       ELSE AfterAttributes(s) /\ UNCHANGED convs
    /\ UNCHANGED <<calm, tally>>

StoreTags(s) ==
    /\ IsAt(s, "tags")
    /\ convs' = IF Conv(s).there THEN [convs EXCEPT ![Room(s)].tags = session[s].tags] ELSE convs
    /\ IF session[s].kind = "edit" THEN Turns(s, Off)
       ELSE Turns(s, [session[s] EXCEPT !.at = "think", !.tags = {}])
    /\ UNCHANGED <<calm, tally>>

-----------------------------------------------------------------------------
csInit ==
    /\ convs = [c \in Rooms |-> Absent]
    /\ session = [s \in Sessions |-> Off]
    /\ calm = Rooms
    /\ tally = [opens |-> 0, turns |-> 0, vanished |-> 0]

csStep(s) ==
    \/ \E c \in Rooms, kind \in Kinds : Connect(s, c, kind)
    \/ HangUp(s) \/ SessionDies(s) \/ StartTurn(s)
    \/ Ensure(s) \/ AppendMessage(s) \/ Reread(s) \/ RereadLast(s) \/ Think(s)
    \/ Fail(s) \/ StorePopped(s)
    \/ ReadAttributes(s) \/ StoreName(s) \/ StoreTags(s)

csNext ==
    \/ \E s \in Sessions : csStep(s)
    \/ \E c \in Rooms : Vanish(c)

csSpec == csInit /\ [][csNext]_csVars

-----------------------------------------------------------------------------
(* Properties. *)

\* The messages of a conversation that stays are only added to, by however many
\* sessions at once, unless a turn that failed stores what is left of its history.
AppendsKept ==
    [][\A c \in Rooms :
         convs[c].there /\ convs'[c].there =>
           \/ IsPrefix(convs[c].msgs, convs'[c].msgs)
           \/ \E s \in Sessions : Room(s) = c /\ session[s].at \in {"pop", "renew"} /\
                session'[s] # session[s]]_csVars

\* Where turns did not overlap and none was cut short, users and assistants
\* alternate between turns: one answer per question, no question without one.
Alternates ==
    \A c \in calm : (\A s \in Sessions : Room(s) = c => ~InTurn(s)) =>
      LET h == convs[c].msgs IN
      /\ Len(h) % 2 = 0
      /\ \A i \in 1..Len(h) : h[i].who = (IF i % 2 = 1 THEN "user" ELSE "assistant")
      /\ \A i \in 1..Len(h) : i % 2 = 1 => h[i].turn = h[i + 1].turn
=============================================================================
