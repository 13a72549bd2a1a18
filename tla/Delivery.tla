-------------------------------- MODULE Delivery --------------------------------
(***************************************************************************)
(* What a WebSocket gets of the turns of its conversation.  The callbacks  *)
(* of the language model sort what the model says into chat tokens and     *)
(* thinking, every frame is published in Redis, and the listener of each   *)
(* replica hands it to the socket its table of connections names for the   *)
(* conversation.  Turns come from the handlers of the sockets and from     *)
(* HTTP requests.  The language model and Redis are external: a call says  *)
(* tokens that open and close blocks of thinking one after the other, and  *)
(* Redis keeps what is published in order, for whoever listens.            *)
(***************************************************************************)
EXTENDS Naturals, Sequences, SequencesExt, Lists

CONSTANTS Http,        \* the HTTP request that takes turns
          Sockets,     \* clients with a WebSocket
          Pods,        \* replicas
          Talks,       \* conversations
          TokenShapes,      \* what one token may hold: words and tags
          Reported,       \* the other messages of a turn
          MaxConnects, \* bound: connections
          MaxSpeeches, \* bound: turns
          MaxAsked,    \* bound: calls of the model
          MaxTokens,   \* bound: tokens, and messages of tools
          MaxFalls      \* bound: handlers, listeners and replicas that end

ASSUME DeliveryAssumption ==
    Http \notin Sockets /\ "none" \notin Pods \union Talks /\ MaxSpeeches \in Nat

\* A token holds at most one block of thinking, or its beginning or end.  A word is
\* any text without a tag.
ASSUME TokenAssumption ==
    \A t \in TokenShapes : \E u, v, w \in {<<>>, <<"word">>} :
      t \in {<<"word">>, u \o <<"<think>">> \o v, u \o <<"</think>">> \o v,
            u \o <<"<think>">> \o v \o <<"</think>">> \o w}

VARIABLES
    socket,   \* per client: its connection
    table,    \* per replica and conversation: the number of the connection it names, 0 for none
    speech,   \* per speaker: its turn, the state of its callbacks, the frames not yet published
    wire,     \* per replica: the frames its listener has not read
    listens,  \* replicas whose listener runs
    owed,     \* history, per client and turn: what was said in its conversation since
              \* it connected and has not come to it; a frame of kind "wrong" for one
              \* that was not the next of its turn
    crossed,  \* history: clients that shared their place in a table
    passed    \* connections, turns, calls, tokens, cuts

dlVars == <<socket, table, speech, wire, listens, owed, crossed, passed>>

Speakers == Sockets \union {Http}
TurnIds == 1..MaxSpeeches

\* A piece of text is known by what it is and its place in the call.
Pieces == [is : {"word", "<think>", "</think>", "block", "reasoning", "report", "answer"}, at : Nat]
WordPieces == [is : {"word"}, at : Nat]
AnyFrame(turns, talks) ==
    [by : turns, talk : talks, text : Seq(Pieces),
     kind : {"chat_token", "llm_thinking", "chat", "error", "wrong"} \union Reported]

NoSocket == [at |-> "off", talk |-> "none", pod |-> "none", number |-> 0]
Silent == [at |-> "quiet", talk |-> "none", turn |-> 0, inside |-> FALSE, streamed |-> FALSE,
          said |-> <<>>, blocks |-> <<>>, due |-> <<>>]

Frame(x, kind, text) == [by |-> speech[x].turn, talk |-> speech[x].talk, kind |-> kind, text |-> text]
Frames(x, kind, text) == IF text = <<>> THEN <<>> ELSE <<Frame(x, kind, text)>>

\* What comes after said.
Numbered(said, text) == [i \in 1..Len(text) |-> [is |-> text[i], at |-> Len(said) + i]]
OnePiece(x, what) == Numbered(speech[x].said, <<what>>)

\* str.partition around the first tag.
Place(text, tag) == SelectInSeq(text, LAMBDA p : p.is = tag)
HasTag(text, tag) == Place(text, tag) > 0
Before(text, tag) == SubSeq(text, 1, Place(text, tag) - 1)
After(text, tag) == SubSeq(text, Place(text, tag) + 1, Len(text))

-----------------------------------------------------------------------------
(* What the model says. *)

\* The reference: what comes after an opening tag is thinking, until another tag.
Thought(said, i) ==
    \E t \in 1..(i - 1) : said[t].is = "<think>" /\ \A j \in (t + 1)..(i - 1) : said[j].is = "word"

\* Tags open and close in turn.
WellFormed(said) ==
    \A i \in 1..Len(said) : said[i].is # "word" => (said[i].is = "</think>") = Thought(said, i)

\* What a listener should hear of the words of a text that comes after said.
Heard(x, said, text) ==
    LET words == Only(text, WordPieces)
        kind(p) == IF Thought(said \o text, p.at) THEN "llm_thinking" ELSE "chat_token"
    IN  [j \in 1..Len(words) |-> Frame(x, kind(words[j]), <<words[j]>>)]

\* The clients that should get all that is said in their conversation.
Follows(s) ==
    socket[s].at = "open" /\ s \notin crossed /\ socket[s].pod \in listens

Tells(x, frames) ==
    owed' = [s \in Sockets |->
               IF Follows(s) /\ socket[s].talk = speech[x].talk
               THEN [owed[s] EXCEPT ![speech[x].turn] = @ \o frames] ELSE owed[s]]

NoneOwed == [turn \in TurnIds |-> <<>>]
Lets(clients) == owed' = [s \in Sockets |-> IF s \in clients THEN NoneOwed ELSE owed[s]]

-----------------------------------------------------------------------------
(* A turn and its callbacks. *)

Counts(what) == passed' = [passed EXCEPT ![what] = @ + 1]
Talking(x) == speech[x].at = "call" /\ speech[x].due = <<>>
Speaks(x, r) == speech' = [speech EXCEPT ![x] = r]
Outside == UNCHANGED <<socket, table, wire, listens, crossed>>

\* run_websocket, run_http.
StartSpeech(x, c) ==
    /\ speech[x] = Silent /\ passed.turns < MaxSpeeches
    /\ x # Http => socket[x].at = "open" /\ socket[x].talk = c
    /\ Speaks(x, [Silent EXCEPT !.at = "turn", !.talk = c, !.turn = passed.turns + 1])
    /\ Counts("turns")
    /\ Outside /\ UNCHANGED owed

\* on_chat_model_start
StartCall(x) ==
    /\ speech[x].at = "turn" /\ speech[x].due = <<>> /\ passed.asked < MaxAsked
    /\ Speaks(x, [speech[x] EXCEPT !.at = "call", !.inside = FALSE, !.streamed = FALSE,
                                 !.said = <<>>, !.blocks = <<>>])
    /\ Counts("asked")
    /\ Outside /\ UNCHANGED owed

\* _handle_think_tagged_token, and the regular token of on_llm_new_token.
SortedToken(x, text) ==
    LET opens == ~speech[x].inside /\ HasTag(text, "<think>")
        pre == IF opens THEN Before(text, "<think>") ELSE <<>>
        rest == IF opens THEN After(text, "<think>") ELSE text
    IN  IF ~opens /\ ~speech[x].inside
        THEN [speech[x] EXCEPT !.due = <<Frame(x, "chat_token", text)>>]
        ELSE LET closes == HasTag(rest, "</think>")
                 thinking == Frames(x, "llm_thinking", IF closes THEN Before(rest, "</think>") ELSE rest)
             IN  [speech[x] EXCEPT
                    !.inside = ~closes,
                    !.streamed = @ \/ thinking # <<>>,
                    !.due = Frames(x, "chat_token", pre) \o thinking
                            \o (IF closes THEN Frames(x, "chat_token", After(rest, "</think>")) ELSE <<>>)]

\* on_llm_new_token
Token(x, token) ==
    /\ Talking(x) /\ passed.tokens < MaxTokens
    /\ LET text == Numbered(speech[x].said, token)
           said == speech[x].said \o text
       IN  /\ WellFormed(said)
           /\ Speaks(x, [SortedToken(x, text) EXCEPT !.said = said])
           /\ Tells(x, Heard(x, speech[x].said, text))
    /\ Counts("tokens") /\ Outside

\* A chunk with a block of thinking; the response will hold it too.
Block(x) ==
    /\ Talking(x) /\ passed.tokens < MaxTokens
    /\ LET p == OnePiece(x, "block")
           f == <<Frame(x, "llm_thinking", p)>>
       IN  /\ Speaks(x, [speech[x] EXCEPT !.streamed = TRUE, !.said = @ \o p,
                                        !.blocks = @ \o f, !.due = f])
           /\ Tells(x, f)
    /\ Counts("tokens") /\ Outside

\* Mutant of Extracted: what was streamed is sent again.
ExtractedAgain(x, thinking) == thinking

Extracted(x, thinking) == IF speech[x].streamed THEN <<>> ELSE thinking

\* on_llm_end: a call that streamed no thinking may have some in its response.
EndCall(x) ==
    /\ Talking(x)
    /\ \E reasons \in {FALSE} \union {speech[x].said = <<>>} :
         LET fresh == IF reasons THEN <<Frame(x, "llm_thinking", OnePiece(x, "reasoning"))>> ELSE <<>>
         IN  /\ Speaks(x, [speech[x] EXCEPT !.at = "turn",
                                          !.due = Extracted(x, speech[x].blocks \o fresh)])
             /\ Tells(x, fresh)
    /\ Outside /\ UNCHANGED passed

\* on_tool_start, on_tool_end, on_tool_error, on_chain_error, on_agent_action,
\* on_retriever_end.
Reports(x, kind) ==
    /\ speech[x].at = "turn" /\ speech[x].due = <<>> /\ passed.tokens < MaxTokens
    /\ LET f == <<Frame(x, kind, OnePiece(x, "report"))>>
       IN  Speaks(x, [speech[x] EXCEPT !.due = f]) /\ Tells(x, f)
    /\ Counts("tokens") /\ Outside

Published(f) == wire' = [p \in Pods |-> IF p \in listens THEN Append(wire[p], f) ELSE wire[p]]

\* _send_ws_message: one frame after the other.
Publish(x) ==
    /\ speech[x].due # <<>>
    /\ Published(Head(speech[x].due))
    /\ Speaks(x, [speech[x] EXCEPT !.due = Tail(@)])
    /\ UNCHANGED <<socket, table, listens, owed, crossed, passed>>

\* The final answer, or the error that ended a call; an HTTP request has it in its
\* response.
Answer(x) ==
    /\ speech[x].at \in {"turn", "call"} /\ speech[x].due = <<>>
    /\ LET f == Frame(x, IF speech[x].at = "turn" THEN "chat" ELSE "error", OnePiece(x, "answer"))
       IN  IF x = Http THEN UNCHANGED <<wire, owed>> ELSE Published(f) /\ Tells(x, <<f>>)
    /\ Speaks(x, Silent)
    /\ UNCHANGED <<socket, table, listens, crossed, passed>>

-----------------------------------------------------------------------------
(* Connections. *)

Owner(n) == {s \in Sockets : socket[s].number = n /\ socket[s].at = "open"}

\* The frames a turn has yet to publish.
Due(turn, c) ==
    LET who == {x \in Speakers : speech[x].turn = turn /\ speech[x].talk = c}
    IN  IF who = {} THEN <<>> ELSE speech[CHOOSE x \in who : TRUE].due

\* What is on its way to a client of a replica, per turn.
Coming(p, c) == [turn \in TurnIds |-> Only(wire[p], AnyFrame({turn}, {c})) \o Due(turn, c)]

\* The socket takes the place of its conversation in the replica's table.
OpenSocket(s, c, p) ==
    /\ socket[s] = NoSocket /\ passed.connects < MaxConnects
    /\ socket' = [socket EXCEPT ![s] = [at |-> "open", talk |-> c, pod |-> p,
                                        number |-> passed.connects + 1]]
    /\ table' = [table EXCEPT ![p][c] = passed.connects + 1]
    /\ LET others == {o \in Sockets \ {s} : socket[o].talk = c /\ socket[o].pod = p}
       IN  /\ crossed' = IF others = {} THEN crossed \ {s} ELSE crossed \union others \union {s}
           /\ owed' = [o \in Sockets |->
                 IF o = s /\ others = {} /\ p \in listens
                 THEN Coming(p, c) ELSE IF o \in others THEN NoneOwed ELSE owed[o]]
    /\ Counts("connects")
    /\ UNCHANGED <<speech, wire, listens>>

\* A client expects the frames of a turn one after the other.
Expected(s, f) ==
    LET mine == owed[s][f.by]
    IN  [owed[s] EXCEPT ![f.by] = IF mine # <<>> /\ Head(mine) = f THEN Tail(mine)
                                  ELSE Append(mine, [f EXCEPT !.kind = "wrong"])]

\* _deliver_to_local
Deliver(p) ==
    /\ p \in listens /\ wire[p] # <<>>
    /\ LET f == Head(wire[p])
       IN  owed' = [s \in Sockets |->
                      IF s \in Owner(table[p][f.talk]) /\ Follows(s) THEN Expected(s, f) ELSE owed[s]]
    /\ wire' = [wire EXCEPT ![p] = Tail(@)]
    /\ UNCHANGED <<socket, table, speech, listens, crossed, passed>>

\* The client is gone; the handler sees it when it waits for the next message ...
Leave(s) ==
    /\ socket[s].at = "open"
    /\ socket' = [socket EXCEPT ![s].at = "gone"]
    /\ Lets({s}) /\ crossed' = crossed \ {s}
    /\ UNCHANGED <<table, speech, wire, listens, passed>>

\* ... and removes whatever its conversation is registered with.
HandlerEnds(s) ==
    /\ socket[s].at = "gone" /\ speech[s] = Silent
    /\ table' = [table EXCEPT ![socket[s].pod][socket[s].talk] = 0]
    /\ socket' = [socket EXCEPT ![s] = NoSocket]
    /\ UNCHANGED <<speech, wire, listens, owed, crossed, passed>>

\* The handler ends while the client is there: close_connection is called and
\* never awaited, the registration stays.
HandlerFails(s) ==
    /\ socket[s].at = "open" /\ speech[s] = Silent /\ passed.cuts < MaxFalls
    /\ socket' = [socket EXCEPT ![s] = NoSocket]
    /\ Lets({s}) /\ crossed' = crossed \ {s}
    /\ Counts("cuts")
    /\ UNCHANGED <<table, speech, wire, listens>>

PodEnds(p) ==
    /\ p \in listens /\ passed.cuts < MaxFalls
    /\ listens' = listens \ {p}
    /\ wire' = [wire EXCEPT ![p] = <<>>]
    /\ Lets({s \in Sockets : socket[s].pod = p})
    /\ Counts("cuts")

\* Any error of the connection to Redis ends the listener for good.
ListenerEnds(p) ==
    /\ PodEnds(p)
    /\ UNCHANGED <<socket, table, speech, crossed>>

\* close_connections: the listener ends and the sockets of the replica are closed.
CloseAll(p) ==
    /\ PodEnds(p)
    /\ socket' = [s \in Sockets |-> IF socket[s].pod = p THEN [socket[s] EXCEPT !.at = "gone"]
                                    ELSE socket[s]]
    /\ table' = [table EXCEPT ![p] = [c \in Talks |-> 0]]
    /\ UNCHANGED <<speech, crossed>>

-----------------------------------------------------------------------------
dlInit ==
    /\ socket = [s \in Sockets |-> NoSocket]
    /\ table = [p \in Pods |-> [c \in Talks |-> 0]]
    /\ speech = [x \in Speakers |-> Silent]
    /\ wire = [p \in Pods |-> <<>>]
    /\ listens = Pods
    /\ owed = [s \in Sockets |-> NoneOwed]
    /\ crossed = {}
    /\ passed = [connects |-> 0, turns |-> 0, asked |-> 0, tokens |-> 0, cuts |-> 0]

dlNext ==
    \/ \E x \in Speakers :
         \/ \E c \in Talks : StartSpeech(x, c)
         \/ StartCall(x) \/ Block(x) \/ EndCall(x) \/ Publish(x) \/ Answer(x)
         \/ \E t \in TokenShapes : Token(x, t)
         \/ \E kind \in Reported : Reports(x, kind)
    \/ \E s \in Sockets :
         \/ \E c \in Talks, p \in Pods : OpenSocket(s, c, p)
         \/ Leave(s) \/ HandlerEnds(s) \/ HandlerFails(s)
    \/ \E p \in Pods : Deliver(p) \/ ListenerEnds(p) \/ CloseAll(p)

dlSpec == dlInit /\ [][dlNext]_dlVars

-----------------------------------------------------------------------------
(* Properties. *)

\* Whatever a turn says while a client is connected comes to it, or is on its way,
\* once, in the order in which the model said it and as what it is, a word of the
\* answer or a thought; over any changes of connections and any turns and replicas at
\* a time, as long as the replica listens and no two connections on one replica were
\* for the same conversation.
Streamed ==
    \A s \in Sockets : Follows(s) => owed[s] = Coming(socket[s].pod, socket[s].talk)
=============================================================================
