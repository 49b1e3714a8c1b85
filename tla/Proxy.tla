------------------------------- MODULE Proxy -------------------------------
(***************************************************************************)
(* claude-code-openai-proxy/proxy.mjs: one call of the Messages API, made   *)
(* into a call of the chat completions API and answered by translating the *)
(* upstream's answer, streamed or in one piece.                             *)
(*                                                                         *)
(* Texts, arguments and names are left out.  A fragment of the upstream's   *)
(* stream is the number of the chunk it came in; a part of its answer is    *)
(* "text" or the index of a tool call.  The client is external: it begins a *)
(* block anew at content_block_start, as the protocol has it.               *)
(***************************************************************************)
EXTENDS Integers, Sequences, SequencesExt, FiniteSets

CONSTANTS
    CallIds,        \* ids of tool calls
    Conversations,  \* requests: sequences of messages
    ToolIndex,      \* the upstream's indices of tool calls
    MaxChunks       \* bound on the chunks of a stream

Text == "text"
Parts == {<<Text, 0>>} \cup {<<"tool", i>> : i \in ToolIndex}
Closed == -1

Messages == [role : {"system", "user", "assistant"},
             blocks : Seq([type : {"text", "image", "tool_use", "tool_result"}, id : CallIds])]

BlocksOf(m, type) == {k \in DOMAIN m.blocks : m.blocks[k].type = type}
IdsOf(m, type) == {m.blocks[k].id : k \in BlocksOf(m, type)}

\* Message k is the first behind message i that is not a system message.
Follows(c, i, k) == /\ i < k /\ c[k].role # "system"
                    /\ \A h \in (i + 1)..(k - 1) : c[h].role = "system"

\* The Messages API: behind a message that makes calls, a message of the user
\* has one result of every call.
WellFormed(c) ==
    /\ c \in Seq(Messages)
    /\ \A i, k \in DOMAIN c :
         /\ c[i].role = "assistant" /\ BlocksOf(c[i], "tool_use") # {}
         /\ Follows(c, i, k)
         => /\ c[k].role = "user"
            /\ IdsOf(c[k], "tool_result") = IdsOf(c[i], "tool_use")
            /\ \A x, y \in BlocksOf(c[k], "tool_result") :
                 c[k].blocks[x].id = c[k].blocks[y].id => x = y

VARIABLES
    asked,      \* the messages sent upstream
    reading,    \* toOpenAI's variables, and how far it has read the body
    phase,      \* "idle", "translate", "fetch", "stream", "whole", "done"
    next, open, text, tools,        \* streamTranslate's variables
    said,       \* history: the chunks of every part of the upstream's answer
    turns,      \* history: the parts in the order the upstream resumed them
    blocks      \* the client's blocks, in the order of their first start

stream == <<next, open, text, tools>>
vars == <<asked, reading, phase, stream, said, turns, blocks>>

\* The body and the next message and block of it; the calls and whether there
\* is a text or an image, of this message so far; whether the body has had a
\* system message.
Read(c) == [messages |-> c, m |-> 1, b |-> 1, calls |-> <<>>, content |-> FALSE, system |-> FALSE]

Init ==
    /\ asked = <<>> /\ reading = Read(<<>>) /\ phase = "idle"
    /\ next = 0 /\ open = Closed /\ text = Closed /\ tools = <<>>
    /\ said = [p \in Parts |-> <<>>] /\ turns = <<>>
    /\ blocks = <<>>

---------------------------------------------------------------------------
(* toOpenAI, a block at a time                                             *)

\* The handler reads a body that parses; one that does not is answered 400.
Request ==
    /\ phase = "idle"
    /\ \E c \in Conversations : reading' = Read(c)
    /\ phase' = "translate"
    /\ UNCHANGED <<asked, stream, said, turns, blocks>>

Message == reading.messages[reading.m]
BlockRead == Message.blocks[reading.b]
Sent(role, calls) == [role |-> role, calls |-> calls]

NextMessage(r) == [r EXCEPT !.m = @ + 1, !.b = 1, !.calls = <<>>, !.content = FALSE]

\* System messages, wherever they stand, are left out here.
SkipSystem ==
    /\ phase = "translate" /\ reading.m <= Len(reading.messages)
    /\ Message.role = "system"
    /\ reading' = [NextMessage(reading) EXCEPT !.system = TRUE]
    /\ UNCHANGED <<asked, phase, stream, said, turns, blocks>>

\* A block of an assistant's message: its calls are collected.
AssistantBlock ==
    /\ phase = "translate" /\ reading.m <= Len(reading.messages)
    /\ Message.role = "assistant" /\ reading.b <= Len(Message.blocks)
    /\ reading' = [reading EXCEPT !.b = @ + 1,
                     !.calls = IF BlockRead.type = "tool_use" THEN Append(@, BlockRead.id) ELSE @]
    /\ UNCHANGED <<asked, phase, stream, said, turns, blocks>>

\* A block of a user's message: a tool result is a message of its own, at once.
UserBlock ==
    /\ phase = "translate" /\ reading.m <= Len(reading.messages)
    /\ Message.role = "user" /\ reading.b <= Len(Message.blocks)
    /\ asked' = IF BlockRead.type = "tool_result"
                THEN Append(asked, Sent("tool", <<BlockRead.id>>)) ELSE asked
    /\ reading' = [reading EXCEPT !.b = @ + 1,
                     !.content = @ \/ BlockRead.type \in {"text", "image"}]
    /\ UNCHANGED <<phase, stream, said, turns, blocks>>

\* What was collected of a message follows its tool results.
MessageEnds ==
    /\ phase = "translate" /\ reading.m <= Len(reading.messages)
    /\ Message.role # "system" /\ reading.b > Len(Message.blocks)
    /\ asked' = IF Message.role = "assistant" THEN Append(asked, Sent("assistant", reading.calls))
                ELSE IF reading.content THEN Append(asked, Sent("user", <<>>)) ELSE asked
    /\ reading' = NextMessage(reading)
    /\ UNCHANGED <<phase, stream, said, turns, blocks>>

\* The system messages are merged into one in front.
BodyEnds ==
    /\ phase = "translate" /\ reading.m > Len(reading.messages)
    /\ asked' = (IF reading.system THEN <<Sent("system", <<>>)>> ELSE <<>>) \o asked
    /\ phase' = "fetch"
    /\ UNCHANGED <<reading, stream, said, turns, blocks>>

Translate == SkipSystem \/ AssistantBlock \/ UserBlock \/ MessageEnds \/ BodyEnds

\* fetch fails (502) or the upstream refuses (its status): one error answer.
UpstreamFails ==
    /\ phase = "fetch"
    /\ phase' = "done"
    /\ UNCHANGED <<asked, reading, stream, said, turns, blocks>>

UpstreamAnswers(streams) ==
    /\ phase = "fetch"
    /\ phase' = IF streams THEN "stream" ELSE "whole"
    /\ UNCHANGED <<asked, reading, stream, said, turns, blocks>>

---------------------------------------------------------------------------
(* fromOpenAI: the answer in one piece                                     *)

Block(part, index) == [part |-> part, index |-> index, got |-> <<>>, open |-> TRUE]

\* The text, if there is any, then the tool calls; an empty answer is an
\* empty text.
FromOpenAI(hasText, calls) ==
    /\ phase = "whole"
    /\ LET bs == (IF hasText \/ calls = <<>> THEN <<<<Text, 0>>>> ELSE <<>>)
                 \o [i \in DOMAIN calls |-> <<"tool", calls[i]>>]
           heard == ToSet(bs)
       IN /\ said' = [p \in Parts |-> IF p \in heard THEN <<1>> ELSE <<>>]
          /\ turns' = bs
          /\ blocks' = [i \in DOMAIN bs |->
                [part |-> bs[i], index |-> i - 1, got |-> <<1>>, open |-> FALSE]]
    /\ phase' = "done"
    /\ UNCHANGED <<asked, reading, stream>>

---------------------------------------------------------------------------
(* streamTranslate                                                         *)

Heard == Cardinality(UNION {ToSet(said[p]) : p \in Parts})

\* What the client holds after closeBlock and openBlock.
Shut(b) == [b EXCEPT !.open = FALSE]
Stopped(bs, o) == [i \in DOMAIN bs |-> IF bs[i].index = o THEN Shut(bs[i]) ELSE bs[i]]
Started(bs, part, index) ==
    IF \E i \in DOMAIN bs : bs[i].index = index
    THEN [i \in DOMAIN bs |-> IF bs[i].index = index THEN Block(part, index) ELSE bs[i]]
    ELSE Append(bs, Block(part, index))
Grown(b, n) == [b EXCEPT !.got = Append(@, n)]
\* A delta reaches a block that is open, or is lost.
Extended(bs, index, n) ==
    [i \in DOMAIN bs |-> IF bs[i].index = index /\ bs[i].open
                         THEN Grown(bs[i], n) ELSE bs[i]]

\* One delta: its block is opened unless it is the open one, then extended.
DeltaKeepsOpen(part, index, n) ==
    /\ blocks' = IF open = Closed
                 THEN Extended(Started(blocks, part, index), index, n)
                 ELSE Extended(blocks, index, n)
    /\ open' = IF open = Closed THEN index ELSE open

Delta(part, index, n) ==
    /\ blocks' = IF open = index
                 THEN Extended(blocks, index, n)
                 ELSE Extended(Started(Stopped(blocks, open), part, index), index, n)
    /\ open' = index

Says(part, n) ==
    /\ said' = [said EXCEPT ![part] = Append(@, n)]
    /\ turns' = IF turns # <<>> /\ Last(turns) = part THEN turns ELSE Append(turns, part)

TextDelta ==
    /\ phase = "stream" /\ Heard < MaxChunks
    /\ LET index == IF text = Closed THEN next ELSE text IN
       /\ text' = index
       /\ next' = IF text = Closed THEN next + 1 ELSE next
       /\ Delta(<<Text, 0>>, index, Heard + 1)
    /\ Says(<<Text, 0>>, Heard + 1)
    /\ UNCHANGED <<asked, reading, phase, tools>>

\* tools maps the upstream's index to the block's; it is a list here.
BlockOf(oi) == {t \in ToSet(tools) : t.oi = oi}

ToolDelta(oi) ==
    /\ phase = "stream" /\ Heard < MaxChunks
    /\ LET known == BlockOf(oi) # {}
           index == IF known THEN (CHOOSE t \in BlockOf(oi) : TRUE).ai ELSE next
       IN /\ tools' = IF known THEN tools ELSE Append(tools, [oi |-> oi, ai |-> next])
          /\ next' = IF known THEN next ELSE next + 1
          /\ Delta(<<"tool", oi>>, index, Heard + 1)
    /\ Says(<<"tool", oi>>, Heard + 1)
    /\ UNCHANGED <<asked, reading, phase, text>>

\* The stream ends or breaks off: the open block is closed, message_delta and
\* message_stop follow in either case.
StreamEnds ==
    /\ phase = "stream"
    /\ blocks' = Stopped(blocks, open)
    /\ open' = Closed
    /\ phase' = "done"
    /\ UNCHANGED <<asked, reading, next, text, tools, said, turns>>

Next ==
    \/ Request \/ Translate \/ UpstreamFails \/ TextDelta \/ StreamEnds
    \/ \E b \in BOOLEAN : UpstreamAnswers(b)
    \/ \E oi \in ToolIndex : ToolDelta(oi)
    \/ \E b \in BOOLEAN, calls \in BoundedSeq(ToolIndex, 2) :
         IsInjective(calls) /\ FromOpenAI(b, calls)

Spec == Init /\ [][Next]_vars

---------------------------------------------------------------------------
(* Properties                                                              *)

\* Whatever stands between a call and its results, a system message too, the
\* upstream gets the results right behind the message that makes the calls;
\* it refuses other conversations.
Answered(s, i) ==
    \A c \in ToSet(s[i].calls) :
        \E j \in 1..Len(s[i].calls) : i + j \in DOMAIN s /\ s[i + j] = Sent("tool", <<c>>)

ToolsAnswered ==
    phase # "translate" =>
        \A i \in DOMAIN asked : asked[i].role = "assistant" /\ i < Len(asked) => Answered(asked, i)

\* The client that puts the deltas together has every part of the answer,
\* complete and in order, and no open block, unless the upstream came back to
\* a part after it had begun another.
Reassembled ==
    phase = "done" /\ IsInjective(turns) =>
        blocks = [i \in DOMAIN turns |->
                    [part |-> turns[i], index |-> i - 1, got |-> said[turns[i]], open |-> FALSE]]

\* The proxy loses nothing of a conversation in either direction.
TranslatesWhole == ToolsAnswered /\ Reassembled
=============================================================================
