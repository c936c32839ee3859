----------------------------- MODULE Conversation -----------------------------
(***************************************************************************)
(* A chat with the assistant, from the provider's stream to the panel:      *)
(* the adapters' stream(), AIService.chat_stream, the event stream of       *)
(* POST /ai/chat, the renderer's streamChat and the chat view.  Each piece  *)
(* of text is a token; what the connection carries is a sequence of lines,  *)
(* which the client reads in portions of any size.  What the view appends to *)
(* a text is kept as the list of its pieces, empty ones included.            *)
(***************************************************************************)
EXTENDS Naturals, Sequences, SequencesExt, Lists

CONSTANTS
    ChatReplies,    \* what a provider may say: sequences of pieces of text
    MaxAsked    \* bound: questions of a behaviour

\* Any text; the literals are those of the protocol.
Texts == STRING \cup {"", "message", "error", "what happened", "[DONE]"}

ASSUME ConvAssumption == ChatReplies \subseteq Seq(Texts)

Providers == {"anthropic", "openai"}   \* gemini and ollama stream as openai does
Empty == ""                            \* a piece without text

VARIABLES
    messages,   \* the chat view: [role, content], content a sequence of pieces
    streaming,  \* the chat view awaits streamChat
    error,      \* the chat view shows an error
    buffer,     \* lines that streamChat has read and not yet handled
    wire,       \* lines on their way to the client
    closed,     \* the response: "open", "ended", "broken"
    pieces,     \* what the provider has still to say
    outcome,    \* how the provider's stream ends: "ends", "raises"
    said        \* what the provider has said in this answer, for the properties

convVars == <<messages, streaming, error, buffer, wire, closed, pieces, outcome, said>>

-----------------------------------------------------------------------------
(* Frames of the event stream                                              *)

SseLine(field, json, text) == [field |-> field, json |-> json, text |-> text]
SseLines == [field : {"", "event", "data"}, json : BOOLEAN, text : Texts]
Blank == SseLine("", FALSE, Empty)

\* The text is written as JSON: whatever it holds, it is one line and no
\* other line of the protocol.
DataFrame(text) == <<SseLine("data", TRUE, text), Blank>>
ErrorFrame == <<SseLine("event", FALSE, "error"), SseLine("data", TRUE, "what happened"), Blank>>
DoneFrame == <<SseLine("data", FALSE, "[DONE]"), Blank>>

\* The adapters yield the pieces that have text; Anthropic's yields them all.
stream(provider, reply) ==
    IF provider = "anthropic" THEN reply ELSE Keep(reply, Texts \ {Empty})

-----------------------------------------------------------------------------
(* The engine                                                              *)

\* event_stream passes on one piece.
PassOn ==
    /\ closed = "open" /\ pieces # <<>>
    /\ wire' = wire \o DataFrame(Head(pieces))
    /\ pieces' = Tail(pieces)
    /\ said' = Append(said, Head(pieces))
    /\ UNCHANGED <<messages, streaming, error, buffer, closed, outcome>>

\* The provider's stream is over, or raises ProviderError (as it does before
\* the first piece when there is no key): the response ends with [DONE].
Finish ==
    /\ closed = "open" /\ pieces = <<>>
    /\ wire' = wire \o (IF outcome = "raises" THEN ErrorFrame ELSE <<>>) \o DoneFrame
    /\ closed' = "ended"
    /\ UNCHANGED <<messages, streaming, error, buffer, pieces, outcome, said>>

\* The engine dies, or an exception of another kind leaves event_stream: the
\* rest of the response, and some of what is on its way, is lost.
Break ==
    /\ closed = "open"
    /\ closed' = "broken"
    /\ \E n \in 0 .. Len(wire) : wire' = SubSeq(wire, 1, n)
    /\ UNCHANGED <<messages, streaming, error, buffer, pieces, outcome, said>>

-----------------------------------------------------------------------------
(* The renderer                                                            *)

Speak(role, content) == [role |-> role, content |-> content]

\* ChatView.send: the question and an empty answer that the pieces go into.
Send(provider, reply, ends) ==
    /\ ~streaming
    /\ messages' = messages \o <<Speak("user", <<>>), Speak("assistant", <<>>)>>
    /\ streaming' = TRUE /\ error' = FALSE
    /\ buffer' = <<>> /\ wire' = <<>> /\ closed' = "open"
    /\ pieces' = stream(provider, reply) /\ outcome' = ends /\ said' = <<>>

\* What the lines read so far have come to: "at" is where streamChat is (it goes
\* on, has returned, or has thrown), then the frame it is in and what it has told.
Parsers == [at : {"going on", "returned", "thrown"}, event : Texts, data : Seq(SseLines), content : Seq(Texts)]

InFrame(event, data, content) == [at |-> "going on", event |-> event, data |-> data, content |-> content]
AfterFrame(at, content) == [at |-> at, event |-> "message", data |-> <<>>, content |-> content]
NoLineYet == AfterFrame("going on", <<>>)

\* One line of a complete frame; JSON.parse of what is no JSON throws too.
HandleLine(state, line) ==
    IF state.at # "going on" THEN state
    ELSE IF line.field = "event" THEN InFrame(line.text, state.data, state.content)
    ELSE IF line.field = "data" THEN InFrame(state.event, <<line>>, state.content)
    ELSE LET data == Head(state.data)
         IN  IF state.data = <<>> THEN AfterFrame("going on", state.content)
             ELSE IF ~data.json /\ data.text = "[DONE]" THEN AfterFrame("returned", state.content)
             ELSE IF ~data.json \/ state.event = "error" THEN AfterFrame("thrown", state.content)
             ELSE AfterFrame("going on", Append(state.content, data.text))

HandleLines == [pair \in Parsers \X SseLines |-> HandleLine(pair[1], pair[2])]

LastBlank(lines) == CHOOSE n \in 0 .. Len(lines) :
                        /\ n > 0 => lines[n] = Blank
                        /\ \A i \in n + 1 .. Len(lines) : lines[i] # Blank

\* What comes after the last blank line is kept for the next portion.
\* Mutant: it is dropped.
Kept_Dropped(lines) == <<>>

Kept(lines) == SubSeq(lines, LastBlank(lines) + 1, Len(lines))

Invisible(content) == \A i \in DOMAIN content : content[i] = Empty

\* ChatView.onDelta: the pieces of the last message, the answer, are content.
AnswerSays(content) == [messages EXCEPT ![Len(messages)].content = content]

\* streamChat is over: a failure removes the answer if it still shows nothing.
Settle(content, thrown) ==
    /\ streaming' = FALSE
    /\ error' = thrown
    /\ messages' = IF thrown /\ Invisible(content) THEN Front(messages)
                   ELSE AnswerSays(content)

\* reader.read(): a portion arrives, and every complete frame is handled.
ReadPortion ==
    /\ streaming /\ wire # <<>>
    /\ \E n \in 1 .. Len(wire) :
        LET lines == buffer \o SubSeq(wire, 1, n)
            handled == Folded(HandleLines, NoLineYet, SubSeq(lines, 1, LastBlank(lines)))
            content == Last(messages).content \o handled.content
        IN  /\ wire' = SubSeq(wire, n + 1, Len(wire))
            /\ buffer' = Kept(lines)
            /\ IF handled.at = "going on"
               THEN /\ messages' = AnswerSays(content)
                    /\ UNCHANGED <<streaming, error>>
               ELSE Settle(content, handled.at = "thrown")
    /\ UNCHANGED <<closed, pieces, outcome, said>>

\* Nothing more comes: a response that ended makes streamChat return, one that
\* broke makes reader.read() reject.
ReadEnd ==
    /\ streaming /\ wire = <<>> /\ closed # "open"
    /\ Settle(Last(messages).content, closed = "broken")
    /\ UNCHANGED <<buffer, wire, closed, pieces, outcome, said>>

-----------------------------------------------------------------------------
(* Specification                                                           *)

ConvInit ==
    /\ messages = <<>> /\ streaming = FALSE /\ error = FALSE
    /\ buffer = <<>> /\ wire = <<>> /\ closed = "ended"
    /\ pieces = <<>> /\ outcome = "ends" /\ said = <<>>

Asked == Len(SelectSeq(messages, LAMBDA m : m.role = "user"))

ConvNext ==
    \/ /\ Asked < MaxAsked
       /\ \E provider \in Providers, reply \in ChatReplies, ends \in {"ends", "raises"} : Send(provider, reply, ends)
    \/ PassOn \/ Finish \/ Break
    \/ ReadPortion \/ ReadEnd

ConvSpec == ConvInit /\ [][ConvNext]_convVars

-----------------------------------------------------------------------------
(* Properties                                                              *)

Shown == IF messages # <<>> /\ Last(messages).role = "assistant" THEN Last(messages).content ELSE <<>>

\* The answer on the screen is what the provider has said so far, never more,
\* never out of order; it counts as complete exactly when the provider has
\* said everything, and every failure is told, however the bytes are cut up
\* and whatever the text holds, "[DONE]" and blank lines included.
AnswerFaithful ==
    /\ IsPrefix(Shown, said)
    /\ ~streaming /\ ~error /\ messages # <<>> =>
          /\ closed = "ended" /\ outcome = "ends" /\ pieces = <<>>
          /\ Shown = said
    /\ ~streaming /\ error => closed = "broken" \/ outcome = "raises"

\* A question that failed leaves no empty answer behind.
NoEmptyFailure == error => messages = <<>> \/ Last(messages).role = "user" \/ ~Invisible(Last(messages).content)

\* The chat shows what was said, and what went wrong.
ChatSound ==
    /\ AnswerFaithful
    /\ NoEmptyFailure
=============================================================================
