----------------------------- MODULE LlmMessages -----------------------------
(***************************************************************************)
(* What the LLM providers (internal/llm) keep of a conversation with tools:  *)
(* how each translates the answer of its API into the program's response,    *)
(* and the program's messages into what its API is sent.                    *)
(*                                                                         *)
(* A block of content is a text, a call of a tool, or the result of a call.  *)
(* Texts, arguments and results have no content here; a call has an id, a    *)
(* tuple, and the name of the tool.                                         *)
(***************************************************************************)
EXTENDS Selection, SequencesExt

NoId == <<>>
Text == [type |-> "text", id |-> NoId, name |-> ""]
Use(id, name) == [type |-> "tool_use", id |-> id, name |-> name]
Result(call) == [type |-> "tool_result", id |-> call.id, name |-> call.name]

IsUse(block) == block.type = "tool_use"
IsResult(block) == block.type = "tool_result"
Uses(content) == Select(content, {b \in ToSet(content) : IsUse(b)})
Results(content) == Select(content, {b \in ToSet(content) : IsResult(b)})

Message(role, content) == [role |-> role, content |-> content]

-----------------------------------------------------------------------------
(***************************************************************************)
(* From an answer of the API, which has parts and a finish reason: "stop",   *)
(* "tools", or "length" when it was cut off.                                *)
(***************************************************************************)

\* Claude: the blocks as they are; the API's reason decides.
FromAnthropic(r) ==
    [stop |-> IF r.finish = "tools" THEN "tool_use" ELSE "end_turn",
     content |-> r.parts]

\* Gemini: any call means tool use, whatever the reason. A call without an id gets the
\* name of the tool for one, so that two calls may share it.
FromGemini(r) ==
    [stop |-> IF Uses(r.parts) # <<>> THEN "tool_use" ELSE "end_turn",
     content |-> [i \in DOMAIN r.parts |->
                     IF IsUse(r.parts[i]) /\ r.parts[i].id = NoId
                       THEN Use(<<r.parts[i].name>>, r.parts[i].name)
                       ELSE r.parts[i]]]

\* OpenAI and OpenRouter: either the calls without the text, or one text without calls.
FromOpenAI(r) ==
    IF r.finish = "tools"
      THEN [stop |-> "tool_use", content |-> Uses(r.parts)]
      ELSE [stop |-> "end_turn", content |-> <<Text>>]

FromApi(provider, r) ==
    CASE provider = "claude" -> FromAnthropic(r)
      [] provider = "gemini" -> FromGemini(r)
      [] provider = "openai" -> FromOpenAI(r)

-----------------------------------------------------------------------------
(***************************************************************************)
(* To the API                                                               *)
(***************************************************************************)

\* Claude: one message each, with the same blocks.
ToAnthropic(messages) == messages

\* Gemini: the same, under its own name for the assistant.
ToGemini(messages) ==
    [i \in DOMAIN messages |->
        [messages[i] EXCEPT !.role = IF @ = "assistant" THEN "model" ELSE "user"]]

\* OpenAI: a message of the user becomes one message for each text and each result;
\* of a message of the assistant only the calls matter
\* here, for the answers of these APIs with calls are kept without their text.
ToOpenAI(messages) ==
    FlattenSeq([i \in DOMAIN messages |->
        LET content == messages[i].content
        IN  IF messages[i].role = "assistant"
              THEN <<Message("assistant", Uses(content))>>
              ELSE [k \in DOMAIN content |->
                      Message(IF IsResult(content[k]) THEN "tool" ELSE "user", <<content[k]>>)]])

ToApi(provider, messages) ==
    CASE provider = "claude" -> ToAnthropic(messages)
      [] provider = "gemini" -> ToGemini(messages)
      [] provider = "openai" -> ToOpenAI(messages)

-----------------------------------------------------------------------------
(***************************************************************************)
(* What the APIs accept                                                     *)
(***************************************************************************)

\* What tells the blocks of a content apart: the field "id" or "name".
Labels(content, field) == [i \in DOMAIN content |-> content[i][field]]

\* Claude and Gemini: users and models take turns, and the message after a call has the
\* results of all calls, in order, and no other.  Claude knows them by their ids, Gemini,
\* to which the code sends none, by the names of the tools.
TurnsAnswered(wire, model, label) ==
    /\ wire # <<>> /\ wire[Len(wire)].role = "user"
    /\ \A i \in DOMAIN wire : wire[i].role = IF i % 2 = 1 THEN "user" ELSE model
    /\ \A i \in 1..(Len(wire) - 1) :
          Labels(Uses(wire[i].content), label) = Labels(Results(wire[i + 1].content), label)

\* OpenAI: each message with calls is followed by one tool message for each, in order,
\* and there are no other tool messages.
CallsAnswered(wire) ==
    LET callers == {i \in DOMAIN wire : wire[i].role = "assistant"}
    IN  /\ \A i \in callers : \A k \in DOMAIN wire[i].content :
              /\ i + k \in DOMAIN wire
              /\ wire[i + k].role = "tool"
              /\ wire[i + k].content[1].id = wire[i].content[k].id
        /\ \A n \in DOMAIN wire :
              wire[n].role = "tool" => \E i \in callers : n - i \in DOMAIN wire[i].content

Accepted(provider, wire) ==
    CASE provider = "claude" -> TurnsAnswered(wire, "assistant", "id")
      [] provider = "gemini" -> TurnsAnswered(wire, "model", "name")
      [] provider = "openai" -> CallsAnswered(wire)
=============================================================================
