--------------------------- MODULE MessageFormat ---------------------------
(***************************************************************************)
(* What a provider is sent of a session's history: messages_to_provider_-  *)
(* format turns the history into messages with content blocks, as          *)
(* Anthropic's provider sends them, and OpenAIProvider converts these once *)
(* more.  Both services refuse a conversation in which the calls of a      *)
(* response are not followed by their results.                             *)
(*                                                                         *)
(* A call is told by its tool.  Every response is one of Anthropic's,      *)
(* which keeps the blocks it came in (provider_blocks), its calls among    *)
(* them.                                                                   *)
(***************************************************************************)
EXTENDS SessionHistory

UserMessage == [role |-> "user", text |-> TRUE, calls |-> <<>>, results |-> <<>>]
ResultsMessage(results) == [role |-> "user", text |-> FALSE, calls |-> <<>>, results |-> results]

\* mutant: the calls of the provider's own blocks are sent as well
CallBlocksTwice(m) == m.calls \o m.calls

\* _assistant_content: tool_use blocks of the provider give way to the calls
\* of the message
CallBlocks(m) == m.calls

\* The results from i on, up to the next message of another kind.
ResultsFrom(s, i) ==
    LET others == {j \in DOMAIN s : j > i /\ s[j].kind # "tool"}
        last == IF others = {} THEN Len(s) ELSE Min(others) - 1
    IN [k \in 1..(last - i + 1) |-> s[i + k - 1].call]

(* messages_to_provider_format: consecutive results are one message, which *)
(* stands where the first of them stood.                                   *)
ProviderMessage(s, i) ==
    CASE IsHuman(s[i]) -> <<UserMessage>>
      [] s[i].kind = "ai" ->
           <<[role |-> "assistant", text |-> s[i].text, calls |-> CallBlocks(s[i]), results |-> <<>>]>>
      [] s[i].kind = "tool" ->
           IF i > 1 /\ s[i - 1].kind = "tool" THEN <<>> ELSE <<ResultsMessage(ResultsFrom(s, i))>>
ToProvider(s) == FlattenSeq([i \in DOMAIN s |-> ProviderMessage(s, i)])

\* OpenAIProvider._convert_messages: a message for each result
Converted(p) ==
    IF p.results # <<>> THEN [k \in DOMAIN p.results |-> [role |-> "tool", call |-> p.results[k]]]
    ELSE IF p.role = "user" THEN <<[role |-> "user"]>>
    ELSE <<[role |-> "assistant", text |-> p.text, calls |-> p.calls]>>
ToOpenAI(ps) == FlattenSeq([i \in DOMAIN ps |-> Converted(ps[i])])
-----------------------------------------------------------------------------
(* What the two services accept. *)
AnthropicAccepts(ps) ==
    \A i \in DOMAIN ps :
        /\ ps[i].calls # <<>> => i < Len(ps) /\ ps[i + 1].results = ps[i].calls
        /\ ps[i].results # <<>> => i > 1 /\ ps[i - 1].calls = ps[i].results
        /\ ps[i].role = "assistant" => ps[i].text \/ ps[i].calls # <<>>

OpenAIAccepts(ms) ==
    /\ \A i \in DOMAIN ms : ms[i].role = "assistant" =>
          \A j \in DOMAIN ms[i].calls :
             i + j <= Len(ms) /\ ms[i + j].role = "tool" /\ ms[i + j].call = ms[i].calls[j]
    /\ \A k \in DOMAIN ms : ms[k].role = "tool" =>
          \E i \in 1..(k - 1) : ms[i].role = "assistant" /\ k - i \in DOMAIN ms[i].calls

(* messages_to_provider_format and _convert_messages on what Session makes *)
(* of its history, in memory, before the graph, about to be installed and  *)
(* on disk: whatever was compressed, merged, summarised, denied, cut off,  *)
(* resumed or installed late, the next request is one that both services   *)
(* accept, with every request and reminder in it, and every response that  *)
(* was kept; unless a turn was reduced at a position of another list.      *)
Accepted(s) ==
    LET ps == ToProvider(s)
        ms == ToOpenAI(ps)
    IN AnthropicAccepts(ps) /\ OpenAIAccepts(ms) /\ Len(ms) = Len(s)

ProviderAccepts == ~misplaced => \A s \in {messages, input, manual, disk} : Accepted(s)
=============================================================================
