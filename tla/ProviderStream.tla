--------------------------- MODULE ProviderStream ---------------------------
(***************************************************************************)
(* One response of a model, as OpenAIProvider.chat and                     *)
(* AnthropicProvider.chat take it in: text in pieces, tool calls in parts, *)
(* and tool calls that a model writes into its text between two markers.   *)
(* The text goes to the user while it arrives (TextToolCallStreamFilter);  *)
(* the calls are assembled for the graph.  A response may be cut anywhere, *)
(* by the token limit that both providers set.                             *)
(*                                                                         *)
(* Text is a sequence of symbols.  The two markers share a beginning, as   *)
(* in the code; "j" is a JSON object that names a tool, "t" anything else. *)
(***************************************************************************)
EXTENDS Naturals, SequencesExt, FiniteSetsExt

CONSTANTS
    Contents,  \* texts that a model may write: sequences of symbols
    ServerIds, \* ids that a server may give its calls; <<"call", k>> is the
               \* one that the provider gives the k-th call if it has none
    MaxCalls   \* bound: tool calls of a response, besides those in its text

ASSUME ContentsAssumption ==
    /\ Contents \subseteq Seq({"<", "f", "b", "e", "j", "t"})
    /\ \A id \in ServerIds : id # <<>> /\ id[1] # "text-tool"
    /\ MaxCalls \in Nat

VARIABLES
    mode,    \* "openai"; "message" or "stream" of the Anthropic provider
    watched, \* there is a stream_callback
    made,    \* number of calls that the model makes
    given,   \* call -> the id that the server gives it, <<>> for none
    left,    \* text that is still to come
    text,    \* current_text
    buffer,  \* TextToolCallStreamFilter.buffer
    shown,   \* text given to stream_callback
    parts,   \* call -> parts of it that came, of two
    data,    \* tool_calls_data: the call whose id it took (0 for none), and
             \* the pieces of the arguments
    current, \* current_tool_use, a sequence of none or one
    ended    \* chat has returned

streamVars == <<mode, watched, made, given, left, text, buffer, shown, parts, data, current, ended>>

Begin == <<"<", "f", "b">>  \* FUNCTION_CALL_BEGIN
End == <<"<", "f", "e">>    \* FUNCTION_CALL_END

\* Where marker stands in s.
From(s, i) == SubSeq(s, i, Len(s))
Occurrences(s, marker) == {i \in DOMAIN s : IsPrefix(marker, From(s, i))}

StreamInit ==
    /\ mode \in {"openai", "message"} /\ watched \in BOOLEAN
    /\ made \in 0..MaxCalls
    /\ given \in [1..made -> IF mode = "openai" THEN ServerIds \cup {<<>>} ELSE ServerIds]
    /\ \A i, k \in 1..made : i # k /\ given[i] = given[k] => given[i] = <<>>
    /\ left \in Contents /\ text = <<>> /\ buffer = <<>> /\ shown = <<>>
    /\ parts = [i \in 1..made |-> 0] /\ data = <<>> /\ current = <<>>
    /\ ended = FALSE
-----------------------------------------------------------------------------
\* mutant: only a whole marker is held back
PartialNone(s) == 0

\* _partial_begin_suffix_len
Partial(s) ==
    Max({0} \cup {n \in 1..(Len(Begin) - 1) : n <= Len(s) /\ From(s, Len(s) - n + 1) = SubSeq(Begin, 1, n)})

\* The last n symbols.
Tip(s, n) == From(s, Len(s) - n + 1)

(* What TextToolCallStreamFilter.feed does with its buffer in a round: what *)
(* may be shown of it and what stays in it, and whether that is to be      *)
(* looked at again, after a block.                                         *)
Round(s) ==
    LET begins == Occurrences(s, Begin)
        begin == Min(begins)
        ends == {e \in Occurrences(s, End) : e >= begin}
        Cut(n, next, again) == [out |-> SubSeq(s, 1, n), rest |-> From(s, next), again |-> again]
    IN CASE begins = {} -> Cut(Len(s) - Partial(s), Len(s) - Partial(s) + 1, FALSE)
         [] begins # {} /\ ends = {} -> Cut(begin - 1, begin, FALSE)
         [] OTHER -> Cut(begin - 1, Min(ends) + Len(End), TRUE)

\* TextToolCallStreamFilter.feed: what it does with the last n symbols of s.
Feed(s) ==
    LET fed[n \in 0..Len(s)] ==
          LET round == Round(Tip(s, n))
              next == fed[Len(round.rest)]
          IN IF round.again THEN [out |-> round.out \o next.out, buffer |-> next.buffer]
             ELSE [out |-> round.out, buffer |-> round.rest]
    IN fed[Len(s)]

\* TextToolCallStreamFilter.flush
Flushed == IF IsPrefix(Begin, buffer) THEN <<>> ELSE buffer

(* The blocks of _TEXT_TOOL_CALL_RE: the first begin marker after a block, *)
(* up to the first end marker after it; those in the last n symbols of s.  *)
Blocks(s) ==
    LET blocks[n \in 0..Len(s)] ==
          LET pairs == {p \in Occurrences(s, Begin) \X Occurrences(s, End) :
                           Len(s) - n < p[1] /\ p[1] + Len(Begin) <= p[2]}
              begin == Min({p[1] : p \in pairs})
              end == Min({p[2] : p \in {q \in pairs : q[1] = begin}})
          IN IF pairs = {} THEN <<>>
             ELSE <<[begin |-> begin, end |-> end]>> \o blocks[Len(s) - end - Len(End) + 1]
    IN blocks[Len(s)]

(* _load_call_items: a block holds calls if there is nothing but calls in  *)
(* it.  An id tells the block and the place in it.                         *)
CallsOf(s, block, n) ==
    LET payload == SubSeq(s, block.begin + Len(Begin), block.end - 1) IN
    IF ToSet(payload) \subseteq {"j"}
    THEN [k \in DOMAIN payload |-> [id |-> <<"text-tool", n, k>>, args |-> "whole"]]
    ELSE <<>>

\* parse_text_tool_calls
TextCalls(s) == LET blocks == Blocks(s) IN FlattenSeq([n \in DOMAIN blocks |-> CallsOf(s, blocks[n], n)])
InBlock(blocks, i) == \E n \in DOMAIN blocks : blocks[n].begin <= i /\ i <= blocks[n].end + Len(End) - 1
Cleaned(s) ==
    LET blocks == Blocks(s) IN FlattenSeq([i \in DOMAIN s |-> IF InBlock(blocks, i) THEN <<>> ELSE <<s[i]>>])
-----------------------------------------------------------------------------
\* A piece of the text: a delta, or a text block of a whole message.
Text(n) ==
    LET fed == Feed(buffer \o SubSeq(left, 1, n)) IN
    /\ ~ended /\ current = <<>> /\ n \in 1..Len(left)
    /\ text' = text \o SubSeq(left, 1, n) /\ left' = From(left, n + 1)
    /\ IF watched
       THEN shown' = shown \o fed.out /\ buffer' = fed.buffer
       ELSE UNCHANGED <<shown, buffer>>
    /\ UNCHANGED <<mode, watched, made, given, parts, data, current, ended>>

\* mutant: parts go to the newest call
EntryNewest(d, i) == Max({1, Len(d)})

\* The entry of the call that the server numbers i.
Entry(d, i) == i

\* A part of a call in a stream of chunks; the first one has the id, if any.  The
\* server numbers its calls, and entries are added up to the number.
Delta(i) ==
    LET unknown == [id |-> 0, args |-> <<>>]
        padded == data \o [k \in 1..(IF i > Len(data) THEN i - Len(data) ELSE 0) |-> unknown]
        k == Entry(padded, i)
    IN
    /\ ~ended /\ mode = "openai" /\ watched /\ parts[i] < 2
    /\ parts' = [parts EXCEPT ![i] = @ + 1]
    /\ data' = [padded EXCEPT ![k].id = IF parts[i] = 0 THEN i ELSE @,
                              ![k].args = Append(@, <<i, parts[i] + 1>>)]
    /\ UNCHANGED <<mode, watched, made, given, left, text, buffer, shown, current, ended>>

\* A call of a whole message, in the order of its blocks; the arguments of
\* the OpenAI message are text that may be cut.
Block(i) ==
    /\ ~ended /\ (mode = "message" \/ (mode = "openai" /\ ~watched))
    /\ parts[i] = 0 /\ \A k \in 1..(i - 1) : parts[k] > 0
    /\ \E n \in IF mode = "openai" THEN 1..2 ELSE {2} :
         /\ parts' = [parts EXCEPT ![i] = n]
         /\ data' = Append(data, [id |-> i, args |-> [k \in 1..n |-> <<i, k>>]])
    /\ UNCHANGED <<mode, watched, made, given, left, text, buffer, shown, current, ended>>

\* The events of a stream of the Anthropic provider: content_block_start,
\* input_json_delta, content_block_stop.
Start(i) ==
    /\ ~ended /\ mode = "stream" /\ current = <<>>
    /\ parts[i] = 0 /\ \A k \in 1..(i - 1) : parts[k] > 0
    /\ parts' = [parts EXCEPT ![i] = 1]
    /\ current' = <<[id |-> i, args |-> <<<<i, 1>>>>]>>
    /\ UNCHANGED <<mode, watched, made, given, left, text, buffer, shown, data, ended>>

More ==
    /\ ~ended /\ current # <<>> /\ Len(current[1].args) < 2
    /\ parts' = [parts EXCEPT ![current[1].id] = 2]
    /\ current' = [current EXCEPT ![1].args = Append(@, <<current[1].id, 2>>)]
    /\ UNCHANGED <<mode, watched, made, given, left, text, buffer, shown, data, ended>>

Stop ==
    /\ ~ended /\ current # <<>>
    /\ data' = data \o current /\ current' = <<>>
    /\ UNCHANGED <<mode, watched, made, given, left, text, buffer, shown, parts, ended>>

\* AnthropicProvider.chat: the request for a whole message fails.
FallBack ==
    /\ ~ended /\ mode = "message" /\ text = <<>> /\ data = <<>>
    /\ mode' = "stream"
    /\ UNCHANGED <<watched, made, given, left, text, buffer, shown, parts, data, current, ended>>

(* The end of chat.  Anthropic's provider flushes the filter only if there *)
(* are no calls in the text; a call whose block is open is not returned.   *)
Return ==
    /\ ~ended /\ ended' = TRUE
    /\ IF watched /\ (mode = "openai" \/ TextCalls(text) = <<>>)
       THEN shown' = shown \o Flushed /\ buffer' = <<>>
       ELSE UNCHANGED <<shown, buffer>>
    /\ UNCHANGED <<mode, watched, made, given, left, text, parts, data, current>>

StreamNext ==
    \/ \E n \in 1..Len(left) : Text(n)
    \/ \E i \in 1..made : Delta(i) \/ Block(i) \/ Start(i)
    \/ More \/ Stop \/ FallBack \/ Return

StreamSpec == StreamInit /\ [][StreamNext]_streamVars
-----------------------------------------------------------------------------
(* The ChatResponse.  _parse_tool_arguments: no arguments unless what came *)
(* parses.                                                                 *)
Parsed(args, i) == IF args = [k \in 1..2 |-> <<i, k>>] THEN "whole" ELSE "none"
IdAt(k) == IF data[k].id = 0 THEN <<>> ELSE given[data[k].id]
NativeCalls ==
    [k \in DOMAIN data |->
        [id |-> IF IdAt(k) = <<>> THEN <<"call", k>> ELSE IdAt(k), args |-> Parsed(data[k].args, k)]]
ToolCalls == NativeCalls \o TextCalls(text)
Content == IF TextCalls(text) = <<>> THEN text ELSE Cleaned(text)

\* _assistant_content: what the next requests say of the answer.  The blocks
\* that a provider returned are kept with it and go before its content, and
\* those of the Anthropic provider are as the server sent them.
Resent == IF mode = "openai" THEN Content ELSE text
-----------------------------------------------------------------------------
(* What a reader of the answer should have seen of it: everything that is  *)
(* not between the markers, where a marker counts only after the end of    *)
(* the block before it.                                                    *)
Between(s, i) ==
    \E b \in Occurrences(s, Begin) :
        b <= i /\ \A e \in Occurrences(s, End) : b + Len(Begin) <= e => i < e + Len(End)
Visible(s) == FlattenSeq([i \in DOMAIN s |-> IF Between(s, i) THEN <<>> ELSE <<s[i]>>])

\* Every block is closed and has calls.
Closed(s) ==
    LET blocks == Blocks(s) IN
    /\ \A n \in DOMAIN blocks : CallsOf(s, blocks[n], n) # <<>>
    /\ \A i \in DOMAIN s : Between(s, i) => InBlock(blocks, i)

(* TextToolCallStreamFilter and parse_text_tool_calls: however the         *)
(* provider cuts the text into pieces, the user sees what is outside the   *)
(* blocks, except that the Anthropic provider does not show what it held   *)
(* back as the beginning of a marker after a call.  If every block is      *)
(* closed and has calls, the answer that Session.send returns is what is   *)
(* outside them as well; and so is what the history sends back to the      *)
(* model, unless the Anthropic provider found calls in the text: then the  *)
(* blocks stay in what it is sent.                                         *)
ShownIsAnswer ==
    ended =>
      /\ watched =>
           \/ shown = Visible(text)
           \/ /\ mode # "openai" /\ TextCalls(text) # <<>> /\ Partial(text) > 0
              /\ shown = SubSeq(Visible(text), 1, Len(Visible(text)) - Partial(text))
      /\ Closed(text) =>
           /\ Content = Visible(text)
           /\ Resent = Visible(text) \/ (mode # "openai" /\ TextCalls(text) # <<>> /\ Resent = text)

\* The server gave a call the id that the provider gives another, without one.
Clash(j, k) == {j, k} \subseteq DOMAIN data /\ IdAt(j) = <<>> /\ IdAt(k) = <<"call", j>>

(* The assembly of tool_calls_data: a call is returned once and in the     *)
(* order the model made it, with all its arguments if they came, and with  *)
(* none if the response was cut, never with those of another call; and no  *)
(* two calls share an id, whoever gave it, but where the server numbers    *)
(* its calls as the provider does and leaves one of them without.          *)
CallsAsMade ==
    ended =>
      /\ Len(NativeCalls) <= made
      /\ \A k \in DOMAIN NativeCalls :
           /\ NativeCalls[k].id \in {<<"call", k>>, given[k]}
           /\ (NativeCalls[k].args = "whole") <=> (parts[k] = 2)
      /\ current = <<>> => \A i \in 1..made : parts[i] > 0 => i \in DOMAIN NativeCalls
      /\ \A j, k \in DOMAIN ToolCalls :
           j # k /\ ToolCalls[j].id = ToolCalls[k].id => Clash(j, k) \/ Clash(k, j)
=============================================================================
