------------------------------ MODULE SdkWire ------------------------------
(***************************************************************************)
(* What the SDK sends to a model behind OpenAI's interface                 *)
(* (providers/openai.ts): the conversation is kept as messages of blocks   *)
(* and converted on every call; and the retries of a call (utils/retry.ts) *)
(***************************************************************************)
EXTENDS Naturals, Sequences, FiniteSets, SequencesExt, Loops

CONSTANTS
    CallIds,            \* ids of tool calls, used once
    MaxMessages,        \* bound: messages
    MaxRetries          \* retries of a call
ASSUME RetryAssumption == MaxRetries \in Nat

VARIABLES
    conversation,   \* sequence of [role, blocks], a block is <<type, id>>
    stopReason,     \* the last reply's, normalized
    attempts,       \* calls made for the reply awaited
    waiting,        \* a retry waits for its delay
    cancelled,      \* the abort signal
    late            \* history: a call was made after the abort

wireVars == <<conversation, stopReason, attempts, waiting, cancelled, late>>

TextBlock == <<"text", "">>
Wired == {TextBlock} \cup ({"tool_use", "tool_result"} \X CallIds)
WireMessageTypes == [role : {"user", "assistant"}, blocks : Seq(Wired)]
WireTypes == [role : {"user", "assistant", "tool"}, ids : Seq(CallIds)]

WireTypeOK ==
    /\ conversation \in Seq(WireMessageTypes)
    /\ stopReason \in {"none", "end_turn", "max_tokens", "tool_use", "content_filter"}
    /\ attempts \in 0 .. MaxRetries + 1 /\ {waiting, cancelled, late} \subseteq BOOLEAN

WireInit ==
    /\ conversation = <<>> /\ stopReason = "none"
    /\ attempts = 0 /\ waiting = FALSE /\ cancelled = FALSE /\ late = FALSE

-----------------------------------------------------------------------------
(* Conversion.                                                             *)

OfType(m, t) == Picked(m.blocks, {b \in Wired : b[1] = t})
BlockIds(bs) == [i \in DOMAIN bs |-> bs[i][2]]
WireMessage(role, ids) == [role |-> role, ids |-> ids]
ToolMessages(m) == [i \in DOMAIN OfType(m, "tool_result") |-> WireMessage("tool", <<OfType(m, "tool_result")[i][2]>>)]
UserText(m) == IF OfType(m, "text") = <<>> THEN <<>> ELSE <<WireMessage("user", <<>>)>>

\* Variant for a mutation check: the blocks' text comes first.
TextFirst(m) == UserText(m) \o ToolMessages(m)

\* convertUserMessage: a message for each result, then one for all the text.
UserMessages(m) == ToolMessages(m) \o UserText(m)

\* convertAssistantMessage: one message, with the calls.
AssistantMessages(m) == <<WireMessage("assistant", BlockIds(OfType(m, "tool_use")))>>

\* convertMessages.
WireMessages(m) == IF m.role = "user" THEN UserMessages(m) ELSE AssistantMessages(m)
OnTheWire == Loop([p \in Seq(WireTypes) \X WireMessageTypes |-> p[1] \o WireMessages(p[2])], <<>>, conversation)

\* convertResponse: text, then calls; at least one block.
Normalized(hasText, asked) ==
    LET uses == [i \in DOMAIN asked |-> <<"tool_use", asked[i]>>] IN
    IF hasText \/ asked = <<>> THEN <<TextBlock>> \o uses ELSE uses

\* mapFinishReason: what it does not know is passed on.
StopReason(finish) ==
    CASE finish = "stop" -> "end_turn"
      [] finish = "length" -> "max_tokens"
      [] finish = "tool_calls" -> "tool_use"
      [] OTHER -> finish

-----------------------------------------------------------------------------
(* The conversation.                                                       *)

LastRole == IF conversation = <<>> THEN "none" ELSE Last(conversation).role
LastCalls == IF conversation = <<>> THEN <<>> ELSE BlockIds(OfType(Last(conversation), "tool_use"))
UsedIds == UNION {{b[2] : b \in Range(conversation[i].blocks)} : i \in DOMAIN conversation}
Grows(role, blocks) == /\ Len(conversation) < MaxMessages
                       /\ conversation' = Append(conversation, [role |-> role, blocks |-> blocks])

\* The engine's next message: a prompt, or the results of all the calls, in
\* the order they were run, with text where it was merged with a prompt.
NextUserMessage ==
    /\ LastRole # "user" /\ ~cancelled
    /\ \E order \in {s \in [DOMAIN LastCalls -> Range(LastCalls)] : Range(s) = Range(LastCalls)}, withText \in BOOLEAN :
         LET results == [i \in DOMAIN order |-> <<"tool_result", order[i]>>] IN
         Grows("user", IF withText \/ results = <<>> THEN <<TextBlock>> \o results ELSE results)
    /\ attempts' = 0 /\ waiting' = FALSE
    /\ UNCHANGED <<stopReason, cancelled, late>>

\* Variant for a mutation check: the signal is looked at before the first call.
CheckedAtFirst == attempts = 0 => ~cancelled

\* The signal is looked at before every call.
MayCall == ~cancelled

\* withRetry: a call, the first or after a delay.
Attempt ==
    /\ LastRole = "user" /\ (attempts = 0 \/ waiting) /\ MayCall
    /\ attempts' = attempts + 1 /\ waiting' = FALSE /\ late' = (late \/ cancelled)
    /\ UNCHANGED <<conversation, stopReason, cancelled>>

InFlight == LastRole = "user" /\ attempts > 0 /\ ~waiting

\* createMessage answers.  (Calls in a reply that was cut off are SdkEngine's
\* matter: there the next request does not answer them.)
ReplyArrives ==
    /\ InFlight
    /\ \E finish \in {"stop", "length", "tool_calls", "content_filter"}, hasText \in BOOLEAN,
          asked \in {s \in SeqOf(CallIds \ UsedIds, 2) : IsInjective(s)} :
         /\ (finish = "tool_calls") => asked # <<>>
         /\ finish # "tool_calls" => asked = <<>>
         /\ Grows("assistant", Normalized(hasText, asked))
         /\ stopReason' = StopReason(finish)
    /\ attempts' = 0
    /\ UNCHANGED <<waiting, cancelled, late>>

\* A call fails: with an error worth a retry there is one, up to the limit;
\* the delay is waited for whatever the signal says.  Else the query ends.
CallFailed ==
    /\ InFlight /\ attempts <= MaxRetries
    /\ waiting' = TRUE
    /\ UNCHANGED <<conversation, stopReason, attempts, cancelled, late>>

\* interrupt.
CancelCall == /\ ~cancelled /\ cancelled' = TRUE
              /\ UNCHANGED <<conversation, stopReason, attempts, waiting, late>>

WireNext == NextUserMessage \/ Attempt \/ ReplyArrives \/ CallFailed \/ CancelCall

WireSpec == WireInit /\ [][WireNext]_wireVars
-----------------------------------------------------------------------------
(* Properties.                                                             *)

\* On the wire, an assistant's calls are followed at once by a message with
\* the result of each of them, and of nothing else, whatever text the results
\* were merged with.
WireKeepsPairs ==
    \A i \in DOMAIN OnTheWire :
        LET m == OnTheWire[i]
            n == Len(m.ids)
        IN m.role = "assistant" /\ i < Len(OnTheWire) =>
             /\ i + n <= Len(OnTheWire)
             /\ \A j \in i + 1 .. i + n : OnTheWire[j].role = "tool"
             /\ {OnTheWire[j].ids[1] : j \in i + 1 .. i + n} = Range(m.ids)
             /\ i + n < Len(OnTheWire) => OnTheWire[i + n + 1].role # "tool"

\* A call is made four times at most, and not after the abort, even if that
\* comes while a retry is waited for.
RetriesEnd == attempts <= MaxRetries + 1 /\ ~late
=============================================================================
