---------------------------- MODULE ChatClients ----------------------------
(***************************************************************************)
(* The four chat clients behind llm.Chat (llm/openai.go, anthropic.go,     *)
(* gemini.go, openai_responses.go), the getters that make them             *)
(* (chat_clients.go) and the recovery of a conversation from the last      *)
(* request and response (state_recovery.go).  One caller, which repeats a  *)
(* call that failed, answers each tool call once, either by Respond or by  *)
(* results left for the next Request, and may be restarted at any time.    *)
(*                                                                         *)
(* A message is a role and the set of its parts.  Tool results and tool    *)
(* calls come out of Go maps, so they have no order; the "tool" messages of *)
(* one turn are one message here.  Wording, tools, usage and thinking are  *)
(* left out.  For the Responses API, which keeps the conversation at the   *)
(* server, history is what the server holds under responseId.              *)
(***************************************************************************)
EXTENDS Integers, Sequences, FiniteSets, FiniteSetsExt, SequencesExt

CONSTANTS
  ChatModels,   \* [kind, max, default, spec]: client type, output limit, default budget,
                \* max_tokens of the model spec, 0 for none
  AskedTokens,  \* ChatParams.MaxTokens as the caller gives it
  UserContents, \* what a user sends: sets of "text", "data", "url", "none"
  Prompts,      \* SetSystemBlocks: sequences of [id, cache]
  ToolIds,      \* CallId
  Streams,      \* what a model answers: sequences of "text" and tool ids
  MaxHistory,   \* bound on the length of a history
  NoState       \* nothing saved yet

\* Token counts are integers, and a prompt is a slice of blocks.
ASSUME ChatAssumption ==
  /\ AskedTokens \subseteq Int
  /\ \A m \in ChatModels : m.max \in Int /\ m.default \in Int /\ m.spec \in Int
  /\ \A blocks \in Prompts : blocks \in Seq(Range(blocks))

VARIABLES
  chat,     \* [kind, limit, budget, history, system, pending, chained]
  chatParams,   \* ChatParams.MaxTokens, shared by every getter made with it
  saved,    \* ProviderRecoveryState: what was sent and answered, or NoState
  unanswered, \* the tool calls the caller has still to answer
  settled   \* history: the conversation as the last success left it

chatVars == << chat, chatParams, saved, unanswered, settled >>

Msg(role, parts) == [role |-> role, parts |-> parts]
NewChat(kind, limit, budget) ==
  [kind |-> kind, limit |-> limit, budget |-> budget, history |-> << >>, system |-> << >>,
   pending |-> {}, chained |-> FALSE]

ChatInit ==
  /\ chat = NewChat("none", 1, 1)
  /\ chatParams \in AskedTokens
  /\ saved = NoState /\ unanswered = {} /\ settled = << >>

----------------------------------------------------------------------------
(* chat_clients.go. *)

\* The output limit of a model: registered, or half of the context size of a dynamic or
\* OpenRouter model that names no max_tokens.
EffectiveMaxTokens(m, asked) ==
  IF asked > 0 THEN Min({asked, m.max})
  ELSE IF m.default > 0 THEN Min({m.default, m.max}) ELSE m.max

\* GetChatGetter writes the spec's max_tokens into the caller's chatParams.
GetChat(m) ==
  LET asked == IF chatParams = 0 THEN m.spec ELSE chatParams IN
  /\ chat.history = << >>
  /\ chatParams' = asked
  /\ chat' = NewChat(m.kind, m.max, EffectiveMaxTokens(m, asked))
  /\ saved' = NoState /\ unanswered' = {} /\ settled' = << >>

----------------------------------------------------------------------------
(* Turns. *)

\* toProviderContent: an image or file with nothing in it is dropped, and refused by
\* Gemini, which takes no URL either.
Convertible(kind, parts) == kind = "gemini" => parts \cap {"url", "none"} = {}
Converted(parts) == {<< "said", p >> : p \in parts \ {"none"}}
TextOnly(parts) == {<< "said", p >> : p \in parts \cap {"text"}}
Results(ids) == {<< "result", k >> : k \in ids}

\* A message with nothing in it is left out.
Told(role, parts) == IF parts = {} THEN << >> ELSE << Msg(role, parts) >>

\* Request: results and text share a user message, or go in messages of their own.
RequestTurn(kind, ids, parts) ==
  IF kind \in {"anthropic", "gemini"} THEN << Msg("user", Results(ids) \cup Converted(parts)) >>
  ELSE Told("tool", Results(ids)) \o << Msg("user", Converted(parts)) >>

\* Respond: Anthropic drops the additional messages of a turn without results; the
\* others keep only their text.
RespondTurn(kind, ids, parts) ==
  CASE kind = "anthropic" -> IF ids = {} THEN << >> ELSE << Msg("user", Results(ids) \cup Converted(parts)) >>
    [] kind = "gemini"    -> Told("user", Results(ids) \cup TextOnly(parts))
    [] OTHER              -> Told("tool", Results(ids)) \o Told("user", TextOnly(parts))

\* SetSystemBlocks: cacheable blocks first, except with Anthropic; the preamble is on the
\* block that came first.
SystemBlocks(kind, blocks) ==
  LET Precedes(i, j) == IF kind # "anthropic" /\ blocks[i].cache # blocks[j].cache
                        THEN blocks[i].cache ELSE i < j
      At(n) == CHOOSE i \in DOMAIN blocks :
                 Cardinality({j \in DOMAIN blocks : Precedes(j, i)}) = n - 1
  IN [n \in DOMAIN blocks |-> [block |-> blocks[At(n)], preamble |-> At(n) = 1]]

AsMessages(blocks) == [i \in DOMAIN blocks |-> Msg("system", {<< "said", blocks[i] >>})]

\* What a request is put on top of.
Before(c) == IF c.kind = "responses" /\ ~c.chained THEN AsMessages(c.system) ELSE c.history

\* The Responses client keeps its results until there is a response to chain to.
Usable(c) == IF c.kind = "responses" /\ ~c.chained THEN {} ELSE c.pending

----------------------------------------------------------------------------
(* The answer, as it is read off the stream. *)

\* A stream that just ends is a complete answer to every client; Gemini takes one that
\* breaks off for complete too.  The Responses client skips an event it cannot read.
Heard(kind) ==
  UNION {{SubSeq(s, 1, n) : n \in 0..Len(s)} : s \in Streams}
    \cup IF kind = "responses" THEN UNION {{RemoveAt(s, i) : i \in DOMAIN s} : s \in Streams} ELSE {}

Spoken(got) == {<< "said", "reply" >> : t \in Range(got) \cap {"text"}}
CallsIn(got) == {k \in ToolIds : k \in Range(got)}
Called(got) == {<< "call", k >> : k \in CallsIn(got)}

\* The reply as it goes into the live history.
ReplyMessages(kind, got) ==
  IF kind = "gemini" THEN Told("reply", Spoken(got)) \o Told("reply", Called(got))
  ELSE << Msg("reply", Spoken(got) \cup Called(got)) >>

\* Mutant: the synthetic response is made of the text alone.
Synthetic_TextOnly(got) == Spoken(got)

\* RawResponseJSON: the stream is not JSON, so a response is made up for recovery.
Synthetic(got) == Spoken(got) \cup Called(got)

\* A successful exchange, with a response id or, from a stream that had none, without.
AnswerKept(c, sent) ==
  \E got \in Heard(c.kind), id \in BOOLEAN :
    LET history == sent \o ReplyMessages(c.kind, got) IN
    /\ id => c.kind = "responses"
    /\ chat' = [c EXCEPT !.history = history, !.chained = id]
    /\ saved' = [kind |-> c.kind, messages |-> sent, system |-> c.system, reply |-> Synthetic(got)]
    /\ unanswered' = CallsIn(got)
    /\ settled' = history
    /\ UNCHANGED chatParams

----------------------------------------------------------------------------
(* llm.Chat.  A caller with results left for the next Request does not Respond. *)

Live == chat.kind # "none"
Room == Live /\ Len(chat.history) < MaxHistory

\* Request, its results taken out of pending before it is sent.
Sent(parts) == Before(chat) \o RequestTurn(chat.kind, Usable(chat), parts)
Emptied == [chat EXCEPT !.pending = @ \ Usable(chat)]

Request(parts) ==
  /\ Room /\ Convertible(chat.kind, parts)
  /\ AnswerKept(Emptied, Sent(parts))

\* The request, or the reading of its answer, fails: Anthropic rolls its history back.
RequestFails(parts) ==
  /\ Room /\ Convertible(chat.kind, parts)
  /\ chat' = IF chat.kind \in {"openai", "gemini"}
             THEN [Emptied EXCEPT !.history = Sent(parts)] ELSE Emptied
  /\ UNCHANGED << chatParams, saved, unanswered, settled >>

\* An event Anthropic's reader does not know panics, past the rollback.
RequestPanics(parts) ==
  /\ Room /\ chat.kind = "anthropic"
  /\ chat' = [Emptied EXCEPT !.history = Sent(parts)]
  /\ UNCHANGED << chatParams, saved, unanswered, settled >>

CanRespond ==
  CASE chat.kind = "openai"    -> chat.history # << >> /\ Last(chat.history).role = "reply"
    [] chat.kind = "responses" -> chat.chained
    [] OTHER -> TRUE

\* Respond works on a copy: if it fails, nothing has changed.
Respond(ids, parts) ==
  /\ Room /\ CanRespond /\ chat.pending = {}
  /\ AnswerKept(chat, chat.history \o RespondTurn(chat.kind, ids, parts))

SetPendingToolResults(ids) ==
  /\ Live
  /\ chat' = [chat EXCEPT !.pending = ids]
  /\ unanswered' = unanswered \ ids
  /\ UNCHANGED << chatParams, saved, settled >>

\* The system messages at the front of a history.
LeadingSystem(h) == Max({n \in 0..Len(h) : \A i \in 1..n : h[i].role = "system"})

\* OpenAI keeps the system prompt at the front of the history, and no blocks are no change.
SetSystemBlocks(blocks) ==
  /\ Live
  /\ LET ordered == SystemBlocks(chat.kind, blocks)
         talk == SubSeq(chat.history, LeadingSystem(chat.history) + 1, Len(chat.history))
     IN chat' = IF chat.kind # "openai" THEN [chat EXCEPT !.system = ordered]
                ELSE IF blocks = << >> THEN chat
                ELSE [chat EXCEPT !.history = AsMessages(ordered) \o talk]
  /\ UNCHANGED << chatParams, saved, unanswered, settled >>

ClearHistory ==
  /\ Live
  /\ chat' = [chat EXCEPT !.history = << >>, !.chained = FALSE,
                          !.system = IF chat.kind = "gemini" THEN << >> ELSE @]
  /\ unanswered' = {}
  /\ UNCHANGED << chatParams, saved, settled >>

----------------------------------------------------------------------------
(* state_recovery.go. *)

RecoveredHistory(s) ==
  CASE s.kind = "responses" -> << >>
    [] s.kind = "anthropic" -> s.messages \o Told("reply", s.reply)
    [] OTHER -> Append(s.messages, Msg("reply", s.reply))

\* The process restarts: a new client of the getter, and RecoverProviderHistory.
RestartAndRecover ==
  /\ saved # NoState
  /\ chat' = [NewChat(saved.kind, chat.limit, chat.budget)
                EXCEPT !.history = RecoveredHistory(saved),
                       !.system = IF saved.kind = "anthropic" THEN saved.system ELSE << >>]
  /\ unanswered' = {k \in ToolIds : << "call", k >> \in saved.reply}
  /\ UNCHANGED << chatParams, saved, settled >>

ChatNext ==
  \/ \E m \in ChatModels : GetChat(m)
  \/ \E parts \in UserContents : Request(parts) \/ RequestFails(parts) \/ RequestPanics(parts)
  \/ \E ids \in SUBSET unanswered \ {{}}, parts \in UserContents : Respond(ids, parts)
  \/ \E ids \in SUBSET unanswered \ {{}} : SetPendingToolResults(ids)
  \/ \E blocks \in Prompts : SetSystemBlocks(blocks)
  \/ ClearHistory
  \/ RestartAndRecover

ChatSpec == ChatInit /\ [][ChatNext]_chatVars

----------------------------------------------------------------------------
\* msgs and then m: nothing said is no message, and neighbours of one role are one.
Glued(msgs, m) ==
  IF m.parts = {} THEN msgs
  ELSE IF msgs # << >> /\ Last(msgs).role = m.role
       THEN Append(Front(msgs), Msg(m.role, Last(msgs).parts \cup m.parts))
       ELSE Append(msgs, m)

\* A conversation up to the grouping of neighbouring messages of one role.
Grouped(msgs) ==
  LET upTo[i \in 0..Len(msgs)] == IF i = 0 THEN << >> ELSE Glued(upTo[i - 1], msgs[i])
  IN upTo[Len(msgs)]

\* What recovery would bring back is the conversation the last successful exchange left,
\* reply and tool calls included, whatever failed, was cleared or was restarted since
\* (state_recovery.go:43-45): the made-up response must say what the live history was
\* told.  However calls fail and are repeated, a tool call is not answered twice before
\* the model has replied again, which providers refuse; and no client asks for more
\* output than its model allows.
ChatSound ==
  /\ saved # NoState /\ saved.kind # "responses" =>
       Grouped(RecoveredHistory(saved)) = Grouped(settled)
  /\ \A i, j \in DOMAIN chat.history : \A k \in ToolIds :
       i < j /\ (\A h \in {i, j} : << "result", k >> \in chat.history[h].parts) =>
         \E h \in i..j : chat.history[h].role = "reply"
  /\ chat.budget <= chat.limit
============================================================================
