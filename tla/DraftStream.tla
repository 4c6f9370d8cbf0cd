----------------------------- MODULE DraftStream ------------------------------
(***************************************************************************)
(* Drafting the outreach of one opportunity.                               *)
(*                                                                         *)
(*   services/gateway/routers/outreach.py      generate/stream, generate   *)
(*   services/orchestrator/llm/router.py       stream_primary              *)
(*   services/orchestrator/agents/outreach_gen.py                          *)
(*                                                                         *)
(* generate/stream starts a task per channel.  The tasks put what the LLM  *)
(* produces on one queue; the response's generator takes it off, passes it *)
(* to the RM's page, and of every channel that is done it reads the two    *)
(* options out of what was accumulated and commits them as a campaign.     *)
(* Meanwhile the RM may also call the blocking generate.                   *)
(***************************************************************************)
EXTENDS Naturals, FiniteSets, SequencesExt

CONSTANTS
  Channels,    \* channels drafted by generate/stream
  Calls,       \* calls of the blocking generate
  Drafts       \* bound: what the LLM may set out to write, as its tokens

\* The prompt asks for JSON with two keys, and the LLM need not obey.  A text
\* is a sequence of words: a key stands for itself and the layout up to its
\* value, "end" for the layout that closes the object; of the others one has
\* the shape <PII_...> and one the shape of the vault's tokens (pii_mask.py:210).
\* What the LLM writes comes as tokens, texts that may be cut anywhere.
Marks == {"option_a", "option_b", "end"}
Words == Marks \cup {"word", "<PII_NAME>", "[PHONE_1]"}

ASSUME ConstantsAssumption ==
  /\ IsFiniteSet(Channels)
  /\ Channels # {}
  /\ Drafts \subseteq Seq(Seq(Words))
  /\ "stream" \notin Calls

Written == UNION {Range(d) : d \in Drafts}

\* With the text of an OpenAI error.
Tokens == Written \cup {<<"apology">>}

VARIABLES
  task,      \* task[ch]: where the task of ch is and what it accumulated
  queue,     \* the queue that merges the tasks
  stream,    \* the response's generator: where it is and the message in hand
  finished,  \* finished_count, the channels whose end it has seen
  page,      \* page[ch]: the tokens the RM was shown, how the channel ended,
             \* and the options in its done event
  rows,      \* campaigns committed: channel, options, and by whom
  call       \* call[b]: where the blocking call b is and the options it holds

vars == <<task, queue, stream, finished, page, rows, call>>
gateway == <<stream, finished, page, rows, call>>

Msg(ch, type, text) == [channel |-> ch, type |-> type, text |-> text]

NoMsg == Msg("", "", <<>>)

NoDraft == [a |-> <<>>, b |-> <<>>]

\* A blocking call that holds no draft.
Empty(pc) == [pc |-> pc, channel |-> "none", options |-> NoDraft]

Init ==
  /\ task = [ch \in Channels |-> [pc |-> "idle", accumulated |-> <<>>]]
  /\ queue = <<>>
  /\ stream = [pc |-> "build", msg |-> NoMsg]
  /\ finished = 0
  /\ page = [ch \in Channels |-> [tokens |-> <<>>, end |-> "none", draft |-> NoDraft]]
  /\ rows = {}
  /\ call = [b \in Calls |-> Empty("idle")]

------------------------------------------------------------------------------
(* What a text says.                                                       *)

\* json.loads takes the text, without a fence around it, for an object.
IsObject(text) ==
  /\ text # <<>>
  /\ text[1] \in Marks
  /\ \A i \in DOMAIN text : text[i] = "end" <=> i = Len(text)

Places(text, key) == {i \in DOMAIN text : text[i] = key}

\* The value of a key, the last one if it is repeated: up to the next mark.
Value(text, key) ==
  LET from == Max(Places(text, key))
      to == Min({i \in DOMAIN text : i > from /\ text[i] \in Marks})
  IN SubSeq(text, from + 1, to - 1)

\* parsed.get(key, missing); a text that does not parse is used as it is.
Option(text, key, missing) ==
  IF ~IsObject(text) THEN text
  ELSE IF Places(text, key) = {} THEN missing
  ELSE Value(text, key)

\* Leaked tokens of the form <PII_...> are replaced, those of another are not.
Sanitised(text) ==
  [i \in DOMAIN text |-> IF text[i] = "<PII_NAME>" THEN "[Customer]" ELSE text[i]]

\* message_option_a, which message_body is, too, and message_option_b.
Options(text, missing) ==
  [a |-> Sanitised(Option(text, "option_a", missing)),
   b |-> Sanitised(Option(text, "option_b", missing))]

------------------------------------------------------------------------------
(* The request and its tasks.                                              *)

\* _build_outreach_state refuses a customer or an opportunity that is not
\* this RM's, and the tasks are started.  The tone guidelines never fail.
Start ==
  /\ stream.pc = "build"
  /\ \/ /\ stream' = [stream EXCEPT !.pc = "refused"]
        /\ UNCHANGED task
     \/ /\ stream' = [stream EXCEPT !.pc = "loop"]
        /\ task' = [ch \in Channels |-> [pc |-> "render", accumulated |-> <<>>]]
  /\ UNCHANGED <<queue, finished, page, rows, call>>

Put(ch, type, text) == queue' = Append(queue, Msg(ch, type, text))

\* render_prompt stands before the try: when it raises, the task dies and the
\* queue never hears of it.
Render(ch) ==
  /\ task[ch].pc = "render"
  /\ \E pc \in {"streaming", "dead"} : task' = [task EXCEPT ![ch].pc = pc]
  /\ UNCHANGED <<queue, gateway>>

\* The LLM may write token next, having written tokens.
Writes(tokens, token) == \E d \in Drafts : IsPrefix(Append(tokens, token), d)

\* Mutant: the tasks share the variable of the loop that started them.
MutantEmit(ch) ==
  /\ task[ch].pc = "streaming"
  /\ \E token \in Written, other \in Channels :
       /\ Writes(task[ch].accumulated, token)
       /\ task' = [task EXCEPT ![ch].accumulated = Append(@, token)]
       /\ Put(other, "token", <<token>>)
  /\ UNCHANGED gateway

Emit(ch) ==
  /\ task[ch].pc = "streaming"
  /\ \E token \in Written :
       /\ Writes(task[ch].accumulated, token)
       /\ task' = [task EXCEPT ![ch].accumulated = Append(@, token)]
       /\ Put(ch, "token", <<token>>)
  /\ UNCHANGED gateway

\* stream_primary turns an error of OpenAI's, whenever it comes, into one
\* more token and ends: the caller cannot tell it from a draft.
ApiError(ch) ==
  /\ task[ch].pc = "streaming"
  /\ task' = [task EXCEPT ![ch].pc = "finish", ![ch].accumulated = Append(@, <<"apology">>)]
  /\ Put(ch, "token", << <<"apology">> >>)
  /\ UNCHANGED gateway

\* The LLM may stop anywhere, at its limit of tokens in the middle of a draft.
Finish(ch) ==
  /\ task[ch].pc \in {"streaming", "finish"}
  /\ task' = [task EXCEPT ![ch].pc = "over"]
  /\ Put(ch, "done_raw", task[ch].accumulated)
  /\ UNCHANGED gateway

\* The router itself cannot be built: the only exception the task reports.
Raise(ch) ==
  /\ task[ch].pc = "streaming"
  /\ task[ch].accumulated = <<>>
  /\ task' = [task EXCEPT ![ch].pc = "over"]
  /\ Put(ch, "error", <<>>)
  /\ UNCHANGED gateway

------------------------------------------------------------------------------
(* The generator of the response.                                          *)

Looking(type) ==
  /\ stream.pc = "loop"
  /\ finished < Cardinality(Channels)
  /\ queue # <<>>
  /\ Head(queue).type = type
  /\ queue' = Tail(queue)

TakeToken ==
  LET msg == Head(queue) IN
  /\ Looking("token")
  /\ page' = [page EXCEPT ![msg.channel].tokens = @ \o msg.text]
  /\ UNCHANGED <<task, stream, finished, rows, call>>

\* An option that the object lacks becomes the whole text.
OptionsOf(tokens) == LET text == FlattenSeq(tokens) IN Options(text, text)

\* Mutant: the channel counts as finished before it is saved, and after.
MutantTakeDone ==
  /\ Looking("done_raw")
  /\ stream' = [pc |-> "save", msg |-> Head(queue)]
  /\ finished' = finished + 1
  /\ UNCHANGED <<task, page, rows, call>>

TakeDone ==
  /\ Looking("done_raw")
  /\ stream' = [pc |-> "save", msg |-> Head(queue)]
  /\ UNCHANGED <<task, finished, page, rows, call>>

\* Mutant: a failed channel is not counted as finished.
MutantTakeError ==
  /\ Looking("error")
  /\ page' = [page EXCEPT ![Head(queue).channel].end = "error"]
  /\ UNCHANGED <<task, stream, finished, rows, call>>

\* Mutant: the first failure ends the loop.
MutantTakeErrorStops ==
  /\ Looking("error")
  /\ page' = [page EXCEPT ![Head(queue).channel].end = "error"]
  /\ finished' = Cardinality(Channels)
  /\ UNCHANGED <<task, stream, rows, call>>

TakeError ==
  /\ Looking("error")
  /\ page' = [page EXCEPT ![Head(queue).channel].end = "error"]
  /\ finished' = finished + 1
  /\ UNCHANGED <<task, stream, rows, call>>

\* Mutant: the RM is told before the commit.
MutantSave ==
  LET msg == stream.msg IN
  /\ stream.pc = "save"
  /\ page' = [page EXCEPT ![msg.channel].end = "done"]
  /\ stream' = [stream EXCEPT !.pc = "tell"]
  /\ UNCHANGED <<task, queue, finished, rows, call>>

\* The options are read out of the text, the campaign is committed and read
\* back.  A failure of the commit, or of the refresh after it, leaves the
\* generator: the response breaks off and the tasks of the other channels go
\* on for nobody.
Save ==
  LET row == [channel |-> stream.msg.channel, options |-> OptionsOf(stream.msg.text), by |-> "stream"]
  IN /\ stream.pc = "save"
     /\ \/ /\ rows' = rows \cup {row}
           /\ \E pc \in {"tell", "broken"} : stream' = [stream EXCEPT !.pc = pc]
        \/ /\ stream' = [stream EXCEPT !.pc = "broken"]
           /\ UNCHANGED rows
     /\ UNCHANGED <<task, queue, finished, page, call>>

\* The done event names the campaign and carries its options.
Tell ==
  /\ stream.pc = "tell"
  /\ page' = [page EXCEPT ![stream.msg.channel].end = "done",
                          ![stream.msg.channel].draft = OptionsOf(stream.msg.text)]
  /\ finished' = finished + 1
  /\ stream' = [pc |-> "loop", msg |-> NoMsg]
  /\ UNCHANGED <<task, queue, rows, call>>

End ==
  /\ stream.pc = "loop"
  /\ finished = Cardinality(Channels)
  /\ stream' = [stream EXCEPT !.pc = "ended"]
  /\ UNCHANGED <<task, queue, finished, page, rows, call>>

\* The RM closes the page: the generator is cancelled where it waits.
Disconnect ==
  /\ stream.pc \in {"loop", "save", "tell"}
  /\ stream' = [stream EXCEPT !.pc = "cancelled"]
  /\ UNCHANGED <<task, queue, finished, page, rows, call>>

------------------------------------------------------------------------------
(* The blocking generate.                                                  *)

\* What OutreachGenAgent.execute makes of an answer of the LLM's, for the one
\* channel asked for: an option that the object lacks is empty here, and an
\* error of OpenAI's is no text.
Answers == {Options(FlattenSeq(d), <<>>) : d \in Drafts}

\* The agent is run.  Without a message, when the prompt holds personal data
\* or the LLM fails for good, the answer is a 500.
Generate(b) ==
  /\ call[b].pc = "idle"
  /\ \/ call' = [call EXCEPT ![b] = Empty("failed")]
     \/ \E ch \in Channels, options \in Answers :
          call' = [call EXCEPT ![b] = [pc |-> "commit", channel |-> ch, options |-> options]]
  /\ UNCHANGED <<task, queue, stream, finished, page, rows>>

\* However it ends, the call keeps nothing.
Commit(b) ==
  LET c == call[b] IN
  /\ c.pc = "commit"
  /\ \/ /\ rows' = rows \cup {[channel |-> c.channel, options |-> c.options, by |-> b]}
        /\ \E pc \in {"done", "failed"} : call' = [call EXCEPT ![b] = Empty(pc)]
     \/ /\ call' = [call EXCEPT ![b] = Empty("failed")]
        /\ UNCHANGED rows
  /\ UNCHANGED <<task, queue, stream, finished, page>>

------------------------------------------------------------------------------
Streaming(ch) == Render(ch) \/ Emit(ch) \/ ApiError(ch) \/ Finish(ch) \/ Raise(ch)
Responding == TakeToken \/ TakeDone \/ TakeError \/ Save \/ Tell \/ End

Next ==
  \/ Start
  \/ \E ch \in Channels : Streaming(ch)
  \/ Responding
  \/ Disconnect
  \/ \E b \in Calls : Generate(b) \/ Commit(b)

Spec == Init /\ [][Next]_vars

\* A request that came in is served; tasks and the generator run on the event
\* loop.  Nobody has to disconnect, or to call the blocking endpoint.
Fairness ==
  /\ WF_vars(Start)
  /\ \A ch \in Channels : WF_vars(Streaming(ch))
  /\ WF_vars(Responding)
  /\ \A b \in Calls : WF_vars(Commit(b))

FairSpec == Spec /\ Fairness

------------------------------------------------------------------------------
(* Properties.                                                             *)

Types == {"token", "done_raw", "error"}
Messages == [channel : Channels, type : Types, text : Seq(Tokens)]
Closed == {"refused", "ended", "broken", "cancelled"}

\* Type invariant.
TypeOK ==
  /\ \A ch \in Channels :
       /\ task[ch].pc \in {"idle", "render", "dead", "streaming", "finish", "over"}
       /\ task[ch].accumulated \in Seq(Tokens)
       /\ page[ch].tokens \in Seq(Tokens)
       /\ page[ch].end \in {"none", "done", "error"}
  /\ queue \in Seq(Messages)
  /\ stream.pc \in {"build", "loop", "save", "tell"} \cup Closed
  /\ stream.msg \in Messages \cup {NoMsg}
  /\ finished \in 0..Cardinality(Channels)
  /\ \A row \in rows : row.channel \in Channels /\ row.by \in Calls \cup {"stream"}
  /\ \A b \in Calls : call[b].pc \in {"idle", "commit", "done", "failed"}

\* The options that the done event gives the RM are those of its campaign, and
\* they are what the very tokens say that the RM saw arrive for the channel,
\* whatever the other channels put on the queue in between ("Campaign is saved
\* after all tokens are generated", outreach.py:166).
DoneDraftIsOfTheTokens ==
  \A ch \in Channels :
    page[ch].end = "done" =>
      /\ page[ch].draft = OptionsOf(page[ch].tokens)
      /\ [channel |-> ch, options |-> page[ch].draft, by |-> "stream"] \in rows

\* Every channel goes pending, saved, told, or pending, failed.
Draft(ch) ==
  CASE page[ch].end = "error" -> "failed"
    [] page[ch].end = "done" -> "told"
    [] page[ch].end = "none" ->
         IF \E row \in rows : row.channel = ch /\ row.by = "stream" THEN "saved" ELSE "pending"

Outcome == INSTANCE DraftOutcome WITH draft <- [ch \in Channels |-> Draft(ch)]

\* The stream implements what a request for drafts promises.
OutcomesHold == Outcome!Spec

\* A task that reported its end is heard, even when the task of another
\* channel died without a word or failed: only a broken or cut response
\* leaves a channel open.
ReportedDraftsAreShown ==
  \A ch \in Channels :
    task[ch].pc = "over" ~> (page[ch].end # "none" \/ stream.pc \in {"broken", "cancelled"})

\* The response ends, unless a prompt could not be rendered: its channel is
\* waited for until the RM gives up.
StreamEnds ==
  <>(stream.pc \in Closed \/ \E ch \in Channels : task[ch].pc = "dead")

==============================================================================
