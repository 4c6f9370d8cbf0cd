-------------------------- MODULE DraftStreamProofs --------------------------
(***************************************************************************)
(* DraftStream implements DraftOutcome, for any channels, calls and drafts *)
(* of the LLM: the end of a channel is reported once, and is handled once. *)
(* Its variables keep their types, and the options in a done event are     *)
(* those saved and those of the tokens that the page has shown.            *)
(***************************************************************************)
EXTENDS DraftStream, FiniteSetTheorems, TLAPS

------------------------------------------------------------------------------
(* Types, as far as the argument needs them.                               *)

TaskTyped ==
  /\ DOMAIN task = Channels
  /\ \A ch \in Channels : /\ DOMAIN task[ch] = {"pc", "accumulated"}
                          /\ task[ch].accumulated \in Seq(Tokens)

StreamTyped ==
  /\ DOMAIN stream = {"pc", "msg"}
  /\ stream.pc \in {"save", "tell"} => stream.msg \in Messages
  /\ stream.pc = "build" => \A ch \in Channels : task[ch].pc = "idle"

PageTyped ==
  /\ DOMAIN page = Channels
  /\ \A ch \in Channels : /\ DOMAIN page[ch] = {"tokens", "end", "draft"}
                          /\ page[ch].end \in {"none", "done", "error"}

CallTyped ==
  /\ DOMAIN call = Calls
  /\ \A b \in Calls : DOMAIN call[b] = {"pc", "channel", "options"}

Typed == TaskTyped /\ StreamTyped /\ PageTyped /\ CallTyped /\ queue \in Seq(Messages)

------------------------------------------------------------------------------
(* The end of a channel: reported once, on the queue, in hand, or handled. *)

IsEnd(i, ch) == queue[i].channel = ch /\ queue[i].type # "token"

Queued(ch) == \E i \in 1..Len(queue) : IsEnd(i, ch)

OneEnd(ch) == \A i, j \in 1..Len(queue) : IsEnd(i, ch) /\ IsEnd(j, ch) => i = j

InHand(ch) == stream.pc \in {"save", "tell"} /\ stream.msg.channel = ch

HasRow(ch) == \E row \in rows : row.channel = ch /\ row.by = "stream"

NotYet(ch) == page[ch].end = "none" /\ ~HasRow(ch)

Once(ch) ==
  /\ task[ch].pc # "over" => ~Queued(ch) /\ ~InHand(ch) /\ NotYet(ch)
  /\ OneEnd(ch)
  /\ Queued(ch) => ~InHand(ch) /\ NotYet(ch)
  /\ InHand(ch) /\ stream.pc = "save" => NotYet(ch)
  /\ InHand(ch) /\ stream.pc = "tell" => page[ch].end = "none" /\ HasRow(ch)

DraftInv == Typed /\ \A ch \in Channels : Once(ch)

\* A token on the queue is no end.
LEMMA AppendToken ==
  ASSUME queue \in Seq(Messages), NEW m \in Messages, m.type = "token", queue' = Append(queue, m),
         NEW ch \in Channels
  PROVE  /\ Queued(ch)' <=> Queued(ch)
         /\ OneEnd(ch) => OneEnd(ch)'
  <1>1. /\ Len(queue) \in Nat /\ Len(queue') = Len(queue) + 1
        /\ \A i \in 1..Len(queue) : queue'[i] = queue[i]
        /\ queue'[Len(queue) + 1] = m
    OBVIOUS
  <1>2. \A i \in 1..Len(queue') : IsEnd(i, ch)' => i \in 1..Len(queue)
    BY <1>1 DEF IsEnd
  <1>3. \A i \in 1..Len(queue) : i \in 1..Len(queue') /\ (IsEnd(i, ch)' <=> IsEnd(i, ch))
    BY <1>1 DEF IsEnd
  <1> QED  BY <1>2, <1>3 DEF Queued, OneEnd

\* The end of a channel that had none is the only one.
LEMMA AppendEnd ==
  ASSUME queue \in Seq(Messages), NEW m \in Messages, queue' = Append(queue, m),
         NEW ch \in Channels
  PROVE  /\ ch # m.channel => (Queued(ch)' <=> Queued(ch)) /\ (OneEnd(ch) => OneEnd(ch)')
         /\ ch = m.channel /\ ~Queued(ch) => OneEnd(ch)'
  <1>1. /\ Len(queue) \in Nat /\ Len(queue') = Len(queue) + 1
        /\ \A i \in 1..Len(queue) : queue'[i] = queue[i]
        /\ queue'[Len(queue) + 1] = m
    OBVIOUS
  <1>2. \A i \in 1..Len(queue) : i \in 1..Len(queue') /\ (IsEnd(i, ch)' <=> IsEnd(i, ch))
    BY <1>1 DEF IsEnd
  <1>3. \A i \in 1..Len(queue') : i \in 1..Len(queue) \/ i = Len(queue) + 1
    BY <1>1
  <1>4. CASE ch # m.channel
    <2>1. \A i \in 1..Len(queue') : IsEnd(i, ch)' => i \in 1..Len(queue)
      BY <1>1, <1>3, <1>4 DEF IsEnd
    <2> QED  BY <1>2, <1>4, <2>1 DEF Queued, OneEnd
  <1>5. ASSUME ~Queued(ch)  PROVE OneEnd(ch)'
    <2>1. \A i \in 1..Len(queue') : IsEnd(i, ch)' => i = Len(queue) + 1
      BY <1>2, <1>3, <1>5 DEF Queued
    <2> QED  BY <2>1 DEF OneEnd
  <1> QED  BY <1>4, <1>5

\* Taking a message off the queue; if it was an end, no other is left.
LEMMA TakeHead ==
  ASSUME queue \in Seq(Messages), queue # <<>>, queue' = Tail(queue), NEW ch \in Channels
  PROVE  /\ Queued(ch)' => Queued(ch)
         /\ OneEnd(ch) => OneEnd(ch)'
         /\ Head(queue).channel = ch /\ Head(queue).type # "token" =>
              Queued(ch) /\ (OneEnd(ch) => ~Queued(ch)')
         /\ Head(queue) \in Messages
         /\ queue' \in Seq(Messages)
  <1>1. /\ Len(queue) \in Nat /\ Len(queue) # 0 /\ Len(queue') = Len(queue) - 1
        /\ \A i \in 1..Len(queue') : queue'[i] = queue[i + 1]
        /\ Head(queue) = queue[1] /\ Head(queue) \in Messages /\ queue' \in Seq(Messages)
    OBVIOUS
  <1>2. \A i \in 1..Len(queue') : i + 1 \in 1..Len(queue) /\ (IsEnd(i, ch)' <=> IsEnd(i + 1, ch))
    BY <1>1 DEF IsEnd
  <1>3. Queued(ch)' => Queued(ch)  BY <1>2 DEF Queued
  <1>4. ASSUME OneEnd(ch)  PROVE OneEnd(ch)'
    <2>1. SUFFICES ASSUME NEW i \in 1..Len(queue'), NEW j \in 1..Len(queue'),
                          IsEnd(i, ch)', IsEnd(j, ch)'
                   PROVE  i = j
      BY DEF OneEnd
    <2>2. i + 1 = j + 1  BY <1>2, <1>4, <2>1 DEF OneEnd
    <2> QED  BY <2>2
  <1>5. ASSUME queue[1].channel = ch, queue[1].type # "token"
        PROVE  Queued(ch) /\ (OneEnd(ch) => ~Queued(ch)')
    <2>1. 1 \in 1..Len(queue) /\ IsEnd(1, ch)  BY <1>1, <1>5 DEF IsEnd
    <2>2. ASSUME OneEnd(ch), NEW i \in 1..Len(queue'), IsEnd(i, ch)'  PROVE FALSE
      <3>1. i + 1 = 1  BY <1>2, <2>1, <2>2 DEF OneEnd
      <3> QED  BY <3>1
    <2> QED  BY <2>1, <2>2 DEF Queued
  <1> QED  BY <1>1, <1>3, <1>4, <1>5

LEMMA DraftInit == Init => DraftInv
  <1> SUFFICES ASSUME Init  PROVE DraftInv
    OBVIOUS
  <1>1. <<>> \in Seq(Tokens) /\ <<>> \in Seq(Messages) /\ Len(<<>>) = 0  OBVIOUS
  <1>2. Typed
    <2>1. TaskTyped /\ PageTyped /\ CallTyped /\ queue \in Seq(Messages)
      BY <1>1 DEF Init, TaskTyped, PageTyped, CallTyped, Empty
    <2>2. StreamTyped  BY DEF Init, StreamTyped
    <2> QED  BY <2>1, <2>2 DEF Typed
  <1>3. ASSUME NEW ch \in Channels  PROVE Once(ch)
    <2>1. ~Queued(ch) /\ OneEnd(ch)
      <3>1. queue = <<>>  BY DEF Init
      <3>2. Len(queue) = 0  BY <1>1, <3>1
      <3>3. \A i \in 1..Len(queue) : FALSE  BY <3>2
      <3> QED  BY <3>3 DEF Queued, OneEnd
    <2>2. ~InHand(ch) /\ NotYet(ch)  BY DEF Init, InHand, NotYet, HasRow
    <2> QED  BY <2>1, <2>2 DEF Once
  <1> QED  BY <1>2, <1>3 DEF DraftInv

------------------------------------------------------------------------------
(* The steps.                                                              *)

LEMMA MsgTyped ==
  ASSUME NEW ch \in Channels, NEW type \in Types, NEW text \in Seq(Tokens)
  PROVE  Msg(ch, type, text) \in Messages /\ Msg(ch, type, text).channel = ch
           /\ Msg(ch, type, text).type = type
  BY DEF Msg, Messages

\* A task's step, with what it puts on the queue.
LEMMA TaskKeeps ==
  ASSUME DraftInv, NEW ch \in Channels, Streaming(ch)
  PROVE  DraftInv' /\ UNCHANGED <<page, rows>>
  <1>1. UNCHANGED gateway /\ task[ch].pc \in {"render", "streaming", "finish"}
    BY DEF Streaming, Render, Emit, ApiError, Finish, Raise
  <1>2. Typed /\ \A c \in Channels : Once(c)  BY DEF DraftInv
  <1>3. PageTyped' /\ CallTyped' /\ UNCHANGED <<page, rows, stream>>
    BY <1>1, <1>2 DEF gateway, Typed, PageTyped, CallTyped
  <1>4. /\ TaskTyped'
        /\ \A c \in Channels \ {ch} : task'[c] = task[c]
    <2>1. CASE Render(ch)
      BY <1>2, <2>1 DEF Render, Typed, TaskTyped
    <2>2. CASE Emit(ch)
      <3>1. PICK token \in Written :
              task' = [task EXCEPT ![ch].accumulated = Append(@, token)]
        BY <2>2 DEF Emit
      <3>2. Append(task[ch].accumulated, token) \in Seq(Tokens)
        BY <1>2 DEF Typed, TaskTyped, Tokens
      <3> QED  BY <1>2, <3>1, <3>2 DEF Typed, TaskTyped
    <2>3. CASE ApiError(ch)
      <3>1. Append(task[ch].accumulated, <<"apology">>) \in Seq(Tokens)
        BY <1>2 DEF Typed, TaskTyped, Tokens
      <3> QED  BY <1>2, <2>3, <3>1 DEF ApiError, Typed, TaskTyped
    <2>4. CASE Finish(ch)  BY <1>2, <2>4 DEF Finish, Typed, TaskTyped
    <2>5. CASE Raise(ch)  BY <1>2, <2>5 DEF Raise, Typed, TaskTyped
    <2> QED  BY <2>1, <2>2, <2>3, <2>4, <2>5 DEF Streaming
  <1>5. StreamTyped'
    BY <1>1, <1>2, <1>3 DEF Typed, StreamTyped
  <1>6. \A c \in Channels : /\ InHand(c)' <=> InHand(c)
                            /\ NotYet(c)' <=> NotYet(c)
                            /\ HasRow(c)' <=> HasRow(c)
    BY <1>3 DEF InHand, NotYet, HasRow
  <1>7. ~Queued(ch) /\ ~InHand(ch) /\ NotYet(ch)
    BY <1>1, <1>2 DEF Once
  <1>8. ASSUME UNCHANGED queue  PROVE DraftInv'
    <2>1. \A c \in Channels : (Queued(c)' <=> Queued(c)) /\ (OneEnd(c)' <=> OneEnd(c))
      BY <1>8 DEF Queued, OneEnd, IsEnd
    <2>2. ASSUME NEW c \in Channels  PROVE Once(c)'
      BY <1>2, <1>3, <1>4, <1>6, <1>7, <2>1 DEF Once
    <2> QED  BY <1>2, <1>3, <1>4, <1>5, <1>8, <2>2 DEF DraftInv, Typed
  <1>9. ASSUME NEW m \in Messages, m.channel = ch, queue' = Append(queue, m),
               m.type = "token" \/ task'[ch].pc = "over"
        PROVE  DraftInv'
    <2>1. queue' \in Seq(Messages) /\ queue \in Seq(Messages)  BY <1>2, <1>9 DEF Typed
    <2>2. ASSUME NEW c \in Channels  PROVE Once(c)'
      <3>1. CASE m.type = "token"
        <4>1. (Queued(c)' <=> Queued(c)) /\ (OneEnd(c) => OneEnd(c)')
          BY <1>9, <2>1, <3>1, AppendToken
        <4> QED  BY <1>2, <1>3, <1>4, <1>6, <1>7, <4>1 DEF Once
      <3>2. CASE task'[ch].pc = "over" /\ c = ch
        <4>1. OneEnd(c)'  BY <1>7, <1>9, <2>1, <3>2, AppendEnd
        <4> QED  BY <1>3, <1>6, <1>7, <3>2, <4>1 DEF Once
      <3>3. CASE c # ch
        <4>1. (Queued(c)' <=> Queued(c)) /\ (OneEnd(c) => OneEnd(c)')
          BY <1>9, <2>1, <3>3, AppendEnd
        <4> QED  BY <1>2, <1>3, <1>4, <1>6, <3>3, <4>1 DEF Once
      <3> QED  BY <1>9, <3>1, <3>2, <3>3
    <2> QED  BY <1>3, <1>4, <1>5, <2>1, <2>2 DEF DraftInv, Typed
  <1>10. CASE Render(ch)  BY <1>3, <1>8, <1>10 DEF Render
  <1>11. CASE Emit(ch)
    <2>1. PICK token \in Written : queue' = Append(queue, Msg(ch, "token", <<token>>))
      BY <1>11 DEF Emit, Put
    <2>2. <<token>> \in Seq(Tokens) /\ "token" \in Types  BY DEF Tokens, Types
    <2>3. PICK m \in Messages : m.channel = ch /\ m.type = "token" /\ queue' = Append(queue, m)
      BY <2>1, <2>2, MsgTyped
    <2> QED  BY <1>3, <1>9, <2>3
  <1>12. CASE ApiError(ch)
    <2>1. << <<"apology">> >> \in Seq(Tokens) /\ "token" \in Types  BY DEF Tokens, Types
    <2>2. PICK m \in Messages : m.channel = ch /\ m.type = "token" /\ queue' = Append(queue, m)
      BY <1>12, <2>1, MsgTyped DEF ApiError, Put
    <2> QED  BY <1>3, <1>9, <2>2
  <1>13. CASE Finish(ch) \/ Raise(ch)
    <2>1. PICK type \in Types, text \in Seq(Tokens) : queue' = Append(queue, Msg(ch, type, text))
      <3>1. task[ch].accumulated \in Seq(Tokens) /\ <<>> \in Seq(Tokens)
        BY <1>2 DEF Typed, TaskTyped
      <3>2. {"done_raw", "error"} \subseteq Types  BY DEF Types
      <3> QED  BY <1>13, <3>1, <3>2 DEF Finish, Raise, Put
    <2>2. PICK m \in Messages : m.channel = ch /\ queue' = Append(queue, m)
      BY <2>1, MsgTyped
    <2>3. task'[ch].pc = "over"
      BY <1>2, <1>13 DEF Finish, Raise, Typed, TaskTyped
    <2> QED  BY <1>3, <1>9, <2>2, <2>3
  <1> QED  BY <1>3, <1>10, <1>11, <1>12, <1>13 DEF Streaming

\* What a step of the generator, or of a call, does to a channel's draft.
Same(ch) == page'[ch].end = page[ch].end /\ (HasRow(ch)' <=> HasRow(ch))

\* The generator takes a message; an error is handled at once.
LEMMA TakeKeeps ==
  ASSUME DraftInv, TakeToken \/ TakeDone \/ TakeError
  PROVE  /\ DraftInv'
         /\ \/ \A c \in Channels : Same(c)
            \/ \E ch \in Channels : /\ NotYet(ch) /\ page'[ch].end = "error"
                                    /\ \A c \in Channels \ {ch} : Same(c)
  <1>0. PICK msg, ch : msg = Head(queue) /\ ch = msg.channel
    OBVIOUS
  <1>1. /\ stream.pc = "loop" /\ queue # <<>> /\ queue' = Tail(queue)
        /\ UNCHANGED <<task, rows, call>>
    BY DEF TakeToken, TakeDone, TakeError, Looking
  <1>2. Typed /\ \A c \in Channels : Once(c)  BY DEF DraftInv
  <1>3. ASSUME NEW c \in Channels
        PROVE  /\ Queued(c)' => Queued(c)
               /\ OneEnd(c)'
               /\ ch = c /\ msg.type # "token" => Queued(c) /\ ~Queued(c)'
    BY <1>0, <1>1, <1>2, TakeHead DEF Typed, Once
  <1>4. msg \in Messages /\ ch \in Channels /\ queue' \in Seq(Messages)
    <2>1. msg \in Messages /\ queue' \in Seq(Messages)  BY <1>0, <1>1, <1>2 DEF Typed
    <2> QED  BY <1>0, <2>1 DEF Messages
  <1>5. \A c \in Channels : HasRow(c)' <=> HasRow(c)  BY <1>1 DEF HasRow
  <1>6. TaskTyped' /\ CallTyped'  BY <1>1, <1>2 DEF Typed, TaskTyped, CallTyped
  <1>7. \A c \in Channels : ~InHand(c)  BY <1>1 DEF InHand
  <1>8. CASE TakeToken
    <2>1. /\ UNCHANGED stream /\ page' = [page EXCEPT ![ch].tokens = @ \o msg.text]
      BY <1>0, <1>8 DEF TakeToken
    <2>2. PageTyped' /\ \A c \in Channels : page'[c].end = page[c].end
      BY <1>2, <1>4, <2>1 DEF Typed, PageTyped
    <2>3. StreamTyped'  BY <1>1, <1>2, <2>1 DEF Typed, StreamTyped
    <2>4. ASSUME NEW c \in Channels  PROVE Once(c)'
      <3>1. ~InHand(c)'  BY <1>7, <2>1 DEF InHand
      <3>2. NotYet(c)' <=> NotYet(c)  BY <1>5, <2>2 DEF NotYet
      <3> QED  BY <1>1, <1>2, <1>3, <3>1, <3>2 DEF Once
    <2> QED  BY <1>4, <1>5, <1>6, <2>2, <2>3, <2>4 DEF DraftInv, Typed, Same
  <1>9. CASE TakeDone
    <2>1. UNCHANGED page /\ stream' = [pc |-> "save", msg |-> msg] /\ msg.type # "token"
      BY <1>0, <1>9 DEF TakeDone, Looking
    <2>2. stream'.pc = "save" /\ stream'.msg = msg /\ StreamTyped'
      BY <1>4, <2>1 DEF StreamTyped
    <2>3. PageTyped' /\ \A c \in Channels : NotYet(c)' <=> NotYet(c)
      BY <1>2, <1>5, <2>1 DEF Typed, PageTyped, NotYet
    <2>4. ASSUME NEW c \in Channels  PROVE Once(c)'
      <3>1. CASE c = ch
        <4>1. Queued(c) /\ ~Queued(c)' /\ OneEnd(c)'  BY <1>3, <2>1, <3>1
        <4>2. NotYet(c)' /\ task[c].pc = "over"  BY <1>2, <2>3, <4>1 DEF Once
        <4> QED  BY <1>1, <2>2, <4>1, <4>2 DEF Once
      <3>2. CASE c # ch
        <4>1. ~InHand(c)'  BY <1>0, <2>2, <3>2 DEF InHand
        <4> QED  BY <1>1, <1>2, <1>3, <2>3, <4>1 DEF Once
      <3> QED  BY <3>1, <3>2
    <2> QED  BY <1>4, <1>5, <1>6, <2>1, <2>2, <2>3, <2>4 DEF DraftInv, Typed, Same
  <1>10. CASE TakeError
    <2>1. UNCHANGED stream /\ page' = [page EXCEPT ![ch].end = "error"] /\ msg.type # "token"
      BY <1>0, <1>10 DEF TakeError, Looking
    <2>2. /\ PageTyped' /\ page'[ch].end = "error"
          /\ \A c \in Channels \ {ch} : page'[c].end = page[c].end
      BY <1>2, <1>4, <2>1 DEF Typed, PageTyped
    <2>3. StreamTyped'  BY <1>1, <1>2, <2>1 DEF Typed, StreamTyped
    <2>4. Queued(ch) /\ ~Queued(ch)'  BY <1>3, <1>4, <2>1
    <2>5. NotYet(ch) /\ task[ch].pc = "over"  BY <1>2, <1>4, <2>4 DEF Once
    <2>6. ASSUME NEW c \in Channels  PROVE Once(c)'
      <3>1. ~InHand(c)'  BY <1>7, <2>1 DEF InHand
      <3>2. CASE c = ch
        BY <1>1, <1>3, <2>4, <2>5, <3>1, <3>2 DEF Once
      <3>3. CASE c # ch
        <4>1. NotYet(c)' <=> NotYet(c)  BY <1>5, <2>2, <3>3 DEF NotYet
        <4> QED  BY <1>1, <1>2, <1>3, <3>1, <4>1 DEF Once
      <3> QED  BY <3>2, <3>3
    <2> QED  BY <1>4, <1>5, <1>6, <2>2, <2>3, <2>5, <2>6 DEF DraftInv, Typed, Same
  <1> QED  BY <1>8, <1>9, <1>10

\* What was reported is saved, and then shown.
LEMMA SaveKeeps ==
  ASSUME DraftInv, Save \/ Tell
  PROVE  /\ DraftInv'
         /\ \/ \A c \in Channels : Same(c)
            \/ \E ch \in Channels : /\ NotYet(ch) /\ HasRow(ch)' /\ page'[ch].end = "none"
                                    /\ \A c \in Channels \ {ch} : Same(c)
            \/ \E ch \in Channels : /\ page[ch].end = "none" /\ HasRow(ch) /\ page'[ch].end = "done"
                                    /\ \A c \in Channels \ {ch} : Same(c)
  <1>0. PICK ch : ch = stream.msg.channel
    OBVIOUS
  <1>1. UNCHANGED <<task, queue, call>> /\ stream.pc \in {"save", "tell"}
    BY DEF Save, Tell
  <1>2. Typed /\ \A c \in Channels : Once(c)  BY DEF DraftInv
  <1>3. ch \in Channels  BY <1>0, <1>1, <1>2 DEF Typed, StreamTyped, Messages
  <1>4. TaskTyped' /\ CallTyped' /\ queue' \in Seq(Messages)
    BY <1>1, <1>2 DEF Typed, TaskTyped, CallTyped
  <1>5. \A c \in Channels : (Queued(c)' <=> Queued(c)) /\ (OneEnd(c)' <=> OneEnd(c))
    BY <1>1 DEF Queued, OneEnd, IsEnd
  <1>6. InHand(ch) /\ \A c \in Channels \ {ch} : ~InHand(c)
    BY <1>0, <1>1 DEF InHand
  <1>7. task[ch].pc = "over" /\ ~Queued(ch)
    BY <1>2, <1>3, <1>6 DEF Once
  <1>8. CASE Save
    <2>1. /\ UNCHANGED page /\ stream.pc = "save"
          /\ DOMAIN stream' = {"pc", "msg"} /\ stream'.msg = stream.msg
          /\ stream'.pc \in {"tell", "broken"}
          /\ \/ UNCHANGED rows /\ stream'.pc = "broken"
             \/ \E o : rows' = rows \cup {[channel |-> ch, options |-> o, by |-> "stream"]}
      BY <1>0, <1>2, <1>8 DEF Save, Typed, StreamTyped
    <2>2. PageTyped' /\ StreamTyped'
      BY <1>2, <2>1 DEF Typed, PageTyped, StreamTyped
    <2>3. NotYet(ch)  BY <1>2, <1>3, <1>6, <2>1 DEF Once
    <2>4. \A c \in Channels \ {ch} : (HasRow(c)' <=> HasRow(c)) /\ (NotYet(c)' <=> NotYet(c))
      BY <2>1 DEF HasRow, NotYet
    <2>5. ASSUME NEW o, rows' = rows \cup {[channel |-> ch, options |-> o, by |-> "stream"]}
          PROVE  HasRow(ch)'
      <3> DEFINE r == [channel |-> ch, options |-> o, by |-> "stream"]
      <3>1. r \in rows' /\ r.channel = ch /\ r.by = "stream"  BY <2>5
      <3> HIDE DEF r
      <3> QED  BY <3>1 DEF HasRow
    <2>6. \A c \in Channels \ {ch} : ~InHand(c)'  BY <1>0, <2>1 DEF InHand
    <2>7. ASSUME NEW c \in Channels  PROVE Once(c)'
      <3>1. CASE c = ch
        <4>1. stream'.pc = "tell" => HasRow(ch)'  BY <2>1, <2>5
        <4> QED  BY <1>1, <1>2, <1>5, <1>7, <2>1, <2>3, <3>1, <4>1 DEF Once, NotYet
      <3>2. CASE c # ch
        BY <1>1, <1>2, <1>5, <2>4, <2>6, <3>2 DEF Once
      <3> QED  BY <3>1, <3>2
    <2>8. DraftInv'  BY <1>4, <2>2, <2>7 DEF DraftInv, Typed
    <2>9. CASE UNCHANGED rows
      BY <2>1, <2>8, <2>9 DEF Same, HasRow
    <2>10. CASE \E o : rows' = rows \cup {[channel |-> ch, options |-> o, by |-> "stream"]}
      <3>1. HasRow(ch)'  BY <2>5, <2>10
      <3> QED  BY <1>3, <2>1, <2>3, <2>4, <2>8, <3>1 DEF Same, NotYet
    <2> QED  BY <2>1, <2>9, <2>10
  <1>9. CASE Tell
    <2>1. /\ UNCHANGED rows /\ stream.pc = "tell"
          /\ stream' = [pc |-> "loop", msg |-> NoMsg]
          /\ page' = [page EXCEPT ![ch].end = "done", ![ch].draft = OptionsOf(stream.msg.text)]
      BY <1>0, <1>9 DEF Tell
    <2>2. /\ PageTyped' /\ page'[ch].end = "done"
          /\ \A c \in Channels \ {ch} : page'[c].end = page[c].end
      BY <1>2, <1>3, <2>1 DEF Typed, PageTyped
    <2>3. StreamTyped'  BY <2>1 DEF StreamTyped
    <2>4. page[ch].end = "none" /\ HasRow(ch)
      BY <1>2, <1>3, <1>6, <2>1 DEF Once
    <2>5. \A c \in Channels : ~InHand(c)' /\ (HasRow(c)' <=> HasRow(c))
      BY <2>1 DEF InHand, HasRow
    <2>6. ASSUME NEW c \in Channels  PROVE Once(c)'
      <3>1. CASE c = ch
        BY <1>1, <1>2, <1>5, <1>7, <2>5, <3>1 DEF Once
      <3>2. CASE c # ch
        <4>1. NotYet(c)' <=> NotYet(c)  BY <2>2, <2>5, <3>2 DEF NotYet
        <4> QED  BY <1>1, <1>2, <1>5, <2>5, <4>1 DEF Once
      <3> QED  BY <3>1, <3>2
    <2>7. DraftInv'  BY <1>4, <2>2, <2>3, <2>6 DEF DraftInv, Typed
    <2> QED  BY <1>3, <2>2, <2>4, <2>5, <2>7 DEF Same
  <1> QED  BY <1>8, <1>9

\* The steps that handle no end of a channel.
LEMMA OthersKeep ==
  ASSUME DraftInv,
         \/ Start \/ End \/ Disconnect
         \/ \E b \in Calls : Generate(b) \/ Commit(b)
         \/ UNCHANGED vars
  PROVE  DraftInv' /\ \A c \in Channels : Same(c)
  <1>1. Typed /\ \A c \in Channels : Once(c)  BY DEF DraftInv
  <1>2. UNCHANGED <<queue, page>>
    BY DEF Start, End, Disconnect, Generate, Commit, vars
  <1>3. PageTyped' /\ queue' \in Seq(Messages)
    BY <1>1, <1>2 DEF Typed, PageTyped
  <1>4. \A c \in Channels : (Queued(c)' <=> Queued(c)) /\ (OneEnd(c)' <=> OneEnd(c))
    BY <1>2 DEF Queued, OneEnd, IsEnd
  <1>5. \A c \in Channels : HasRow(c)' <=> HasRow(c)
    <2>1. CASE \E b \in Calls : Commit(b)
      <3>1. PICK b \in Calls : Commit(b)  BY <2>1
      <3>2. b # "stream"  BY ConstantsAssumption
      <3> QED  BY <3>1, <3>2 DEF Commit, HasRow
    <2>2. CASE UNCHANGED rows  BY <2>2 DEF HasRow
    <2> QED  BY <2>1, <2>2 DEF Start, End, Disconnect, Generate, vars
  <1>6. \A c \in Channels : Same(c) /\ (NotYet(c)' <=> NotYet(c))
    BY <1>2, <1>5 DEF Same, NotYet
  <1>7. CallTyped'
    <2>1. CASE UNCHANGED call  BY <1>1, <2>1 DEF Typed, CallTyped
    <2>2. ASSUME NEW b \in Calls, Generate(b)  PROVE CallTyped'
      BY <1>1, <2>2 DEF Typed, CallTyped, Generate, Empty
    <2>3. ASSUME NEW b \in Calls, Commit(b)  PROVE CallTyped'
      BY <1>1, <2>3 DEF Typed, CallTyped, Commit, Empty
    <2> QED  BY <2>1, <2>2, <2>3 DEF Start, End, Disconnect, vars
  <1>8. CASE UNCHANGED <<task, stream>>
    <2>1. TaskTyped' /\ StreamTyped'  BY <1>1, <1>8 DEF Typed, TaskTyped, StreamTyped
    <2>2. ASSUME NEW c \in Channels  PROVE Once(c)'
      <3>1. InHand(c)' <=> InHand(c)  BY <1>8 DEF InHand
      <3> QED  BY <1>1, <1>2, <1>4, <1>5, <1>6, <1>8, <3>1 DEF Once
    <2> QED  BY <1>3, <1>6, <1>7, <2>1, <2>2 DEF DraftInv, Typed
  <1>9. CASE UNCHANGED task /\ DOMAIN stream' = {"pc", "msg"} /\ stream'.pc \in {"ended", "cancelled", "refused"}
    <2>1. TaskTyped' /\ StreamTyped'  BY <1>1, <1>9 DEF Typed, TaskTyped, StreamTyped
    <2>2. ASSUME NEW c \in Channels  PROVE Once(c)'
      <3>1. ~InHand(c)'  BY <1>9 DEF InHand
      <3> QED  BY <1>1, <1>4, <1>6, <1>9, <3>1 DEF Once
    <2> QED  BY <1>3, <1>6, <1>7, <2>1, <2>2 DEF DraftInv, Typed
  <1>10. CASE /\ stream.pc = "build" /\ stream' = [stream EXCEPT !.pc = "loop"]
              /\ task' = [ch \in Channels |-> [pc |-> "render", accumulated |-> <<>>]]
    <2>1. DOMAIN stream' = {"pc", "msg"} /\ stream'.pc = "loop"
      BY <1>1, <1>10 DEF Typed, StreamTyped
    <2>2. TaskTyped'
      <3>1. <<>> \in Seq(Tokens)  OBVIOUS
      <3> QED  BY <1>10, <3>1 DEF TaskTyped
    <2>3. StreamTyped'  BY <2>1 DEF StreamTyped
    <2>4. ASSUME NEW c \in Channels  PROVE Once(c)'
      <3>1. ~InHand(c)'  BY <2>1 DEF InHand
      <3>2. task[c].pc = "idle"  BY <1>1, <1>10 DEF Typed, StreamTyped
      <3>3. ~Queued(c) /\ NotYet(c) /\ OneEnd(c)  BY <1>1, <3>2 DEF Once
      <3> QED  BY <1>4, <1>6, <3>1, <3>3 DEF Once
    <2> QED  BY <1>3, <1>6, <1>7, <2>2, <2>3, <2>4 DEF DraftInv, Typed
  <1>11. CASE Start
    <2>1. CASE stream' = [stream EXCEPT !.pc = "refused"] /\ UNCHANGED task
      BY <1>1, <1>9, <2>1 DEF Typed, StreamTyped
    <2> QED  BY <1>10, <1>11, <2>1 DEF Start
  <1>12. CASE End \/ Disconnect
    BY <1>1, <1>9, <1>12 DEF End, Disconnect, Typed, StreamTyped
  <1> QED  BY <1>8, <1>11, <1>12 DEF Generate, Commit, vars

------------------------------------------------------------------------------
(* The refinement.                                                         *)

Outcomes == [ch \in Channels |-> Draft(ch)]

\* A draft depends on what Same keeps.
LEMMA SameDraft ==
  ASSUME NEW c \in Channels, Same(c)
  PROVE  Draft(c)' = Draft(c)
  BY DEF Same, Draft, HasRow

LEMMA OnlyOneDraft ==
  ASSUME NEW ch \in Channels, \A c \in Channels \ {ch} : Same(c), NEW v, Draft(ch)' = v
  PROVE  Outcomes' = [Outcomes EXCEPT ![ch] = v]
  <1>1. \A c \in Channels \ {ch} : Draft(c)' = Draft(c)  BY SameDraft
  <1> QED  BY <1>1 DEF Outcomes

LEMMA RefineInit == Init => Outcome!Init
  <1> SUFFICES ASSUME Init  PROVE Outcomes = [ch \in Channels |-> "pending"]
    BY DEF Outcome!Init, Outcomes
  <1>1. \A ch \in Channels : page[ch].end = "none" /\ rows = {}  BY DEF Init
  <1>2. \A ch \in Channels : Draft(ch) = "pending"  BY <1>1 DEF Draft
  <1> QED  BY <1>2 DEF Outcomes

LEMMA RefineNext ==
  ASSUME DraftInv, [Next]_vars
  PROVE  DraftInv' /\ [Outcome!Next]_Outcomes
  <1>1. ASSUME \A c \in Channels : Same(c)  PROVE UNCHANGED Outcomes
    BY <1>1, SameDraft DEF Outcomes
  <1>2. ASSUME NEW ch \in Channels, NotYet(ch), page'[ch].end = "error",
               \A c \in Channels \ {ch} : Same(c)
        PROVE  Outcome!Next
    <2>1. Draft(ch) = "pending" /\ Draft(ch)' = "failed"
      BY <1>2 DEF NotYet, HasRow, Draft
    <2>2. Outcomes' = [Outcomes EXCEPT ![ch] = "failed"] /\ Outcomes[ch] = "pending"
      BY <1>2, <2>1, OnlyOneDraft DEF Outcomes
    <2> QED  BY <2>2 DEF Outcome!Next, Outcome!Fail, Outcomes
  <1>3. ASSUME NEW ch \in Channels, NotYet(ch), HasRow(ch)', page'[ch].end = "none",
               \A c \in Channels \ {ch} : Same(c)
        PROVE  Outcome!Next
    <2>1. Draft(ch) = "pending" /\ Draft(ch)' = "saved"
      BY <1>3 DEF NotYet, HasRow, Draft
    <2>2. Outcomes' = [Outcomes EXCEPT ![ch] = "saved"] /\ Outcomes[ch] = "pending"
      BY <1>3, <2>1, OnlyOneDraft DEF Outcomes
    <2> QED  BY <2>2 DEF Outcome!Next, Outcome!Save, Outcomes
  <1>4. ASSUME NEW ch \in Channels, page[ch].end = "none", HasRow(ch), page'[ch].end = "done",
               \A c \in Channels \ {ch} : Same(c)
        PROVE  Outcome!Next
    <2>1. Draft(ch) = "saved" /\ Draft(ch)' = "told"
      BY <1>4 DEF HasRow, Draft
    <2>2. Outcomes' = [Outcomes EXCEPT ![ch] = "told"] /\ Outcomes[ch] = "saved"
      BY <1>4, <2>1, OnlyOneDraft DEF Outcomes
    <2> QED  BY <2>2 DEF Outcome!Next, Outcome!Tell, Outcomes
  <1>5. CASE \E ch \in Channels : Streaming(ch)
    <2>1. DraftInv' /\ UNCHANGED <<page, rows>>  BY <1>5, TaskKeeps
    <2> QED  BY <1>1, <2>1 DEF Same, HasRow
  <1>6. CASE TakeToken \/ TakeDone \/ TakeError
    BY <1>1, <1>2, <1>6, TakeKeeps
  <1>7. CASE Save \/ Tell
    BY <1>1, <1>3, <1>4, <1>7, SaveKeeps
  <1>8. CASE \/ Start \/ End \/ Disconnect
             \/ \E b \in Calls : Generate(b) \/ Commit(b)
             \/ UNCHANGED vars
    BY <1>1, <1>8, OthersKeep
  <1> QED  BY <1>5, <1>6, <1>7, <1>8 DEF Next, Responding

\* A draft is committed before the RM's page calls it done, is called done
\* once, and is not called failed if it was saved (outreach.py:308-345): the
\* stream implements DraftOutcome.
THEOREM DraftsRefineOutcome == Spec => OutcomesHold
  <1>1. Init => DraftInv /\ Outcome!Init  BY DraftInit, RefineInit
  <1>2. DraftInv /\ [Next]_vars => DraftInv' /\ [Outcome!Next]_Outcomes  BY RefineNext
  <1> QED  BY <1>1, <1>2, PTL DEF Spec, OutcomesHold, Outcome!Spec, Outcomes

------------------------------------------------------------------------------
(* Types, in full, and the text of a draft.                                *)

\* m moves what the RM will have seen of ch from p to n tokens of acc; the end
\* of ch comes after all of them and carries them all.
Moves(m, p, n, acc, ch) ==
  IF m.channel = ch /\ m.type = "token"
  THEN n = p + 1 /\ m.text = <<acc[n]>>
  ELSE n = p /\ (m.channel = ch /\ m.type = "done_raw" => p = Len(acc) /\ m.text = acc)

\* What was shown, followed by what is on the queue q, is what was accumulated.
Track(q, shown, acc, ch) ==
  /\ \A i \in 1..Len(shown) : shown[i] = acc[i]
  /\ \E pos \in [1..(Len(q) + 1) -> 0..Len(acc)] :
       /\ pos[1] = Len(shown)
       /\ pos[Len(q) + 1] = Len(acc)
       /\ \A i \in 1..Len(q) : Moves(q[i], pos[i], pos[i + 1], acc, ch)

Row(ch, tokens) == [channel |-> ch, options |-> OptionsOf(tokens), by |-> "stream"]

TextOK(ch) ==
  /\ page[ch].tokens \in Seq(Tokens)
  /\ Track(queue, page[ch].tokens, task[ch].accumulated, ch)
  /\ InHand(ch) => /\ stream.msg.text = task[ch].accumulated
                   /\ page[ch].tokens = task[ch].accumulated
                   /\ stream.pc = "tell" => Row(ch, task[ch].accumulated) \in rows
  /\ page[ch].end = "done" => /\ task[ch].pc = "over"
                              /\ page[ch].tokens = task[ch].accumulated
                              /\ page[ch].draft = OptionsOf(task[ch].accumulated)
                              /\ Row(ch, task[ch].accumulated) \in rows

TaskOK(ch) ==
  /\ task[ch].pc \in {"idle", "render", "dead", "streaming", "finish", "over"}
  /\ task[ch].pc = "idle" => task[ch].accumulated = <<>>

CallOK(b) ==
  /\ call[b].pc \in {"idle", "commit", "done", "failed"}
  /\ call[b].pc = "commit" => call[b].channel \in Channels

RowOK(row) == row.channel \in Channels /\ row.by \in Calls \cup {"stream"}

Ended == {ch \in Channels : page[ch].end # "none"}

GatewayOK ==
  /\ stream.pc \in {"build", "loop", "save", "tell"} \cup Closed
  /\ stream.msg \in Messages \cup {NoMsg}
  /\ finished = Cardinality(Ended)
  /\ \A row \in rows : RowOK(row)

TextInv ==
  /\ \A ch \in Channels : TextOK(ch) /\ TaskOK(ch)
  /\ \A b \in Calls : CallOK(b)
  /\ GatewayOK

LEMMA TrackEmpty ==
  ASSUME NEW ch
  PROVE  Track(<<>>, <<>>, <<>>, ch)
  <1> DEFINE pos == [i \in 1..1 |-> 0]
  <1>1. Len(<<>>) = 0 /\ pos \in [1..(0 + 1) -> 0..0] /\ pos[1] = 0
    OBVIOUS
  <1> HIDE DEF pos
  <1> QED  BY <1>1 DEF Track

\* A message that moves on from all that was accumulated may be put.
LEMMA TrackAppend ==
  ASSUME NEW ch, NEW q \in Seq(Messages), NEW m \in Messages,
         NEW shown \in Seq(Tokens), NEW acc \in Seq(Tokens), NEW more \in Seq(Tokens),
         Track(q, shown, acc, ch),
         Len(more) >= Len(acc), \A i \in 1..Len(acc) : more[i] = acc[i],
         Moves(m, Len(acc), Len(more), more, ch),
         more = acc \/ \A i \in 1..Len(q) : ~(q[i].channel = ch /\ q[i].type = "done_raw")
  PROVE  Track(Append(q, m), shown, more, ch)
  <1>1. PICK pos \in [1..(Len(q) + 1) -> 0..Len(acc)] :
               /\ pos[1] = Len(shown)
               /\ pos[Len(q) + 1] = Len(acc)
               /\ \A i \in 1..Len(q) : Moves(q[i], pos[i], pos[i + 1], acc, ch)
    BY DEF Track
  <1> DEFINE r == Append(q, m)
             next == [i \in 1..(Len(q) + 2) |-> IF i = Len(q) + 2 THEN Len(more) ELSE pos[i]]
  <1>2. /\ Len(q) \in Nat /\ Len(acc) \in Nat /\ Len(more) \in Nat /\ Len(shown) \in Nat
        /\ Len(r) = Len(q) + 1 /\ r[Len(q) + 1] = m
        /\ \A i \in 1..Len(q) : r[i] = q[i]
    OBVIOUS
  <1>0. \A i \in 1..(Len(q) + 1) : /\ i \in 1..(Len(q) + 2) /\ i # Len(q) + 2
                                   /\ pos[i] \in 0..Len(acc)
    <2>1. \A i \in 1..(Len(q) + 1) : i \in 1..(Len(q) + 2) /\ i # Len(q) + 2  BY <1>2
    <2>2. \A i \in 1..(Len(q) + 1) : pos[i] \in 0..Len(acc)  OBVIOUS
    <2> QED  BY <2>1, <2>2
  <1>3. \A i \in 1..(Len(q) + 1) : next[i] = pos[i] /\ pos[i] \in 0..Len(acc)
    BY <1>0
  <1>4. next[Len(q) + 2] = Len(more) /\ next \in [1..(Len(r) + 1) -> 0..Len(more)]
    BY <1>2, <1>3
  <1> HIDE DEF r, next
  <1>5. ASSUME NEW i \in 1..Len(r)  PROVE Moves(r[i], next[i], next[i + 1], more, ch)
    <2>1. CASE i = Len(q) + 1
      <3>1. i \in 1..(Len(q) + 1) /\ i + 1 = Len(q) + 2  BY <1>2, <2>1
      <3>2. r[i] = m /\ next[i] = Len(acc) /\ next[i + 1] = Len(more)
        BY <1>1, <1>2, <1>3, <1>4, <2>1, <3>1
      <3> QED  BY <3>2
    <2>2. CASE i \in 1..Len(q)
      <3>1. r[i] = q[i] /\ next[i] = pos[i] /\ next[i + 1] = pos[i + 1]
        BY <1>2, <1>3, <2>2
      <3>2. Moves(q[i], pos[i], pos[i + 1], acc, ch)  BY <1>1, <2>2
      <3>3. pos[i] \in 0..Len(acc) /\ pos[i + 1] \in 0..Len(acc)  BY <1>2, <1>3, <2>2
      <3>4. pos[i + 1] = pos[i] + 1 => more[pos[i + 1]] = acc[pos[i + 1]]
        BY <1>2, <3>3
      <3>5. Moves(q[i], pos[i], pos[i + 1], more, ch)
        BY <2>2, <3>2, <3>4 DEF Moves
      <3> QED  BY <3>1, <3>5
    <2> QED  BY <1>2, <2>1, <2>2
  <1>6. \A i \in 1..Len(shown) : shown[i] = more[i]
    <2>1. Len(shown) <= Len(acc)  BY <1>1, <1>2, <1>3
    <2> QED  BY <1>2, <2>1 DEF Track
  <1>7. next[1] = Len(shown) /\ next[Len(r) + 1] = Len(more)
    BY <1>1, <1>2, <1>3, <1>4
  <1> QED  BY <1>4, <1>5, <1>6, <1>7 DEF Track, r

\* The head of the queue is shown next, or says that all was shown.
LEMMA TrackTail ==
  ASSUME NEW ch, NEW q \in Seq(Messages), q # <<>>, NEW m, m = Head(q),
         NEW shown \in Seq(Tokens), NEW acc \in Seq(Tokens), Track(q, shown, acc, ch)
  PROVE  /\ Len(shown) <= Len(acc)
         /\ m.channel = ch /\ m.type = "token" =>
              /\ shown # acc
              /\ shown \o m.text \in Seq(Tokens)
              /\ Track(Tail(q), shown \o m.text, acc, ch)
         /\ ~(m.channel = ch /\ m.type = "token") => Track(Tail(q), shown, acc, ch)
  <1>1. PICK pos \in [1..(Len(q) + 1) -> 0..Len(acc)] :
               /\ pos[1] = Len(shown)
               /\ pos[Len(q) + 1] = Len(acc)
               /\ \A i \in 1..Len(q) : Moves(q[i], pos[i], pos[i + 1], acc, ch)
    BY DEF Track
  <1> DEFINE r == Tail(q)
             next == [i \in 1..Len(q) |-> pos[i + 1]]
  <1>2. /\ Len(q) \in Nat \ {0} /\ Len(acc) \in Nat /\ Len(shown) \in Nat
        /\ Len(r) = Len(q) - 1 /\ q[1] = m
        /\ \A i \in 1..Len(r) : r[i] = q[i + 1]
    OBVIOUS
  <1>3. next \in [1..(Len(r) + 1) -> 0..Len(acc)]
    BY <1>2
  <1>4. \A i \in 1..Len(r) : /\ i + 1 \in 1..Len(q)
                             /\ next[i] = pos[i + 1] /\ next[i + 1] = pos[(i + 1) + 1]
    BY <1>2
  <1>5. next[1] = pos[2] /\ next[Len(r) + 1] = Len(acc)
    BY <1>1, <1>2
  <1>0. \A i \in 1..(Len(q) + 1) : pos[i] \in 0..Len(acc)
    OBVIOUS
  <1>6. Len(shown) <= Len(acc) /\ pos[2] \in 0..Len(acc)
    <2>1. 1 \in 1..(Len(q) + 1) /\ 2 \in 1..(Len(q) + 1)  BY <1>2
    <2>2. pos[1] \in 0..Len(acc) /\ pos[2] \in 0..Len(acc)  BY <1>0, <2>1
    <2> QED  BY <1>1, <1>2, <2>2
  <1> HIDE DEF r, next
  <1>7. \A i \in 1..Len(r) : Moves(r[i], next[i], next[i + 1], acc, ch)
    BY <1>1, <1>2, <1>4
  <1>8. Moves(m, Len(shown), pos[2], acc, ch)
    BY <1>1, <1>2
  <1>9. ASSUME NEW seen \in Seq(Tokens), Len(seen) = pos[2], \A i \in 1..Len(seen) : seen[i] = acc[i]
        PROVE  Track(r, seen, acc, ch)
    <2>1. next[1] = Len(seen)  BY <1>5, <1>9
    <2> QED  BY <1>3, <1>5, <1>7, <1>9, <2>1, Zenon DEF Track
  <1>10. ASSUME m.channel = ch, m.type = "token"
         PROVE  /\ shown # acc /\ shown \o m.text \in Seq(Tokens)
                /\ Track(r, shown \o m.text, acc, ch)
    <2>1. pos[2] = Len(shown) + 1 /\ m.text = <<acc[pos[2]]>>
      BY <1>8, <1>10 DEF Moves
    <2>2. acc[pos[2]] \in Tokens  BY <1>2, <1>6, <2>1
    <2> DEFINE t == acc[pos[2]]
               seen == shown \o <<t>>
    <2> HIDE DEF t
    <2>0. t \in Tokens /\ m.text = <<t>>  BY <2>1, <2>2 DEF t
    <2>3. /\ seen \in Seq(Tokens) /\ Len(seen) = Len(shown) + 1
          /\ \A i \in 1..Len(shown) : seen[i] = shown[i]
          /\ seen[Len(shown) + 1] = t
      BY <2>0
    <2> HIDE DEF seen
    <2>4. \A i \in 1..Len(seen) : seen[i] = acc[i]
      <3>1. \A i \in 1..Len(seen) : i \in 1..Len(shown) \/ i = Len(shown) + 1
        BY <1>2, <2>3
      <3>2. \A i \in 1..Len(shown) : seen[i] = acc[i]  BY <2>3 DEF Track
      <3>3. seen[Len(shown) + 1] = acc[Len(shown) + 1]  BY <2>1, <2>3 DEF t
      <3> QED  BY <3>1, <3>2, <3>3
    <2>5. Track(r, seen, acc, ch)  BY <1>9, <2>1, <2>3, <2>4
    <2>6. shown # acc  BY <1>2, <1>6, <2>1
    <2> QED  BY <2>0, <2>3, <2>5, <2>6 DEF seen
  <1>11. ASSUME ~(m.channel = ch /\ m.type = "token")  PROVE Track(r, shown, acc, ch)
    <2>1. Len(shown) = pos[2]  BY <1>8, <1>11 DEF Moves
    <2> QED  BY <1>9, <2>1 DEF Track
  <1>13. Track(Tail(q), shown, acc, ch) <=> Track(r, shown, acc, ch)  BY DEF r
  <1>14. m.channel = ch /\ m.type = "token" =>
           (Track(Tail(q), shown \o m.text, acc, ch) <=> Track(r, shown \o m.text, acc, ch))
    BY DEF r
  <1> QED  BY <1>6, <1>10, <1>11, <1>13, <1>14

\* When the head of the queue closes the text, all of it was shown.
LEMMA TrackDone ==
  ASSUME NEW ch, NEW q \in Seq(Messages), q # <<>>, Head(q).channel = ch, Head(q).type = "done_raw",
         NEW shown \in Seq(Tokens), NEW acc \in Seq(Tokens), Track(q, shown, acc, ch)
  PROVE  Head(q).text = acc /\ shown = acc
  <1>1. PICK pos \in [1..(Len(q) + 1) -> 0..Len(acc)] :
               /\ pos[1] = Len(shown)
               /\ \A i \in 1..Len(q) : Moves(q[i], pos[i], pos[i + 1], acc, ch)
    BY DEF Track
  <1>2. Len(q) \in Nat \ {0} /\ q[1] = Head(q) /\ 1 \in 1..Len(q)
    OBVIOUS
  <1>3. Moves(Head(q), Len(shown), pos[1 + 1], acc, ch)
    BY <1>1, <1>2
  <1>4. Head(q).text = acc /\ Len(shown) = Len(acc)  BY <1>3 DEF Moves
  <1>5. \A i \in 1..Len(shown) : shown[i] = acc[i]  BY DEF Track
  <1> QED  BY <1>4, <1>5

LEMMA TextInit == Init => TextInv
  <1> SUFFICES ASSUME Init  PROVE TextInv
    OBVIOUS
  <1>1. <<>> \in Seq(Tokens) /\ Len(<<>>) = 0 /\ \A i \in 1..0 : FALSE
    OBVIOUS
  <1>0. /\ task = [ch \in Channels |-> [pc |-> "idle", accumulated |-> <<>>]]
        /\ page = [ch \in Channels |-> [tokens |-> <<>>, end |-> "none", draft |-> NoDraft]]
        /\ queue = <<>> /\ stream = [pc |-> "build", msg |-> NoMsg] /\ finished = 0 /\ rows = {}
    BY Zenon DEF Init
  <1>2. ASSUME NEW ch \in Channels  PROVE TextOK(ch) /\ TaskOK(ch)
    <2>1. /\ task[ch].pc = "idle" /\ task[ch].accumulated = <<>>
          /\ page[ch].tokens = <<>> /\ page[ch].end = "none"
          /\ queue = <<>> /\ stream.pc = "build"
      BY <1>0, <1>2
    <2>2. Track(<<>>, <<>>, <<>>, ch)  BY TrackEmpty
    <2>3. TextOK(ch)  BY <1>1, <2>1, <2>2 DEF TextOK, InHand
    <2>4. TaskOK(ch)  BY <1>1, <2>1, ConstantsAssumption DEF TaskOK
    <2> QED  BY <2>3, <2>4
  <1>3. \A b \in Calls : CallOK(b)
    <2>1. \A b \in Calls : call[b].pc = "idle"  BY DEF Init, Empty
    <2> QED  BY <2>1 DEF CallOK
  <1>4. GatewayOK
    <2>1. Ended = {}  BY <1>0 DEF Ended
    <2>2. finished = Cardinality(Ended)  BY <1>0, <2>1, FS_EmptySet
    <2> QED  BY <1>0, <1>1, <2>2 DEF GatewayOK
  <1> QED  BY <1>2, <1>3, <1>4 DEF TextInv

\* A message that a task puts, with what it accumulated.
LEMMA PutKeepsText ==
  ASSUME DraftInv, TextInv, UNCHANGED gateway, NEW ch \in Channels,
         task[ch].pc \in {"streaming", "finish"},
         NEW m \in Messages, m.channel = ch, queue' = Append(queue, m),
         \A c \in Channels \ {ch} : task'[c] = task[c],
         task'[ch].pc \in {"streaming", "finish", "over"},
         NEW more \in Seq(Tokens), task'[ch].accumulated = more,
         more = task[ch].accumulated \/ \E t \in Tokens : more = Append(task[ch].accumulated, t),
         Moves(m, Len(task[ch].accumulated), Len(more), more, ch)
  PROVE  TextInv'
  <1>1. Typed /\ \A c \in Channels : Once(c)  BY DEF DraftInv
  <1>2. UNCHANGED <<stream, finished, page, rows, call>>  BY DEF gateway
  <1>3. queue \in Seq(Messages) /\ \A c \in Channels : task[c].accumulated \in Seq(Tokens)
    BY <1>1 DEF Typed, TaskTyped
  <1>4. ~Queued(ch) /\ ~InHand(ch) /\ NotYet(ch)
    BY <1>1 DEF Once
  <1>5. PICK acc \in Seq(Tokens) : acc = task[ch].accumulated
    BY <1>3
  <1>6. Len(more) >= Len(acc) /\ \A i \in 1..Len(acc) : more[i] = acc[i]
    <2>1. CASE more = acc  BY <2>1
    <2>2. ASSUME NEW t \in Tokens, more = Append(acc, t)
          PROVE  Len(more) >= Len(acc) /\ \A i \in 1..Len(acc) : more[i] = acc[i]
      BY <2>2
    <2> QED  BY <1>5, <2>1, <2>2
  <1>7. \A i \in 1..Len(queue) : ~(queue[i].channel = ch /\ queue[i].type = "done_raw")
    BY <1>4 DEF Queued, IsEnd
  <1>8. \A c \in Channels : page[c].tokens \in Seq(Tokens) /\ Track(queue, page[c].tokens, task[c].accumulated, c)
    BY DEF TextInv, TextOK
  <1>9. Track(Append(queue, m), page[ch].tokens, more, ch)
    <2>1. PICK shown \in Seq(Tokens) : shown = page[ch].tokens  BY <1>8
    <2>2. Track(queue, shown, acc, ch)  BY <1>5, <1>8, <2>1
    <2>3. Moves(m, Len(acc), Len(more), more, ch)  BY <1>5
    <2> QED  BY <1>3, <1>6, <1>7, <2>1, <2>2, <2>3, TrackAppend
  <1>10. ASSUME NEW c \in Channels, c # ch
         PROVE  Track(Append(queue, m), page[c].tokens, task[c].accumulated, c)
    <2>1. PICK old \in Seq(Tokens) : old = task[c].accumulated  BY <1>3
    <2>2. Moves(m, Len(old), Len(old), old, c)  BY <1>10 DEF Moves
    <2>3. Len(old) \in Nat /\ Len(old) >= Len(old) /\ \A i \in 1..Len(old) : old[i] = old[i]
      OBVIOUS
    <2> QED  BY <1>3, <1>8, <2>1, <2>2, <2>3, TrackAppend
  <1>11. ASSUME NEW c \in Channels  PROVE TextOK(c)' /\ TaskOK(c)'
    <2>1. InHand(c)' <=> InHand(c)  BY <1>2 DEF InHand
    <2>2. CASE c = ch
      <3>1. page'[ch].end = "none"  BY <1>2, <1>4 DEF NotYet
      <3>2. TextOK(c)'  BY <1>2, <1>4, <1>8, <1>9, <2>1, <2>2, <3>1 DEF TextOK
      <3>3. TaskOK(c)'  BY <2>2 DEF TaskOK
      <3> QED  BY <3>2, <3>3
    <2>3. CASE c # ch
      <3>1. TextOK(c) /\ TaskOK(c) /\ task'[c] = task[c]  BY <2>3 DEF TextInv
      <3>2. Track(queue', page'[c].tokens, task'[c].accumulated, c)
        BY <1>2, <1>10, <2>3, <3>1
      <3>3. TextOK(c)'  BY <1>2, <2>1, <3>1, <3>2 DEF TextOK
      <3>4. TaskOK(c)'  BY <3>1 DEF TaskOK
      <3> QED  BY <3>3, <3>4
    <2> QED  BY <2>2, <2>3
  <1>12. \A b \in Calls : CallOK(b)'  BY <1>2 DEF TextInv, CallOK
  <1>13. GatewayOK'
    <2>1. Ended' = Ended  BY <1>2 DEF Ended
    <2> QED  BY <1>2, <2>1 DEF TextInv, GatewayOK, RowOK
  <1> QED  BY <1>11, <1>12, <1>13 DEF TextInv

LEMMA MsgOf ==
  ASSUME NEW ch \in Channels, NEW type \in Types, NEW text \in Seq(Tokens)
  PROVE  /\ Msg(ch, type, text) \in Messages
         /\ Msg(ch, type, text).channel = ch /\ Msg(ch, type, text).type = type
         /\ Msg(ch, type, text).text = text
  BY DEF Msg, Messages

LEMMA TaskKeepsText ==
  ASSUME DraftInv, TextInv, NEW ch \in Channels, Streaming(ch)
  PROVE  TextInv'
  <1>1. UNCHANGED gateway  BY DEF Streaming, Render, Emit, ApiError, Finish, Raise
  <1>2. PICK acc \in Seq(Tokens) : acc = task[ch].accumulated
    BY DEF DraftInv, Typed, TaskTyped
  <1>3. DOMAIN task = Channels /\ DOMAIN task[ch] = {"pc", "accumulated"}
    BY DEF DraftInv, Typed, TaskTyped
  <1>4. TaskOK(ch) /\ Len(acc) \in Nat  BY DEF TextInv
  <1>5. CASE Render(ch)
    <2>1. /\ UNCHANGED <<queue, stream, finished, page, rows, call>>
          /\ task[ch].pc = "render"
          /\ task'[ch].pc \in {"streaming", "dead"}
          /\ \A c \in Channels : task'[c].accumulated = task[c].accumulated
          /\ \A c \in Channels \ {ch} : task'[c] = task[c]
      BY <1>3, <1>5 DEF Render, gateway
    <2>2. ASSUME NEW c \in Channels  PROVE TextOK(c)' /\ TaskOK(c)'
      <3>1. TextOK(c) /\ TaskOK(c)  BY DEF TextInv
      <3>2. task[c].pc = "over" => task'[c].pc = "over"  BY <2>1
      <3>3. InHand(c)' <=> InHand(c)  BY <2>1 DEF InHand
      <3>4. TextOK(c)'  BY <2>1, <3>1, <3>2, <3>3 DEF TextOK
      <3>5. TaskOK(c)'
        <4>1. CASE c = ch  BY <2>1, <3>1, <4>1 DEF TaskOK
        <4>2. CASE c # ch  BY <2>1, <3>1, <4>2 DEF TaskOK
        <4> QED  BY <4>1, <4>2
      <3> QED  BY <3>4, <3>5
    <2>3. \A b \in Calls : CallOK(b)'  BY <2>1 DEF TextInv, CallOK
    <2>4. Ended' = Ended  BY <2>1 DEF Ended
    <2>5. GatewayOK'  BY <2>1, <2>4 DEF TextInv, GatewayOK, RowOK
    <2> QED  BY <2>2, <2>3, <2>5 DEF TextInv
  <1>6. ASSUME NEW token \in Tokens, NEW pc \in {"streaming", "finish"}, task[ch].pc = "streaming",
               task'[ch].pc = pc, task'[ch].accumulated = Append(acc, token),
               \A c \in Channels \ {ch} : task'[c] = task[c],
               queue' = Append(queue, Msg(ch, "token", <<token>>))
        PROVE  TextInv'
    <2>0. Append(acc, token) \in Seq(Tokens)  OBVIOUS
    <2>1. PICK more \in Seq(Tokens) : more = Append(acc, token)  BY <2>0
    <2>2. Len(more) = Len(acc) + 1 /\ more[Len(more)] = token  BY <1>4, <2>1
    <2>3. <<token>> \in Seq(Tokens) /\ "token" \in Types
      BY DEF Types
    <2>4. PICK m \in Messages : /\ m.channel = ch /\ m.type = "token" /\ m.text = <<token>>
                               /\ queue' = Append(queue, m)
      <3>0. PICK type \in Types, text \in Seq(Tokens) : type = "token" /\ text = <<token>>
        BY <2>3
      <3> DEFINE m == Msg(ch, type, text)
      <3>1. m \in Messages /\ m.channel = ch /\ m.type = type /\ m.text = text
        BY MsgOf
      <3>2. queue' = Append(queue, m)  BY <1>6, <3>0
      <3> HIDE DEF m
      <3> QED  BY <3>0, <3>1, <3>2
    <2>5. Moves(m, Len(acc), Len(more), more, ch)  BY <2>2, <2>4 DEF Moves
    <2>6. task'[ch].pc = pc /\ task'[ch].accumulated = more
      BY <1>6, <2>1
    <2> QED  BY <1>1, <1>2, <1>6, <2>1, <2>4, <2>5, <2>6, PutKeepsText
  <1>7. CASE Emit(ch)
    <2>1. PICK token \in Written :
            /\ task' = [task EXCEPT ![ch].accumulated = Append(@, token)]
            /\ queue' = Append(queue, Msg(ch, "token", <<token>>))
      BY <1>7 DEF Emit, Put
    <2>2. task[ch].pc = "streaming"  BY <1>7 DEF Emit
    <2>3. /\ task'[ch].pc = "streaming" /\ task'[ch].accumulated = Append(acc, token)
          /\ \A c \in Channels \ {ch} : task'[c] = task[c]
      BY <1>2, <1>3, <2>1, <2>2
    <2> QED  BY <1>6, <2>1, <2>2, <2>3 DEF Tokens
  <1>8. CASE ApiError(ch)
    <2>1. /\ task[ch].pc = "streaming"
          /\ task'[ch].pc = "finish" /\ task'[ch].accumulated = Append(acc, <<"apology">>)
          /\ \A c \in Channels \ {ch} : task'[c] = task[c]
      BY <1>2, <1>3, <1>8 DEF ApiError
    <2>2. queue' = Append(queue, Msg(ch, "token", << <<"apology">> >>)) /\ <<"apology">> \in Tokens
      BY <1>8 DEF ApiError, Put, Tokens
    <2> QED  BY <1>6, <2>1, <2>2
  <1>9. ASSUME NEW type \in {"done_raw", "error"}, NEW text \in Seq(Tokens),
               task[ch].pc \in {"streaming", "finish"},
               task' = [task EXCEPT ![ch].pc = "over"],
               queue' = Append(queue, Msg(ch, type, text)),
               type = "done_raw" => text = acc
        PROVE  TextInv'
    <2>1. PICK m \in Messages : /\ m.channel = ch /\ m.type = type /\ m.text = text
                               /\ queue' = Append(queue, m)
      <3>1. type \in Types  BY DEF Types
      <3> QED  BY <1>9, <3>1, MsgOf
    <2>2. Moves(m, Len(acc), Len(acc), acc, ch)  BY <1>9, <2>1 DEF Moves
    <2>3. /\ task'[ch].pc = "over" /\ task'[ch].accumulated = acc
          /\ \A c \in Channels \ {ch} : task'[c] = task[c]
      BY <1>2, <1>3, <1>9
    <2> QED  BY <1>1, <1>2, <1>9, <2>1, <2>2, <2>3, PutKeepsText
  <1>10. CASE Finish(ch)  BY <1>2, <1>9, <1>10 DEF Finish, Put
  <1>11. CASE Raise(ch)
    <2>1. <<>> \in Seq(Tokens)  OBVIOUS
    <2> QED  BY <1>9, <1>11, <2>1 DEF Raise, Put
  <1> QED  BY <1>5, <1>7, <1>8, <1>10, <1>11 DEF Streaming

LEMMA EndedFinite ==
  ASSUME NEW ch \in Channels, GatewayOK, page[ch].end = "none",
         page'[ch].end # "none", \A c \in Channels \ {ch} : page'[c].end = page[c].end
  PROVE  Cardinality(Ended') = finished + 1
  <1>1. IsFiniteSet(Ended)  BY ConstantsAssumption, FS_Subset DEF Ended
  <1>2. Ended' = Ended \cup {ch} /\ ch \notin Ended  BY DEF Ended
  <1>3. Cardinality(Ended \cup {ch}) = Cardinality(Ended) + 1  BY <1>1, <1>2, FS_AddElement
  <1> QED  BY <1>2, <1>3 DEF GatewayOK

LEMMA TakeKeepsText ==
  ASSUME DraftInv, TextInv, TakeToken \/ TakeDone \/ TakeError
  PROVE  TextInv'
  <1>0. PICK msg, ch : msg = Head(queue) /\ ch = msg.channel
    OBVIOUS
  <1>1. /\ stream.pc = "loop" /\ queue # <<>> /\ queue' = Tail(queue)
        /\ UNCHANGED <<task, rows, call>>
    BY DEF TakeToken, TakeDone, TakeError, Looking
  <1>2. Typed /\ \A c \in Channels : Once(c)  BY DEF DraftInv
  <1>3. queue \in Seq(Messages) /\ Len(queue) \in Nat \ {0} /\ msg = queue[1] /\ msg \in Messages
    BY <1>0, <1>1, <1>2 DEF Typed
  <1>4. ch \in Channels  BY <1>0, <1>3 DEF Messages
  <1>6. ASSUME NEW c \in Channels
        PROVE  /\ task[c].accumulated \in Seq(Tokens) /\ page[c].tokens \in Seq(Tokens)
               /\ TextOK(c) /\ TaskOK(c) /\ TaskOK(c)'
    <2>1. TextOK(c) /\ TaskOK(c)  BY DEF TextInv
    <2> QED  BY <1>1, <1>2, <2>1 DEF Typed, TaskTyped, TextOK, TaskOK
  <1>7. ASSUME NEW c \in Channels
        PROVE  /\ c = ch /\ msg.type = "token" =>
                    /\ page[c].tokens # task[c].accumulated
                    /\ page[c].tokens \o msg.text \in Seq(Tokens)
                    /\ Track(queue', page[c].tokens \o msg.text, task[c].accumulated, c)
               /\ ~(c = ch /\ msg.type = "token") => Track(queue', page[c].tokens, task[c].accumulated, c)
               /\ c = ch /\ msg.type = "done_raw" =>
                    msg.text = task[c].accumulated /\ page[c].tokens = task[c].accumulated
    <2>1. PICK shown \in Seq(Tokens), acc \in Seq(Tokens) :
                 shown = page[c].tokens /\ acc = task[c].accumulated
      BY <1>6
    <2>2. Track(queue, shown, acc, c)  BY <1>6, <2>1 DEF TextOK
    <2>3. PICK q \in Seq(Messages), m \in Messages : q = queue /\ m = msg  BY <1>3
    <2>4. q # <<>> /\ m = Head(q) /\ Track(q, shown, acc, c)  BY <1>0, <1>1, <2>2, <2>3
    <2>5. queue' = Tail(q) /\ m.channel = ch  BY <1>0, <1>1, <2>3
    <2>6. ~(c = ch /\ m.type = "token") => Track(queue', shown, acc, c)
      BY <2>4, <2>5, TrackTail
    <2>7. c = ch /\ m.type = "token" => shown # acc
      BY <2>4, <2>5, TrackTail
    <2>8. c = ch /\ m.type = "token" => Track(queue', shown \o m.text, acc, c)
      BY <2>4, <2>5, TrackTail
    <2>9. c = ch /\ m.type = "token" => shown \o m.text \in Seq(Tokens)
      BY <2>4, <2>5, TrackTail
    <2>10. ASSUME c = ch, m.type = "done_raw"
           PROVE  m.text = acc /\ shown = acc
      <3>1. Head(q).channel = c /\ Head(q).type = "done_raw"  BY <2>4, <2>5, <2>10
      <3>2. Head(q).text = acc /\ shown = acc  BY <2>4, <3>1, TrackDone, Zenon
      <3> QED  BY <2>4, <3>2
    <2>11. shown = page[c].tokens /\ acc = task[c].accumulated /\ m = msg
      BY <2>1, <2>3
    <2> HIDE DEF Track
    <2> QED  BY <2>6, <2>7, <2>8, <2>9, <2>10, <2>11, Zenon
  <1>8. \A c \in Channels : ~InHand(c)  BY <1>1 DEF InHand
  <1>9. \A b \in Calls : CallOK(b)'  BY <1>1 DEF TextInv, CallOK
  <1>11. \A row \in rows' : RowOK(row)  BY <1>1 DEF TextInv, GatewayOK
  <1>12. DOMAIN page = Channels /\ \A c \in Channels : DOMAIN page[c] = {"tokens", "end", "draft"}
    BY <1>2 DEF Typed, PageTyped
  <1>13. CASE TakeToken
    <2>1. /\ UNCHANGED <<stream, finished>> /\ msg.type = "token"
          /\ page' = [page EXCEPT ![ch].tokens = @ \o msg.text]
      BY <1>0, <1>13 DEF TakeToken, Looking
    <2>2. /\ page'[ch].tokens = page[ch].tokens \o msg.text
          /\ \A c \in Channels : page'[c].end = page[c].end
          /\ \A c \in Channels \ {ch} : page'[c] = page[c]
      BY <1>4, <1>12, <2>1
    <2>3. ASSUME NEW c \in Channels  PROVE TextOK(c)'
      <3>1. ~InHand(c)'  BY <1>8, <2>1 DEF InHand
      <3>2. CASE c = ch
        <4>1. page[c].end # "done"  BY <1>6, <1>7, <2>1, <3>2 DEF TextOK
        <4> QED  BY <1>1, <1>7, <2>1, <2>2, <3>1, <3>2, <4>1 DEF TextOK
      <3>3. CASE c # ch
        <4>1. Track(queue', page'[c].tokens, task'[c].accumulated, c)
          BY <1>1, <1>7, <2>2, <3>3
        <4> QED  BY <1>1, <1>6, <2>2, <3>1, <3>3, <4>1 DEF TextOK
      <3> QED  BY <3>2, <3>3
    <2>4. Ended' = Ended  BY <2>2 DEF Ended
    <2>5. GatewayOK'  BY <1>11, <2>1, <2>4 DEF TextInv, GatewayOK
    <2> QED  BY <1>6, <1>9, <2>3, <2>5 DEF TextInv
  <1>14. CASE TakeDone
    <2>1. /\ UNCHANGED <<page, finished>> /\ msg.type = "done_raw"
          /\ stream'.pc = "save" /\ stream'.msg = msg
      BY <1>0, <1>14 DEF TakeDone, Looking
    <2>2. ASSUME NEW c \in Channels  PROVE TextOK(c)'
      <3>1. Track(queue', page'[c].tokens, task'[c].accumulated, c)
        BY <1>1, <1>7, <2>1
      <3>2. CASE c = ch
        <4>1. stream'.msg.text = task'[c].accumulated /\ page'[c].tokens = task'[c].accumulated
          BY <1>1, <1>7, <2>1, <3>2
        <4> QED  BY <1>1, <1>6, <2>1, <3>1, <4>1 DEF TextOK
      <3>3. CASE c # ch
        <4>1. ~InHand(c)'  BY <1>0, <2>1, <3>3 DEF InHand
        <4> QED  BY <1>1, <1>6, <2>1, <3>1, <4>1 DEF TextOK
      <3> QED  BY <3>2, <3>3
    <2>3. Ended' = Ended  BY <2>1 DEF Ended
    <2>4. GatewayOK'  BY <1>3, <1>11, <2>1, <2>3 DEF TextInv, GatewayOK
    <2> QED  BY <1>6, <1>9, <2>2, <2>4 DEF TextInv
  <1>15. CASE TakeError
    <2>1. /\ UNCHANGED stream /\ finished' = finished + 1 /\ msg.type = "error"
          /\ page' = [page EXCEPT ![ch].end = "error"]
      BY <1>0, <1>15 DEF TakeError, Looking
    <2>2. /\ page'[ch].end = "error"
          /\ \A c \in Channels : /\ page'[c].tokens = page[c].tokens
                                /\ page'[c].draft = page[c].draft
          /\ \A c \in Channels \ {ch} : page'[c].end = page[c].end
      BY <1>4, <1>12, <2>1
    <2>3. ASSUME NEW c \in Channels  PROVE TextOK(c)'
      <3>1. Track(queue', page'[c].tokens, task'[c].accumulated, c)
        BY <1>1, <1>7, <2>1, <2>2
      <3>2. ~InHand(c)'  BY <1>8, <2>1 DEF InHand
      <3>3. page'[c].end = "done" => page[c].end = "done"  BY <2>2
      <3> QED  BY <1>1, <1>6, <2>2, <3>1, <3>2, <3>3 DEF TextOK
    <2>4. page[ch].end = "none"
      <3>1. Queued(ch)
        <4>1. IsEnd(1, ch) /\ 1 \in 1..Len(queue)  BY <1>0, <1>3, <2>1 DEF IsEnd
        <4> QED  BY <4>1 DEF Queued
      <3> QED  BY <1>2, <1>4, <3>1 DEF Once, NotYet
    <2>5. Cardinality(Ended') = finished + 1
      BY <1>4, <2>2, <2>4, EndedFinite DEF TextInv
    <2>6. GatewayOK'  BY <1>11, <2>1, <2>5 DEF TextInv, GatewayOK
    <2> QED  BY <1>6, <1>9, <2>3, <2>6 DEF TextInv
  <1> QED  BY <1>13, <1>14, <1>15

LEMMA SaveKeepsText ==
  ASSUME DraftInv, TextInv, Save \/ Tell
  PROVE  TextInv'
  <1>0. PICK ch : ch = stream.msg.channel
    OBVIOUS
  <1>1. UNCHANGED <<task, queue, call>> /\ stream.pc \in {"save", "tell"}
    BY DEF Save, Tell
  <1>2. Typed /\ \A c \in Channels : Once(c)  BY DEF DraftInv
  <1>3. ch \in Channels  BY <1>0, <1>1, <1>2 DEF Typed, StreamTyped, Messages
  <1>4. InHand(ch) /\ \A c \in Channels \ {ch} : ~InHand(c)
    BY <1>0, <1>1 DEF InHand
  <1>5. \A c \in Channels : TextOK(c) /\ TaskOK(c) /\ TaskOK(c)'
    BY <1>1 DEF TextInv, TaskOK
  <1>6. PICK acc \in Seq(Tokens) : acc = task[ch].accumulated
    BY <1>2, <1>3 DEF Typed, TaskTyped
  <1>7. stream.msg.text = acc /\ page[ch].tokens = acc /\ task[ch].pc = "over"
    BY <1>2, <1>3, <1>4, <1>5, <1>6 DEF TextOK, Once
  <1>8. \A b \in Calls : CallOK(b)'  BY <1>1 DEF TextInv, CallOK
  <1>9. CASE Save
    <2>1. /\ UNCHANGED <<page, finished>> /\ stream.pc = "save"
          /\ stream'.msg = stream.msg /\ stream'.pc \in {"tell", "broken"}
          /\ \/ UNCHANGED rows /\ stream'.pc = "broken"
             \/ rows' = rows \cup {Row(ch, acc)}
      BY <1>0, <1>2, <1>7, <1>9 DEF Save, Typed, StreamTyped, Row
    <2>2. ASSUME NEW c \in Channels  PROVE TextOK(c)'
      <3>1. Track(queue', page'[c].tokens, task'[c].accumulated, c) /\ page'[c].tokens \in Seq(Tokens)
        BY <1>1, <1>5, <2>1 DEF TextOK
      <3>2. page'[c].end = "done" => /\ task'[c].pc = "over"
                                     /\ page'[c].tokens = task'[c].accumulated
                                     /\ page'[c].draft = OptionsOf(task'[c].accumulated)
                                     /\ Row(c, task'[c].accumulated) \in rows'
        BY <1>1, <1>5, <2>1 DEF TextOK
      <3>3. CASE c = ch
        <4>1. stream'.pc = "tell" => Row(c, task'[c].accumulated) \in rows'
          BY <1>1, <1>6, <2>1, <3>3
        <4> QED  BY <1>1, <1>6, <1>7, <2>1, <3>1, <3>2, <3>3, <4>1 DEF TextOK
      <3>4. CASE c # ch
        <4>1. ~InHand(c)'  BY <1>0, <2>1, <3>4 DEF InHand
        <4> QED  BY <3>1, <3>2, <4>1 DEF TextOK
      <3> QED  BY <3>3, <3>4
    <2>3. RowOK(Row(ch, acc))  BY <1>3 DEF RowOK, Row
    <2>4. Ended' = Ended  BY <2>1 DEF Ended
    <2>5. GatewayOK'
      <3>1. \A row \in rows' : RowOK(row)  BY <2>1, <2>3 DEF TextInv, GatewayOK
      <3>2. stream'.pc \in {"build", "loop", "save", "tell"} \cup Closed  BY <2>1 DEF Closed
      <3> QED  BY <1>1, <2>1, <2>4, <3>1, <3>2 DEF TextInv, GatewayOK
    <2> QED  BY <1>5, <1>8, <2>2, <2>5 DEF TextInv
  <1>10. CASE Tell
    <2>1. /\ UNCHANGED rows /\ stream.pc = "tell" /\ finished' = finished + 1
          /\ stream'.pc = "loop" /\ stream'.msg = NoMsg
          /\ page' = [page EXCEPT ![ch].end = "done", ![ch].draft = OptionsOf(stream.msg.text)]
      BY <1>0, <1>10 DEF Tell
    <2>2. /\ page'[ch].end = "done"
          /\ page'[ch].draft = OptionsOf(acc)
          /\ \A c \in Channels : page'[c].tokens = page[c].tokens
          /\ \A c \in Channels \ {ch} : page'[c] = page[c]
      BY <1>2, <1>3, <1>7, <2>1 DEF Typed, PageTyped
    <2>3. page[ch].end = "none" /\ Row(ch, acc) \in rows
      BY <1>2, <1>3, <1>4, <1>5, <1>6, <2>1 DEF Once, TextOK
    <2>4. ASSUME NEW c \in Channels  PROVE TextOK(c)'
      <3>1. Track(queue', page'[c].tokens, task'[c].accumulated, c) /\ page'[c].tokens \in Seq(Tokens)
        BY <1>1, <1>5, <2>2 DEF TextOK
      <3>2. ~InHand(c)'  BY <2>1 DEF InHand
      <3>3. CASE c = ch
        BY <1>1, <1>6, <1>7, <2>1, <2>2, <2>3, <3>1, <3>2, <3>3 DEF TextOK
      <3>4. CASE c # ch
        BY <1>1, <1>5, <2>1, <2>2, <3>1, <3>2, <3>4 DEF TextOK
      <3> QED  BY <3>3, <3>4
    <2>5. Cardinality(Ended') = finished + 1
      BY <1>3, <2>2, <2>3, EndedFinite DEF TextInv
    <2>6. GatewayOK'  BY <1>1, <2>1, <2>5 DEF TextInv, GatewayOK
    <2> QED  BY <1>5, <1>8, <2>4, <2>6 DEF TextInv
  <1> QED  BY <1>9, <1>10

LEMMA OthersKeepText ==
  ASSUME DraftInv, TextInv,
         \/ Start \/ End \/ Disconnect
         \/ \E b \in Calls : Generate(b) \/ Commit(b)
         \/ UNCHANGED vars
  PROVE  TextInv'
  <1>1. Typed /\ \A c \in Channels : Once(c) /\ TextOK(c) /\ TaskOK(c)
    BY DEF DraftInv, TextInv
  <1>2. UNCHANGED <<queue, page, finished>>
    BY DEF Start, End, Disconnect, Generate, Commit, vars
  <1>3. Ended' = Ended  BY <1>2 DEF Ended
  <1>4. rows \subseteq rows' /\ \A row \in rows' : RowOK(row)
    <2>1. CASE UNCHANGED rows  BY <2>1 DEF TextInv, GatewayOK
    <2>2. ASSUME NEW b \in Calls, Commit(b)  PROVE rows \subseteq rows' /\ \A row \in rows' : RowOK(row)
      <3>1. call[b].channel \in Channels
        BY <2>2 DEF Commit, TextInv, CallOK
      <3> DEFINE r == [channel |-> call[b].channel, options |-> call[b].options, by |-> b]
      <3>2. RowOK(r)  BY <3>1 DEF RowOK
      <3>3. rows' = rows \cup {r} \/ UNCHANGED rows  BY <2>2 DEF Commit
      <3> HIDE DEF r
      <3> QED  BY <3>2, <3>3 DEF TextInv, GatewayOK
    <2> QED  BY <2>1, <2>2 DEF Start, End, Disconnect, Generate, vars
  <1>5. \A b \in Calls : CallOK(b)'
    <2>1. CASE UNCHANGED call  BY <2>1 DEF TextInv, CallOK
    <2>2. ASSUME NEW b \in Calls, Generate(b)  PROVE \A d \in Calls : CallOK(d)'
      <3>1. /\ call'[b].pc \in {"failed", "commit"}
            /\ call'[b].pc = "commit" => call'[b].channel \in Channels
            /\ \A d \in Calls \ {b} : call'[d] = call[d]
        BY <1>1, <2>2 DEF Generate, Empty, Typed, CallTyped
      <3> QED  BY <3>1 DEF TextInv, CallOK
    <2>3. ASSUME NEW b \in Calls, Commit(b)  PROVE \A d \in Calls : CallOK(d)'
      <3>1. call'[b].pc \in {"done", "failed"} /\ \A d \in Calls \ {b} : call'[d] = call[d]
        BY <1>1, <2>3 DEF Commit, Empty, Typed, CallTyped
      <3> QED  BY <3>1 DEF TextInv, CallOK
    <2> QED  BY <2>1, <2>2, <2>3 DEF Start, End, Disconnect, vars
  <1>6. /\ DOMAIN stream = {"pc", "msg"} /\ stream'.msg = stream.msg
        /\ UNCHANGED stream \/ stream'.pc \in {"refused", "loop", "ended", "cancelled"}
    BY <1>1 DEF Start, End, Disconnect, Generate, Commit, vars, Typed, StreamTyped
  <1>7. GatewayOK'
    <2>1. stream'.pc \in {"build", "loop", "save", "tell"} \cup Closed
      BY <1>6 DEF TextInv, GatewayOK, Closed
    <2> QED  BY <1>2, <1>3, <1>4, <1>6, <2>1 DEF TextInv, GatewayOK
  <1>8. ASSUME NEW c \in Channels
        PROVE  /\ task'[c].accumulated = task[c].accumulated
               /\ task[c].pc = "over" => task'[c].pc = "over"
               /\ TaskOK(c)'
    <2>1. CASE UNCHANGED task  BY <1>1, <2>1 DEF TaskOK
    <2>2. CASE stream.pc = "build" /\ task' = [d \in Channels |-> [pc |-> "render", accumulated |-> <<>>]]
      <3>1. task[c].pc = "idle"  BY <1>1, <2>2 DEF Typed, StreamTyped
      <3>2. task[c].accumulated = <<>>  BY <1>1, <3>1 DEF TaskOK
      <3>3. task'[c].pc = "render" /\ task'[c].accumulated = <<>> /\ Len(<<>>) = 0
        BY <2>2
      <3> QED  BY <3>1, <3>2, <3>3, ConstantsAssumption DEF TaskOK
    <2> QED  BY <2>1, <2>2 DEF Start, End, Disconnect, Generate, Commit, vars
  <1>9. ASSUME NEW c \in Channels  PROVE TextOK(c)'
    <2>1. InHand(c)' => InHand(c) /\ stream'.pc = stream.pc  BY <1>6 DEF InHand
    <2>2. Row(c, task'[c].accumulated) = Row(c, task[c].accumulated)  BY <1>8
    <2> QED  BY <1>1, <1>2, <1>4, <1>6, <1>8, <2>1, <2>2 DEF TextOK
  <1> QED  BY <1>5, <1>7, <1>8, <1>9 DEF TextInv

LEMMA TextNext == DraftInv /\ TextInv /\ [Next]_vars => TextInv'
  <1> SUFFICES ASSUME DraftInv, TextInv, [Next]_vars  PROVE TextInv'
    OBVIOUS
  <1>1. CASE \E ch \in Channels : Streaming(ch)  BY <1>1, TaskKeepsText
  <1>2. CASE TakeToken \/ TakeDone \/ TakeError  BY <1>2, TakeKeepsText
  <1>3. CASE Save \/ Tell  BY <1>3, SaveKeepsText
  <1>4. CASE \/ Start \/ End \/ Disconnect
             \/ \E b \in Calls : Generate(b) \/ Commit(b)
             \/ UNCHANGED vars
    BY <1>4, OthersKeepText
  <1> QED  BY <1>1, <1>2, <1>3, <1>4 DEF Next, Responding

LEMMA DraftsAlwaysOK == Spec => [](DraftInv /\ TextInv)
  <1>1. Init => DraftInv /\ TextInv  BY DraftInit, TextInit
  <1>2. DraftInv /\ TextInv /\ [Next]_vars => (DraftInv /\ TextInv)'
    BY RefineNext, TextNext
  <1> QED  BY <1>1, <1>2, PTL DEF Spec

\* Every message is about a channel that was asked for and holds what the LLM
\* may write, the end of a draft is known of every channel or not at all, and
\* no channel is counted as finished twice.
THEOREM TypeCorrect == Spec => []TypeOK
  <1>1. ASSUME DraftInv, TextInv  PROVE TypeOK
    <2>1. ASSUME NEW ch \in Channels
          PROVE  /\ task[ch].pc \in {"idle", "render", "dead", "streaming", "finish", "over"}
                 /\ task[ch].accumulated \in Seq(Tokens)
                 /\ page[ch].tokens \in Seq(Tokens)
                 /\ page[ch].end \in {"none", "done", "error"}
      BY <1>1 DEF DraftInv, Typed, TaskTyped, PageTyped, TextInv, TextOK, TaskOK
    <2>2. queue \in Seq(Messages)  BY <1>1 DEF DraftInv, Typed
    <2>3. finished \in 0..Cardinality(Channels)
      <3>1. IsFiniteSet(Channels) /\ Ended \subseteq Channels
        BY ConstantsAssumption DEF Ended
      <3>2. /\ IsFiniteSet(Ended) /\ Cardinality(Ended) <= Cardinality(Channels)
            /\ Cardinality(Ended) \in Nat /\ Cardinality(Channels) \in Nat
        BY <3>1, FS_Subset, FS_CardinalityType
      <3> QED  BY <1>1, <3>2 DEF TextInv, GatewayOK
    <2>4. \A b \in Calls : call[b].pc \in {"idle", "commit", "done", "failed"}
      BY <1>1 DEF TextInv, CallOK
    <2>5. GatewayOK  BY <1>1 DEF TextInv
    <2> QED  BY <2>1, <2>2, <2>3, <2>4, <2>5 DEF TypeOK, GatewayOK, RowOK
  <1> QED  BY <1>1, DraftsAlwaysOK, PTL

\* The options that a channel's done event gives the RM are those of the
\* campaign that is in the database, and those that the tokens make which the
\* RM saw arrive for the channel, whatever the tasks of the other channels put
\* on the queue in between (outreach.py:166, 274-330).
THEOREM DoneIsOfTheTokens == Spec => []DoneDraftIsOfTheTokens
  <1>1. ASSUME TextInv  PROVE DoneDraftIsOfTheTokens
    <2>1. ASSUME NEW ch \in Channels, page[ch].end = "done"
          PROVE  /\ page[ch].draft = OptionsOf(page[ch].tokens)
                 /\ Row(ch, page[ch].tokens) \in rows
      BY <1>1, <2>1 DEF TextInv, TextOK
    <2> QED  BY <2>1 DEF DoneDraftIsOfTheTokens, Row
  <1> QED  BY <1>1, DraftsAlwaysOK, PTL

==============================================================================
