------------------------------ MODULE Playground ------------------------------
(***************************************************************************)
(* The playground page of the web interface (features/playground): the     *)
(* conversation a user edits, the stream or request that answers it        *)
(* (use-chat-handler.ts, use-stream-request.ts), and the copy kept in the  *)
(* browser's local storage (use-playground-state.ts, storage.ts).          *)
(*                                                                         *)
(* JavaScript runs one callback at a time, so a step is one callback: a    *)
(* click, an event of the stream, the continuation of an await, a timer.   *)
(* What a click handler knows of the conversation is what React rendered   *)
(* last (view): updates made outside clicks are rendered by a step of      *)
(* their own, the updates of a click before the next click.                *)
(*                                                                         *)
(* sse.js is external: it delivers the events of a source in order, and    *)
(* none that the page handles once close() was called on the source.       *)
(* Text is abstract: a sequence of words, of any content and any division  *)
(* into parts.                                                             *)
(***************************************************************************)
EXTENDS Integers, Sequences, FiniteSets, SequencesExt

CONSTANTS
  Words,        \* what answers are made of
  Parts,        \* the pieces of text a server may send
  Written,      \* text of the user or of the page itself
  MaxKeys,      \* bound on the messages created
  MaxChunks,    \* bound on the chunks that open pages receive
  MaxStored,    \* MAX_STORED_MESSAGES
  MaxLeaves     \* bound on how often the page is left

ASSUME PlaygroundAssumption ==
  /\ MaxKeys \in Nat /\ MaxChunks \in Nat /\ MaxLeaves \in Nat
  /\ MaxStored \in Nat \ {0}
  /\ Parts \subseteq Seq(Words) \ {<<>>}

None == 0
Keys == 1 .. MaxKeys

Statuses == {"none", "loading", "streaming", "complete", "error"}

VARIABLES
  stream,       \* config.stream
  open,         \* the page is mounted
  messages,     \* the conversation, every queued update applied
  view,         \* the conversation and the flags last rendered
  editing,      \* editingMessageKey
  lastKey,      \* keys handed out so far (nanoid)
  sse,          \* sseSourceRef: key of the message its source answers
  sources,      \* sources that have not been closed
  pending,      \* pendingStreamChunksRef
  flushTimer,   \* streamFlushTimerRef is set
  isRequesting,
  requests,     \* sendChatCompletion calls that have not returned
  requestId,    \* requestIdRef
  abortCtl,     \* abortControllerRef: the request it aborts
  loaded,       \* hasLoadedMessagesRef
  saveTimer,    \* messagesSaveTimerRef is set
  stored,       \* the conversation in local storage
  apart,        \* storage is not what the page last read or wrote (history)
  hasty,        \* a message was sent, or an edit applied, at a moment no
                \* guard covers (history; see Send and ApplyEdit)
  leaves,
  abandoned,    \* answers still being received for pages that were left
  chunks,       \* chunks received (bounded by MaxChunks)
  said,         \* all that the server has sent of each answer (history)
  misread       \* answers of which a part was taken for a snapshot (history)

talk == <<sse, sources, pending, flushTimer, isRequesting, requests, requestId, abortCtl>>
disk == <<stored, apart>>
heard == <<chunks, said, misread>>
vars == <<stream, open, messages, view, editing, lastKey, talk, loaded, saveTimer, disk,
          hasty, leaves, abandoned, heard>>

\* setIsStreaming is called wherever sseSourceRef is assigned.
isStreaming == sse # None
Generating == isStreaming \/ isRequesting

NoView == [messages |-> <<>>, generating |-> FALSE, loaded |-> FALSE]

Init ==
  /\ stream \in BOOLEAN /\ open = TRUE
  /\ messages = <<>> /\ view = NoView /\ editing = None
  /\ sse = None /\ sources = {} /\ pending = <<>> /\ flushTimer = FALSE
  /\ isRequesting = FALSE /\ requests = {} /\ requestId = None /\ abortCtl = None
  /\ loaded = FALSE /\ saveTimer = FALSE
  /\ lastKey = 0 /\ stored = <<>> /\ apart = FALSE
  /\ hasty = FALSE /\ leaves = 0 /\ abandoned = {}
  /\ chunks = 0 /\ said = [k \in Keys |-> <<>>] /\ misread = {}

-----------------------------------------------------------------------------
(* Messages.                                                               *)

UserMessage(k) == [key |-> k, from |-> "user", status |-> "none", text |-> <<Written>>]
LoadingMessage(k) == [key |-> k, from |-> "assistant", status |-> "loading", text |-> <<>>]

IsPending(m) == m.status \in {"loading", "streaming"}
IsFinal(m) == m.status \in {"complete", "error"}
HasContent(m) == m.text # <<>>

Complete(m) == [m EXCEPT !.status = "complete"]
Failed(m) == [m EXCEPT !.status = "error", !.text = <<Written>>]

UpdateLast(ms, Updater(_)) ==
  IF ms = <<>> \/ Last(ms).from # "assistant" THEN ms
  ELSE ReplaceAt(ms, Len(ms), Updater(Last(ms)))

\* Mutant of MergeChunk: a snapshot is appended like a part.
MergeByAppending(current, next) == current \o next

\* A server sends either the next part of the text or all of it so far; the
\* page guesses which: a chunk that starts with the buffered text replaces it.
MergeChunk(current, next) ==
  IF current # <<>> /\ IsPrefix(current, next) THEN next ELSE current \o next

\* The same guess when the buffer is flushed: a buffer that starts with the text
\* shown is a snapshot, of which only the rest is appended.
AppendableChunk(current, chunk) ==
  IF current # <<>> /\ IsPrefix(current, chunk)
  THEN SubSeq(chunk, Len(current) + 1, Len(chunk)) ELSE chunk

\* An error is kept; anything else, a finished message too, goes on streaming.
ApplyChunk(m, chunk) ==
  IF m.status = "error" THEN m
  ELSE [m EXCEPT !.text = m.text \o AppendableChunk(m.text, chunk), !.status = "streaming"]

Appended(ms, buffer) ==
  LET Apply(m) == ApplyChunk(m, buffer)
  IN  UpdateLast(ms, Apply)

Flushed(ms) == IF pending = <<>> THEN ms ELSE Appended(ms, pending)

Finished(m) == IF IsFinal(m) THEN m ELSE Complete(m)
Stopped(m) == IF IsPending(m) THEN Complete(m) ELSE m

\* applyMessageEdit: the text of message i is replaced by what the user wrote.
Edited(ms, i) == [ms EXCEPT ![i].text = <<Written>>]

IndexOf(ms, k) == SelectInSeq(ms, LAMBDA m : m.key = k)

\* The code filters by key; no two messages have the same one.
RemoveMessageByKey(ms, k) == RemoveFirstMatch(ms, LAMBDA m : m.key = k)

\* The last n messages.
Recent(ms, n) == SubSeq(ms, IF Len(ms) > n THEN Len(ms) - n + 1 ELSE 1, Len(ms))

\* Mutant of Trim: the stored conversation may grow without end.
TrimNothing(ms) == ms

Trim(ms) == Recent(ms, MaxStored)

\* loadMessages: a text that is too long is cut (long), a pending message with
\* text is complete, older messages than there is room for are dropped, and of
\* the pending ones without text the last is marked as interrupted.
Normalized(m, long) ==
  LET text == IF long /\ HasContent(m) THEN <<Written>> ELSE m.text
  IN  [m EXCEPT !.text = text,
                !.status = IF IsPending(m) /\ HasContent(m) THEN "complete" ELSE @]

Sanitized(ms) ==
  LET i == SelectLastInSeq(ms, IsPending)
  IN  IF i = 0 THEN ms ELSE ReplaceAt(ms, i, Failed(ms[i]))

LoadMessages(longs, room) ==
  Sanitized(Recent(Trim([i \in 1 .. Len(stored) |-> Normalized(stored[i], i \in longs)]), room))

\* What loadMessages may return: sizes in characters are not modelled, so any
\* text may be too long and any number of messages but none may fit.  Nothing
\* is returned when more than MAX_STORED_MESSAGES_BYTES are stored, which are
\* removed, and when the value cannot be read or parsed, which is kept.
Loadable ==
  {<<>>} \cup {LoadMessages(longs, room) : longs \in SUBSET (1 .. Len(stored)),
                                          room \in 1 .. MaxStored}

-----------------------------------------------------------------------------
(* State updates.                                                          *)

\* updateMessages: the new conversation, and a save 500 ms later.
UpdateMessages(ms) ==
  /\ messages' = ms
  /\ saveTimer' = (saveTimer \/ loaded)

Current == [messages |-> messages, generating |-> Generating, loaded |-> loaded]

\* What a click changed is rendered before the next event.
Rendered == view' = Current'

Render ==
  /\ open /\ view # Current
  /\ view' = Current
  /\ UNCHANGED <<stream, open, messages, editing, lastKey, talk, loaded, saveTimer,
                 disk, hasty, leaves, abandoned, heard>>

FlushDone == pending' = <<>> /\ flushTimer' = FALSE

NoRequest == UNCHANGED <<requests, requestId, abortCtl>>

-----------------------------------------------------------------------------
(* sendChat.                                                               *)

\* The source of the previous answer is closed; its buffered chunks stay.
StreamStarts(ms, k) ==
  \E snapshot \in BOOLEAN :
    /\ UpdateMessages(ms)
    /\ sources' = {s \in sources : s.key # sse}
                    \cup {[key |-> k, snapshot |-> snapshot, ended |-> FALSE]}
    /\ sse' = k
    /\ isRequesting' = TRUE
    /\ UNCHANGED <<pending, flushTimer>> /\ NoRequest

\* source.stream() throws: the error handler runs and the source is closed.
StreamThrows(ms) ==
  /\ UpdateMessages(UpdateLast(Flushed(ms), Failed))
  /\ sources' = {s \in sources : s.key # sse}
  /\ sse' = None
  /\ isRequesting' = FALSE
  /\ FlushDone /\ NoRequest

RequestStarts(ms, k) ==
  /\ UpdateMessages(ms)
  /\ requests' = requests \cup {[key |-> k, aborted |-> FALSE]}
  /\ requestId' = k /\ abortCtl' = k
  /\ isRequesting' = TRUE
  /\ UNCHANGED <<sse, sources, pending, flushTimer>>

SendChat(ms) ==
  IF stream THEN StreamStarts(ms, Last(ms).key) \/ StreamThrows(ms)
  ELSE RequestStarts(ms, Last(ms).key)

-----------------------------------------------------------------------------
(* What the user does.                                                     *)

\* The input is disabled while an answer is generated, but not while the
\* conversation is still being loaded.
Send ==
  /\ open /\ ~ view.generating /\ lastKey + 2 <= MaxKeys
  /\ lastKey' = lastKey + 2
  /\ SendChat(view.messages \o <<UserMessage(lastKey + 1), LoadingMessage(lastKey + 2)>>)
  /\ hasty' = (hasty \/ ~ view.loaded)
  /\ UNCHANGED <<stream, open, editing, loaded, disk, leaves, abandoned, heard>>
  /\ Rendered

\* The actions of a message wait for the end of the generation.
CanAct(k) ==
  /\ open /\ view.loaded /\ ~ view.generating
  /\ IndexOf(view.messages, k) # 0

Regenerate(k) ==
  /\ CanAct(k) /\ lastKey < MaxKeys
  /\ LET i == IndexOf(view.messages, k)
         m == view.messages[i]
         kept == IF m.from = "user" THEN i ELSE i - 1
     IN  /\ HasContent(m) /\ ~ IsPending(m)
         /\ SendChat(SubSeq(view.messages, 1, kept) \o <<LoadingMessage(lastKey + 1)>>)
  /\ lastKey' = lastKey + 1
  /\ UNCHANGED <<stream, open, editing, loaded, disk, hasty, leaves, abandoned, heard>>
  /\ Rendered

OpenEditor(k) ==
  /\ CanAct(k) /\ HasContent(view.messages[IndexOf(view.messages, k)]) /\ editing # k
  /\ editing' = k
  /\ UNCHANGED <<stream, open, messages, view, lastKey, talk, loaded, saveTimer, disk,
                 hasty, leaves, abandoned, heard>>

CloseEditor ==
  /\ open /\ editing # None
  /\ editing' = None
  /\ UNCHANGED <<stream, open, messages, view, lastKey, talk, loaded, saveTimer, disk,
                 hasty, leaves, abandoned, heard>>

\* The buttons of the editor have no such guard: an edit applied while an
\* answer is generated works on the conversation as it was last rendered.
ApplyEdit(submit) ==
  /\ open /\ view.loaded /\ editing # None /\ IndexOf(view.messages, editing) # 0
  /\ LET i == IndexOf(view.messages, editing)
         edited == Edited(view.messages, i)
     IN  \/ /\ ~ submit
            /\ UpdateMessages(edited)
            /\ UNCHANGED <<talk, lastKey>>
         \/ /\ submit /\ edited[i].from = "user" /\ lastKey < MaxKeys
            /\ lastKey' = lastKey + 1
            /\ SendChat(SubSeq(edited, 1, i) \o <<LoadingMessage(lastKey + 1)>>)
  /\ editing' = None
  /\ hasty' = (hasty \/ view.generating)
  /\ UNCHANGED <<stream, open, loaded, disk, leaves, abandoned, heard>>
  /\ Rendered

Delete(k) ==
  /\ CanAct(k)
  /\ UpdateMessages(RemoveMessageByKey(messages, k))
  /\ UNCHANGED <<stream, open, editing, lastKey, talk, loaded, disk, hasty, leaves,
                 abandoned, heard>>
  /\ Rendered

Clear ==
  /\ open /\ ~ view.generating /\ view.messages # <<>>
  /\ UpdateMessages(<<>>)
  /\ editing' = None
  /\ UNCHANGED <<stream, open, lastKey, talk, loaded, disk, hasty, leaves, abandoned,
                 heard>>
  /\ Rendered

Stop ==
  /\ open /\ view.generating
  /\ sources' = {s \in sources : s.key # sse}
  /\ sse' = None
  /\ UpdateMessages(UpdateLast(Flushed(messages), Stopped))
  /\ FlushDone
  /\ requests' = {[r EXCEPT !.aborted = r.aborted \/ r.key = abortCtl] : r \in requests}
  /\ abortCtl' = None
  /\ isRequesting' = FALSE
  /\ UNCHANGED <<stream, open, editing, lastKey, requestId, loaded, disk, hasty, leaves,
                 abandoned, heard>>
  /\ Rendered

-----------------------------------------------------------------------------
(* Events of a stream, and the flush timer.                                *)

Event(s) == open /\ s \in sources /\ ~ s.ended

CloseActiveStream(s) ==
  /\ sources' = sources \ {s}
  /\ sse' = IF sse = s.key THEN None ELSE sse

ShownText(ms) == IF ms = <<>> THEN <<>> ELSE Last(ms).text

\* The part would be taken for a snapshot of what is buffered or shown.
LooksLikeSnapshot(shown, buffer, part) ==
  \/ buffer # <<>> /\ IsPrefix(buffer, part)
  \/ shown # <<>> /\ IsPrefix(shown, MergeChunk(buffer, part))

Chunk(k, snapshot, part) == IF snapshot THEN said[k] \o part ELSE part

\* The server sends the next part of answer k, alone or in a snapshot.
Says(k, snapshot, part, shown, buffer) ==
  /\ said' = [said EXCEPT ![k] = @ \o part]
  /\ misread' = IF ~ snapshot /\ LooksLikeSnapshot(shown, buffer, part)
                THEN misread \cup {k} ELSE misread

StreamChunk(s, part) ==
  /\ Event(s) /\ chunks < MaxChunks
  /\ chunks' = chunks + 1
  /\ Says(s.key, s.snapshot, part, ShownText(messages), pending)
  /\ pending' = MergeChunk(pending, Chunk(s.key, s.snapshot, part))
  /\ flushTimer' = TRUE
  /\ NoRequest
  /\ UNCHANGED <<stream, open, messages, view, editing, lastKey, sse, sources,
                 isRequesting, loaded, saveTimer, disk, hasty, leaves, abandoned>>

FlushStreamUpdates ==
  /\ open /\ flushTimer
  /\ FlushDone
  /\ UpdateMessages(Flushed(messages))
  /\ NoRequest
  /\ UNCHANGED <<stream, open, view, editing, lastKey, sse, sources, isRequesting,
                 loaded, disk, hasty, leaves, abandoned, heard>>

\* Mutant of StreamComplete: the buffer is flushed last.
CompleteThenFlush(s) ==
  /\ Event(s)
  /\ CloseActiveStream(s)
  /\ UpdateMessages(Flushed(UpdateLast(messages, Finished)))
  /\ FlushDone /\ NoRequest
  /\ isRequesting' = FALSE
  /\ UNCHANGED <<stream, open, view, editing, lastKey, loaded, disk, hasty, leaves,
                 abandoned, heard>>

\* [DONE] arrives.
StreamComplete(s) ==
  /\ Event(s)
  /\ CloseActiveStream(s)
  /\ UpdateMessages(UpdateLast(Flushed(messages), Finished))
  /\ FlushDone /\ NoRequest
  /\ isRequesting' = FALSE
  /\ UNCHANGED <<stream, open, view, editing, lastKey, loaded, disk, hasty, leaves,
                 abandoned, heard>>

\* Mutant of StreamError: isRequesting is not reset.
ErrorKeepsRequesting(s) ==
  /\ Event(s)
  /\ CloseActiveStream(s)
  /\ UpdateMessages(UpdateLast(Flushed(messages), Failed))
  /\ FlushDone /\ NoRequest
  /\ UNCHANGED <<stream, open, view, editing, lastKey, isRequesting, loaded, disk,
                 hasty, leaves, abandoned, heard>>

\* A message that does not parse, an error event, or a connection closed with
\* a status other than 200.
StreamError(s) ==
  /\ Event(s)
  /\ CloseActiveStream(s)
  /\ UpdateMessages(UpdateLast(Flushed(messages), Failed))
  /\ FlushDone /\ NoRequest
  /\ isRequesting' = FALSE
  /\ UNCHANGED <<stream, open, view, editing, lastKey, loaded, disk, hasty, leaves,
                 abandoned, heard>>

\* The connection is closed with status 200 and no [DONE]: nothing is handled.
StreamEndsQuietly(s) ==
  /\ Event(s)
  /\ sources' = (sources \ {s}) \cup {[s EXCEPT !.ended = TRUE]}
  /\ NoRequest
  /\ UNCHANGED <<stream, open, messages, view, editing, lastKey, sse, pending,
                 flushTimer, isRequesting, loaded, saveTimer, disk, hasty, leaves,
                 abandoned, heard>>

-----------------------------------------------------------------------------
(* The continuation of sendNonStreamingChat.                               *)

\* Mutant of Settled: also an older request resets the flags.
SettledAnyway(r) == abortCtl' = None /\ isRequesting' = FALSE

\* The finally block of a request resets the flags unless a newer one began.
Settled(r) ==
  /\ abortCtl' = IF requestId = r.key THEN None ELSE abortCtl
  /\ isRequesting' = (isRequesting /\ requestId # r.key)

RequestAborted(r) ==
  /\ open /\ r \in requests /\ r.aborted
  /\ requests' = requests \ {r}
  /\ Settled(r)
  /\ UNCHANGED <<stream, open, messages, view, editing, lastKey, sse, sources, pending,
                 flushTimer, requestId, loaded, saveTimer, disk, hasty, leaves,
                 abandoned, heard>>

\* The whole answer, which may be empty.
Replies == Parts \cup {<<>>}

Replied(ms, text) ==
  LET Reply(m) == [m EXCEPT !.text = text, !.status = "complete"]
  IN  UpdateLast(ms, Reply)

RequestAnswered(r, text) ==
  /\ open /\ r \in requests /\ ~ r.aborted
  /\ said' = [said EXCEPT ![r.key] = @ \o text]
  /\ UpdateMessages(Replied(messages, text))
  /\ requests' = requests \ {r}
  /\ Settled(r)
  /\ UNCHANGED <<stream, open, view, editing, lastKey, sse, sources, pending,
                 flushTimer, requestId, loaded, disk, hasty, leaves, abandoned, chunks,
                 misread>>

RequestFailed(r) ==
  /\ open /\ r \in requests /\ ~ r.aborted
  /\ UpdateMessages(UpdateLast(Flushed(messages), Failed))
  /\ FlushDone
  /\ requests' = requests \ {r}
  /\ isRequesting' = FALSE
  /\ abortCtl' = IF requestId = r.key THEN None ELSE abortCtl
  /\ UNCHANGED <<stream, open, view, editing, lastKey, sse, sources, requestId, loaded,
                 disk, hasty, leaves, abandoned, heard>>

-----------------------------------------------------------------------------
(* Local storage and the life of the page.                                 *)

\* A write to local storage may fail; the page goes on.
Store(ms) ==
  \/ stored' = ms /\ apart' = FALSE
  \/ stored' = stored /\ apart' = TRUE

Save == Store(Trim(messages))

\* The load timer runs once, after the first render; what was loaded is
\* written back.
Load ==
  /\ open /\ ~ loaded
  /\ loaded' = TRUE
  /\ \E ms \in Loadable : messages' = ms /\ Store(ms)
  /\ UNCHANGED <<stream, open, view, editing, lastKey, talk, saveTimer, hasty, leaves,
                 abandoned, heard>>

SaveMessages ==
  /\ open /\ saveTimer
  /\ saveTimer' = FALSE
  /\ Save
  /\ UNCHANGED <<stream, open, messages, view, editing, lastKey, talk, loaded, hasty,
                 leaves, abandoned, heard>>

\* The state of the hooks is gone, and with it every way to stop what runs.
Leave ==
  /\ open /\ leaves < MaxLeaves
  /\ open' = FALSE /\ leaves' = leaves + 1
  /\ messages' = <<>> /\ view' = NoView /\ editing' = None
  /\ sse' = None /\ sources' = {} /\ pending' = <<>> /\ flushTimer' = FALSE
  /\ isRequesting' = FALSE /\ requests' = {} /\ requestId' = None /\ abortCtl' = None
  /\ loaded' = FALSE /\ saveTimer' = FALSE
  /\ UNCHANGED <<stream, lastKey, hasty, heard>>

\* No clean-up closes the source or aborts the request: each answer goes on
\* being received, by callbacks that hold the page as it was.
Left(k, streamed, snapshot) ==
  [key |-> k, streamed |-> streamed, snapshot |-> snapshot,
   messages |-> messages, pending |-> pending]

Unattended ==
  {Left(s.key, TRUE, s.snapshot) : s \in {s \in sources : ~ s.ended}}
    \cup {Left(r.key, FALSE, FALSE) : r \in {r \in requests : ~ r.aborted}}

\* Mutant of Unmount: the pending save is dropped.
UnmountForgets == Leave /\ UNCHANGED <<disk, abandoned>>

\* Another page of the interface is opened: a save that is due is done now, and
\* a load timer still reads and writes back.  What the callbacks of the page
\* can do from now on is LateFlush and LateReply, if every update was rendered
\* and persistMessages may save.
Unmount ==
  /\ Leave
  /\ \/ saveTimer /\ Save
     \/ ~ saveTimer /\ loaded /\ UNCHANGED disk
     \/ ~ saveTimer /\ ~ loaded /\ \E ms \in Loadable : Store(ms)
  /\ abandoned' = abandoned \cup (IF loaded /\ view = Current THEN Unattended ELSE {})

\* The tab is reloaded or closed: no clean-up runs, and all connections end.
Reload == Leave /\ abandoned' = {} /\ UNCHANGED disk

\* React (external) drops the updates of a component that is gone, but it may
\* evaluate the first one before it does, and the updater of updateMessages
\* starts the timer of a save: the page that was left overwrites storage.
LateSave(a, ms) ==
  /\ stored' = Trim(ms) /\ apart' = TRUE
  /\ abandoned' = abandoned \ {a}
  /\ UNCHANGED <<stream, open, messages, view, editing, lastKey, talk, loaded,
                 saveTimer, hasty, leaves>>

\* The flush timer of another chunk, or the flush of an error.  (After [DONE]
\* the first update is that of isStreaming, and no updater is evaluated.)
LateFlush(a) ==
  /\ a \in abandoned /\ a.streamed
  /\ \/ \E part \in Parts :
          /\ Says(a.key, a.snapshot, part, ShownText(a.messages), a.pending)
          /\ LateSave(a, Appended(a.messages,
                         MergeChunk(a.pending, Chunk(a.key, a.snapshot, part))))
          /\ UNCHANGED chunks
     \/ /\ a.pending # <<>>
        /\ LateSave(a, Appended(a.messages, a.pending))
        /\ UNCHANGED heard

LateReply(a, text) ==
  /\ a \in abandoned /\ ~ a.streamed
  /\ said' = [said EXCEPT ![a.key] = @ \o text]
  /\ LateSave(a, Replied(a.messages, text))
  /\ UNCHANGED <<chunks, misread>>

Mount ==
  /\ ~ open
  /\ open' = TRUE
  /\ UNCHANGED <<stream, messages, view, editing, lastKey, talk, loaded, saveTimer,
                 disk, hasty, leaves, abandoned, heard>>

UserStep ==
  \/ Send \/ Clear \/ Stop \/ CloseEditor
  \/ \E k \in Keys : Regenerate(k) \/ OpenEditor(k) \/ Delete(k)
  \/ \E submit \in BOOLEAN : ApplyEdit(submit)

StreamEnd == \E s \in sources : StreamComplete(s) \/ StreamError(s) \/ StreamEndsQuietly(s)
RequestEnd ==
  \E r \in requests : \/ RequestAborted(r) \/ RequestFailed(r)
                      \/ \E text \in Replies : RequestAnswered(r, text)
LateUpdate == \E a \in abandoned : LateFlush(a) \/ \E text \in Replies : LateReply(a, text)

Next ==
  \/ UserStep \/ Render
  \/ \E s \in sources, part \in Parts : StreamChunk(s, part)
  \/ StreamEnd \/ RequestEnd \/ FlushStreamUpdates
  \/ Load \/ SaveMessages \/ Unmount \/ Reload \/ Mount \/ LateUpdate

Spec == Init /\ [][Next]_vars

\* Timers fire, the server ends every connection, React renders.  The user
\* owes nothing.
FairSpec ==
  /\ Spec
  /\ WF_vars(Render) /\ WF_vars(Load) /\ WF_vars(SaveMessages)
  /\ WF_vars(FlushStreamUpdates) /\ WF_vars(StreamEnd) /\ WF_vars(RequestEnd)

-----------------------------------------------------------------------------
(* Properties.                                                             *)

Text == Seq(Words \cup {Written})
Message == [key : Keys, from : {"user", "assistant"}, status : Statuses, text : Text]
Source == [key : Keys, snapshot : BOOLEAN, ended : BOOLEAN]
Request == [key : Keys, aborted : BOOLEAN]
Unfinished == [key : Keys, streamed : BOOLEAN, snapshot : BOOLEAN,
               messages : Seq(Message), pending : Text]

\* Every variable of the hooks holds a value its TypeScript type allows.
TypeOK ==
  /\ stream \in BOOLEAN /\ open \in BOOLEAN /\ hasty \in BOOLEAN /\ apart \in BOOLEAN
  /\ messages \in Seq(Message) /\ stored \in Seq(Message) /\ Len(stored) <= MaxStored
  /\ view.messages \in Seq(Message) /\ view.generating \in BOOLEAN /\ view.loaded \in BOOLEAN
  /\ {editing, lastKey, sse, requestId, abortCtl} \subseteq 0 .. MaxKeys
  /\ sources \subseteq Source /\ requests \subseteq Request /\ abandoned \subseteq Unfinished
  /\ {flushTimer, saveTimer, isRequesting, loaded} \subseteq BOOLEAN
  /\ pending \in Text /\ said \in [Keys -> Text] /\ misread \subseteq Keys
  /\ leaves \in 0 .. MaxLeaves /\ chunks \in 0 .. MaxChunks

\* Whatever the open page is receiving can be stopped: a source that is not
\* closed is the one Stop closes, and, unless an edit was submitted meanwhile, a
\* request under way is the one Stop aborts and the page shows that it is
\* generating.  (What a page that was left is still receiving nobody can stop.)
Stoppable ==
  /\ \A s \in sources : s.key = sse
  /\ ~ hasty => \A r \in requests : r.aborted \/ (r.key = abortCtl /\ Generating)

\* The text of an answer is lost or doubled only when a part of it begins like
\* what is buffered or shown and is taken for a snapshot.  Any other answer, on
\* the page and in storage, is what the server sent, in order, without gaps or
\* repetitions, up to some point (or was cut when it was loaded), also when a
\* page that was left saves late; and while its stream is open, shown and
\* buffered text together are all of it.
AnswerInOrder ==
  ~ hasty =>
    /\ \A m \in ToSet(messages) \cup ToSet(stored) :
         m.key \in misread \/ m.text = <<Written>> \/ IsPrefix(m.text, said[m.key])
    /\ \A s \in sources :
         /\ Last(messages).key = s.key
         /\ LET shown == ShownText(messages)
            IN  s.key \in misread \/ shown \o AppendableChunk(shown, pending) = said[s.key]

\* Only the last message can be waiting for its answer, and only while the page
\* is generating one: neither a late event nor a reload leaves a message that
\* spins for ever.
SettledWhenIdle ==
  ~ hasty => \A i \in DOMAIN messages :
    IsPending(messages[i]) => Generating /\ i = Len(messages)

\* Leaving the page by the interface loses nothing: storage then holds the
\* conversation as it was, up to the messages it has room for, unless a read or
\* a write failed or an earlier page saved late and this one not since.
LeaveSaves ==
  [][Unmount /\ loaded /\ ~ apart /\ ~ apart' => stored' = Trim(messages)]_vars

\* Every generation ends by itself, unless its connection was closed without
\* [DONE]: then only the user can end it.
GenerationEnds ==
  Generating ~> (~ Generating \/ \E s \in sources : s.ended)
=============================================================================
