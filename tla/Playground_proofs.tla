--------------------------- MODULE Playground_proofs ---------------------------
(***************************************************************************)
(* Proofs about the playground page: its types, that whatever it receives  *)
(* can be stopped, that answers are complete and in order unless a part is *)
(* misread, that nothing waits while the page is idle, and that leaving it *)
(* loses nothing.                                                          *)
(***************************************************************************)
EXTENDS Playground, SequenceTheorems, WellFoundedInduction, NaturalsInduction, TLAPS

-----------------------------------------------------------------------------
(* The inductive invariant.                                                 *)

\* Keys are handed out in order: none is above last, and none is used twice.
Keyed(ms, last) ==
  /\ ms \in Seq(Message)
  /\ \A i \in 1 .. Len(ms) : ms[i].key <= last
  /\ \A i, j \in 1 .. Len(ms) : ms[i].key = ms[j].key => i = j

Conversations ==
  /\ Keyed(messages, lastKey) /\ Keyed(stored, lastKey) /\ Keyed(view.messages, lastKey)
  /\ \A a \in abandoned : Keyed(a.messages, lastKey)

\* A page that streams has one source at most and no requests; the buffer and
\* the flags belong to it.
OneSource ==
  /\ \A s \in sources : s.key = sse
  /\ \A s1, s2 \in sources : s1 = s2
  /\ sources = {} => pending = <<>>
  /\ stream => requests = {}
  /\ ~ stream => sources = {} /\ sse = None

\* A request's continuation can reset only the flags it set.
OneRequest ==
  /\ \A r1, r2 \in requests : r1.key = r2.key => r1 = r2
  /\ \A r \in requests : r.key <= lastKey
  /\ \A r \in requests : r.aborted /\ r.key = requestId => ~ isRequesting

\* Every answer has one connection, of the page or of one that was left, and
\* nothing was said of an answer that is still requested or not begun.
Connections ==
  /\ \A s \in sources : s.key <= lastKey
  /\ \A a \in abandoned : a.key <= lastKey
  /\ \A a1, a2 \in abandoned : a1.key = a2.key => a1 = a2
  /\ \A a \in abandoned :
       (\A s \in sources : s.key # a.key) /\ (\A r \in requests : r.key # a.key)
  /\ \A r \in requests : said[r.key] = <<>>
  /\ \A a \in abandoned : ~ a.streamed => said[a.key] = <<>>
  /\ \A k \in Keys : k > lastKey => said[k] = <<>>

\* What was rendered is not ahead of the page.
Shown ==
  /\ Generating => view.generating
  /\ view.loaded => loaded

Saved == loaded /\ ~ saveTimer /\ ~ apart => stored = Trim(messages)

\* The last message is the one that answer k goes to.
Awaits(ms, k) ==
  /\ ms # <<>>
  /\ ms[Len(ms)].key = k
  /\ ms[Len(ms)].from = "assistant"

\* The text shown and the buffer make up all that was received: the buffer holds
\* what is not shown if the server sends parts, and all of it otherwise, and the
\* page will not take the one for the other.
Buffered(shown, buffer, all, snapshot) ==
  IF snapshot
  THEN IsPrefix(shown, all) /\ (buffer = all \/ (buffer = <<>> /\ shown = all))
  ELSE all = shown \o buffer /\ (shown # <<>> => ~ IsPrefix(shown, buffer))

\* Answer k, of which all[k] was sent, is being received; wrong are the answers
\* of which a part was misread.
Receiving(ms, buffer, k, snapshot, all, wrong) ==
  /\ Awaits(ms, k)
  /\ IsPending(ms[Len(ms)])
  /\ k \in wrong \/ Buffered(ms[Len(ms)].text, buffer, all[k], snapshot)

InOrder(m, all, wrong) ==
  m.key \in wrong \/ m.text = <<Written>> \/ IsPrefix(m.text, all[m.key])

\* Only a last message waits, and every text is the user's or an answer.
Proper(ms, all, wrong) ==
  \A i \in 1 .. Len(ms) :
    /\ InOrder(ms[i], all, wrong)
    /\ IsPending(ms[i]) => i = Len(ms) /\ ms[i].from = "assistant"

\* What a page that was left has of an answer.
Resumable(a, all, wrong) ==
  /\ Proper(a.messages, all, wrong)
  /\ Awaits(a.messages, a.key)
  /\ a.streamed => Receiving(a.messages, a.pending, a.key, a.snapshot, all, wrong)

\* As long as every step was taken at a moment the page's guards cover.
Orderly ==
  /\ Generating => loaded
  /\ view.loaded /\ ~ view.generating => view.messages = messages
  /\ \A r \in requests :
       \/ r.aborted
       \/ r.key = abortCtl /\ r.key = requestId /\ isRequesting /\ Awaits(messages, r.key)
  /\ \A s \in sources : Receiving(messages, pending, s.key, s.snapshot, said, misread)
  /\ \A a \in abandoned : Resumable(a, said, misread)
  /\ Proper(messages, said, misread) /\ Proper(stored, said, misread)
  /\ \A i \in 1 .. Len(messages) : IsPending(messages[i]) => Generating

\* The inductive invariant.
PageInv ==
  /\ TypeOK /\ Conversations /\ OneSource /\ OneRequest /\ Connections /\ Shown /\ Saved
  /\ ~ hasty => Orderly

(* Finding a message.                                                       *)

\* A set of naturals has a least element.
LEMMA LeastExists ==
  ASSUME NEW I, I \subseteq Nat, I # {}
  PROVE  \E x \in I : \A y \in I : x <= y
<1> DEFINE R == OpToRel(<, Nat)
<1>1. IsWellFoundedOn(R, Nat)
  BY NatLessThanWellFounded, Zenon
<1>2. \A x, y \in Nat : <<y, x>> \in R <=> y < x
  BY DEF OpToRel
<1> HIDE DEF R
<1>3. PICK x \in I : \A y \in I : ~ (<<y, x>> \in R)
  BY <1>1, WFMin
<1>4. ASSUME NEW y \in I PROVE x <= y
  <2>1. x \in Nat /\ y \in Nat
    OBVIOUS
  <2>2. ~ (y < x)
    BY <1>2, <1>3, <2>1
  <2> QED
    BY <2>1, <2>2
<1> QED
  BY <1>4

\* A set of positions has a greatest element.
LEMMA GreatestExists ==
  ASSUME NEW n \in Nat, NEW I, I \subseteq 1 .. n, I # {}
  PROVE  \E x \in I : \A y \in I : x >= y
<1> DEFINE J == {n - i : i \in I}
<1>0. \A i \in I : i \in Int /\ 1 <= i /\ i <= n
  OBVIOUS
<1>1. J \subseteq Nat /\ J # {}
  <2>1. \A i \in I : n - i \in Nat
    BY <1>0
  <2>2. PICK i \in I : TRUE
    OBVIOUS
  <2>3. n - i \in J
    OBVIOUS
  <2>4. J \subseteq Nat
    BY <2>1
  <2> QED
    BY <2>3, <2>4
<1>2. PICK z \in J : \A y \in J : z <= y
  BY <1>1, LeastExists
<1>3. PICK x \in I : z = n - x
  BY <1>2
<1>4. ASSUME NEW y \in I PROVE x >= y
  <2>1. n - y \in J
    OBVIOUS
  <2> QED
    BY <1>0, <1>2, <1>3, <2>1
<1> QED
  BY <1>4

\* findIndex returns -1 (here 0) or the position of a message with the key.
LEMMA IndexOfFinds ==
  ASSUME NEW ms \in Seq(Message), NEW k, IndexOf(ms, k) # 0
  PROVE  IndexOf(ms, k) \in 1 .. Len(ms) /\ ms[IndexOf(ms, k)].key = k
<1> DEFINE I == {i \in 1 .. Len(ms) : ms[i].key = k}
<1>1. IndexOf(ms, k) = IF I # {} THEN Min(I) ELSE 0
  BY DEF IndexOf, SelectInSeq
<1>2. I # {} => \E x \in I : \A y \in I : x <= y
  <2>1. I \subseteq Nat
    OBVIOUS
  <2> HIDE DEF I
  <2> QED
    BY <2>1, LeastExists
<1>3. I # {} => Min(I) \in I
  BY <1>2 DEF Min
<1> QED
  BY <1>1, <1>3

\* The last waiting message is found if there is one.
LEMMA LastPendingFound ==
  ASSUME NEW ms \in Seq(Message)
  PROVE  LET i == SelectLastInSeq(ms, IsPending)
         IN  \/ i = 0 /\ \A j \in 1 .. Len(ms) : ~ IsPending(ms[j])
             \/ i \in 1 .. Len(ms) /\ IsPending(ms[i])
<1> DEFINE I == {i \in 1 .. Len(ms) : IsPending(ms[i])}
<1>1. SelectLastInSeq(ms, IsPending) = IF I # {} THEN Max(I) ELSE 0
  BY DEF SelectLastInSeq
<1>2. I # {} => \E x \in I : \A y \in I : x >= y
  <2>1. I \subseteq 1 .. Len(ms) /\ Len(ms) \in Nat
    OBVIOUS
  <2> HIDE DEF I
  <2> QED
    BY <2>1, GreatestExists
<1>3. I # {} => Max(I) \in I
  BY <1>2 DEF Max
<1> QED
  BY <1>1, <1>3

-----------------------------------------------------------------------------
(* Text.                                                                    *)

\* What servers send and what the user writes is text.
LEMMA TextTypes ==
  /\ Parts \subseteq Text /\ Replies \subseteq Text
  /\ <<>> \in Text /\ <<Written>> \in Text
<1>1. Parts \subseteq Seq(Words)
  BY PlaygroundAssumption DEF PlaygroundAssumption
<1>2. Seq(Words) \subseteq Text
  BY DEF Text
<1>3. <<>> \in Text /\ <<Written>> \in Text
  BY DEF Text
<1> QED
  BY <1>1, <1>2, <1>3 DEF Replies

\* Texts are sequences.
LEMMA Joins ==
  ASSUME NEW s \in Text, NEW t \in Text
  PROVE  /\ s \o t \in Text /\ Len(s \o t) = Len(s) + Len(t)
         /\ Len(s) \in Nat /\ Len(t) \in Nat
         /\ \A i \in 1 .. Len(s) : (s \o t)[i] = s[i]
         /\ \A i \in 1 .. Len(t) : (s \o t)[Len(s) + i] = t[i]
         /\ s \o <<>> = s /\ <<>> \o s = s
<1> DEFINE S == Words \cup {Written}
           st == s \o t
<1> HIDE DEF S
<1>1. s \in Seq(S) /\ t \in Seq(S) /\ Text = Seq(S)
  BY DEF Text, S
<1>2. /\ st \in Seq(S) /\ Len(st) = Len(s) + Len(t)
      /\ \A i \in 1 .. Len(s) + Len(t) : st[i] = IF i <= Len(s) THEN s[i] ELSE t[i - Len(s)]
  BY <1>1, ConcatProperties
<1>3. Len(s) \in Nat /\ Len(t) \in Nat
  BY <1>1
<1>4. s \o <<>> = s /\ <<>> \o s = s
  BY <1>1, ConcatEmptySeq
<1> HIDE DEF st
<1>6. \A i \in 1 .. Len(s) : st[i] = s[i]
  BY <1>2, <1>3
<1>7. ASSUME NEW i \in 1 .. Len(t) PROVE st[Len(s) + i] = t[i]
  <2>1. Len(s) + i \in 1 .. Len(s) + Len(t) /\ ~ (Len(s) + i <= Len(s)) /\ (Len(s) + i) - Len(s) = i
    BY <1>3
  <2> QED
    BY <1>2, <2>1
<1> QED
  BY <1>1, <1>2, <1>3, <1>4, <1>6, <1>7 DEF st

\* Joining texts is associative.
LEMMA JoinsInTurn ==
  ASSUME NEW s \in Text, NEW t \in Text, NEW u \in Text
  PROVE  (s \o t) \o u = s \o (t \o u)
<1> DEFINE S == Words \cup {Written}
<1> HIDE DEF S
<1>1. s \in Seq(S) /\ t \in Seq(S) /\ u \in Seq(S)
  BY DEF Text, S
<1> QED
  BY <1>1, ConcatAssociative

\* startsWith compares the texts word by word.
LEMMA PrefixItems ==
  ASSUME NEW s \in Text, NEW t \in Text
  PROVE  IsPrefix(s, t) <=> Len(s) <= Len(t) /\ \A i \in 1 .. Len(s) : s[i] = t[i]
<1> DEFINE S == Words \cup {Written}
<1> HIDE DEF S
<1>1. s \in Seq(S) /\ t \in Seq(S) /\ Len(s) \in Nat /\ Len(t) \in Nat
  BY DEF Text, S
<1>2. SubSeq(s, 1, Len(s)) = s
  BY <1>1, SubSeqFull
<1>3. CASE ~ (Len(s) <= Len(t))
  BY <1>3 DEF IsPrefix
<1>4. CASE Len(s) <= Len(t)
  <2> DEFINE u == SubSeq(t, 1, Len(s))
  <2>1. u \in Seq(S) /\ Len(u) = Len(s) /\ \A i \in 1 .. Len(s) : u[i] = t[i]
    <3>1. \A i \in 1 .. Len(s) : t[i] \in S
      BY <1>1, <1>4
    <3> QED
      BY <1>1, <1>4, <3>1
  <2> HIDE DEF u
  <2>2. s = u <=> \A i \in 1 .. Len(s) : s[i] = u[i]
    BY <1>1, <2>1, SeqEqual
  <2>3. IsPrefix(s, t) <=> s = u
    BY <1>2, <1>4 DEF IsPrefix, u
  <2> QED
    BY <1>4, <2>1, <2>2, <2>3
<1> QED
  BY <1>3, <1>4

\* A text begins with its first part, and the rest of it is the second.
LEMMA PrefixOfJoined ==
  ASSUME NEW s \in Text, NEW t \in Text
  PROVE  IsPrefix(s, s \o t) /\ IsPrefix(s, s) /\ IsPrefix(<<>>, s)
<1>1. s \o t \in Text /\ Len(s \o t) = Len(s) + Len(t) /\ Len(s) \in Nat /\ Len(t) \in Nat
      /\ \A i \in 1 .. Len(s) : (s \o t)[i] = s[i]
  BY Joins
<1>2. Len(s) <= Len(s \o t)
  BY <1>1
<1>3. <<>> \in Text /\ Len(<<>>) = 0 /\ \A i \in 1 .. 0 : FALSE
  BY TextTypes
<1>4. IsPrefix(s, s \o t)
  BY <1>1, <1>2, PrefixItems
<1>5. IsPrefix(s, s)
  BY <1>1, PrefixItems
<1>6. IsPrefix(<<>>, s)
  BY <1>1, <1>3, PrefixItems
<1> QED
  BY <1>4, <1>5, <1>6

\* A beginning of a beginning is a beginning.
LEMMA PrefixTrans ==
  ASSUME NEW s \in Text, NEW t \in Text, NEW u \in Text, IsPrefix(s, t), IsPrefix(t, u)
  PROVE  IsPrefix(s, u)
<1>1. Len(s) \in Nat /\ Len(t) \in Nat /\ Len(u) \in Nat
  BY Joins
<1>2. /\ Len(s) <= Len(t) /\ \A i \in 1 .. Len(s) : s[i] = t[i]
      /\ Len(t) <= Len(u) /\ \A i \in 1 .. Len(t) : t[i] = u[i]
  BY PrefixItems
<1>3. Len(s) <= Len(u) /\ \A i \in 1 .. Len(s) : i \in 1 .. Len(t)
  BY <1>1, <1>2
<1>4. \A i \in 1 .. Len(s) : s[i] = u[i]
  BY <1>2, <1>3
<1> QED
  BY <1>3, <1>4, PrefixItems

\* Nothing but the empty text is a beginning of the empty text.
LEMMA NoPrefixOfNothing ==
  ASSUME NEW s \in Text, s # <<>>
  PROVE  ~ IsPrefix(s, <<>>)
<1>1. Len(s) \in Nat /\ Len(s) # 0
  BY DEF Text
<1>2. Len(<<>>) = 0 /\ <<>> \in Text
  BY TextTypes
<1> QED
  BY <1>1, <1>2, PrefixItems

\* A text that begins with s is s and the rest.
LEMMA PrefixAndRest ==
  ASSUME NEW s \in Text, NEW t \in Text, IsPrefix(s, t)
  PROVE  /\ SubSeq(t, Len(s) + 1, Len(t)) \in Text
         /\ s \o SubSeq(t, Len(s) + 1, Len(t)) = t
<1> DEFINE S == Words \cup {Written}
           u == SubSeq(t, Len(s) + 1, Len(t))
<1> HIDE DEF S
<1>1. s \in Seq(S) /\ t \in Seq(S) /\ Len(s) \in Nat /\ Len(t) \in Nat /\ Text = Seq(S)
  BY DEF Text, S
<1>2. Len(s) <= Len(t) /\ \A i \in 1 .. Len(s) : s[i] = t[i]
  BY PrefixItems
<1>3. /\ u \in Seq(S) /\ Len(u) = Len(t) - Len(s)
      /\ \A i \in 1 .. Len(t) - Len(s) : u[i] = t[Len(s) + i]
  <2>1. \A i \in Len(s) + 1 .. Len(t) : t[i] \in S
    BY <1>1
  <2> QED
    BY <1>1, <1>2, <2>1
<1> HIDE DEF u
<1> DEFINE su == s \o u
<1>4. /\ su \in Seq(S) /\ Len(su) = Len(s) + Len(u)
      /\ \A i \in 1 .. Len(s) : su[i] = s[i]
      /\ \A i \in 1 .. Len(u) : su[Len(s) + i] = u[i]
  BY <1>1, <1>3, Joins
<1> HIDE DEF su
<1>5. Len(su) = Len(t)
  BY <1>1, <1>2, <1>3, <1>4
<1>6. ASSUME NEW i \in 1 .. Len(t) PROVE su[i] = t[i]
  <2>1. CASE i <= Len(s)
    BY <1>1, <1>2, <1>4, <2>1
  <2>2. CASE ~ (i <= Len(s))
    <3>1. i - Len(s) \in 1 .. Len(t) - Len(s) /\ Len(s) + (i - Len(s)) = i
      BY <1>1, <2>2
    <3>2. su[Len(s) + (i - Len(s))] = u[i - Len(s)]
      BY <1>3, <1>4, <3>1
    <3>3. u[i - Len(s)] = t[Len(s) + (i - Len(s))]
      BY <1>3, <3>1
    <3> QED
      BY <3>1, <3>2, <3>3
  <2> QED
    BY <2>1, <2>2
<1>7. su = t
  BY <1>1, <1>4, <1>5, <1>6, SeqEqual
<1> QED
  BY <1>1, <1>3, <1>7 DEF u, su

\* mergePendingStreamChunk and getAppendableChunk return text.
LEMMA ChunkTypes ==
  ASSUME NEW current \in Text, NEW chunk \in Text
  PROVE  MergeChunk(current, chunk) \in Text /\ AppendableChunk(current, chunk) \in Text
<1>1. current \o chunk \in Text
  BY Joins
<1>2. CASE IsPrefix(current, chunk)
  <2>1. SubSeq(chunk, Len(current) + 1, Len(chunk)) \in Text
    BY <1>2, PrefixAndRest
  <2> QED
    BY <1>1, <2>1 DEF MergeChunk, AppendableChunk
<1>3. CASE ~ IsPrefix(current, chunk)
  BY <1>1, <1>3 DEF MergeChunk, AppendableChunk
<1> QED
  BY <1>2, <1>3

\* What a flush makes of the text shown.
Joined(text, buffer) == text \o AppendableChunk(text, buffer)

\* After a flush, all that was received is shown.
LEMMA ShownAndBuffered ==
  ASSUME NEW shown \in Text, NEW buffer \in Text, NEW all \in Text, NEW snapshot \in BOOLEAN,
         Buffered(shown, buffer, all, snapshot)
  PROVE  Joined(shown, buffer) = all /\ (buffer = <<>> => shown = all)
<1>1. shown \o <<>> = shown /\ <<>> \o all = all
  BY Joins
<1>2. CASE snapshot /\ buffer = <<>> /\ shown = all
  <2>1. AppendableChunk(shown, buffer) = <<>>
    BY <1>2, NoPrefixOfNothing DEF AppendableChunk
  <2> QED
    BY <1>1, <1>2, <2>1 DEF Joined
<1>3. CASE snapshot /\ buffer = all /\ IsPrefix(shown, all)
  <2>1. shown = <<>> => Joined(shown, buffer) = all
    BY <1>1, <1>3 DEF Joined, AppendableChunk
  <2>2. shown # <<>> => Joined(shown, buffer) = all
    BY <1>3, PrefixAndRest DEF Joined, AppendableChunk
  <2>3. buffer = <<>> => shown = <<>>
    BY <1>3, NoPrefixOfNothing
  <2> QED
    BY <1>3, <2>1, <2>2, <2>3
<1>4. CASE ~ snapshot
  <2>1. all = shown \o buffer /\ (shown # <<>> => ~ IsPrefix(shown, buffer))
    BY <1>4 DEF Buffered
  <2>2. AppendableChunk(shown, buffer) = buffer
    BY <2>1 DEF AppendableChunk
  <2> QED
    BY <1>1, <2>1, <2>2 DEF Joined
<1> QED
  BY <1>2, <1>3, <1>4 DEF Buffered

\* Then the buffer starts anew.
LEMMA NothingBuffered ==
  ASSUME NEW all \in Text, NEW snapshot \in BOOLEAN
  PROVE  Buffered(all, <<>>, all, snapshot)
<1>1. IsPrefix(all, all) /\ all \o <<>> = all
  BY Joins, PrefixOfJoined
<1>2. all # <<>> => ~ IsPrefix(all, <<>>)
  BY NoPrefixOfNothing
<1> QED
  BY <1>1, <1>2 DEF Buffered

\* A chunk that arrives before the timer is merged into the buffer; a part that
\* looks like a snapshot is misread.
LEMMA ChunkMerges ==
  ASSUME NEW shown \in Text, NEW buffer \in Text, NEW all \in Text, NEW part \in Text,
         NEW snapshot \in BOOLEAN, Buffered(shown, buffer, all, snapshot),
         snapshot \/ ~ LooksLikeSnapshot(shown, buffer, part)
  PROVE  Buffered(shown, MergeChunk(buffer, IF snapshot THEN all \o part ELSE part),
                  all \o part, snapshot)
<1>1. CASE snapshot
  <2>1. all \o part \in Text /\ <<>> \o (all \o part) = all \o part
    BY Joins
  <2>2. IsPrefix(all, all \o part)
    BY PrefixOfJoined
  <2>3. IsPrefix(shown, all) /\ (buffer = all \/ buffer = <<>>)
    BY <1>1 DEF Buffered
  <2>4. IsPrefix(shown, all \o part)
    BY <2>1, <2>2, <2>3, PrefixTrans
  <2>5. MergeChunk(buffer, all \o part) = all \o part
    BY <2>1, <2>2, <2>3 DEF MergeChunk
  <2> QED
    BY <1>1, <2>4, <2>5 DEF Buffered
<1>2. CASE ~ snapshot
  <2>1. all = shown \o buffer /\ (shown # <<>> => ~ IsPrefix(shown, buffer))
    BY <1>2 DEF Buffered
  <2>2. MergeChunk(buffer, part) = buffer \o part
    BY <1>2 DEF LooksLikeSnapshot, MergeChunk
  <2>3. shown # <<>> => ~ IsPrefix(shown, MergeChunk(buffer, part))
    BY <1>2 DEF LooksLikeSnapshot
  <2>4. (shown \o buffer) \o part = shown \o (buffer \o part)
    BY JoinsInTurn, Zenon
  <2> QED
    BY <1>2, <2>1, <2>2, <2>3, <2>4 DEF Buffered
<1> QED
  BY <1>1, <1>2

-----------------------------------------------------------------------------
(* Messages.                                                                *)

\* What the page does to a message keeps its key and its author.
LEMMA MessageSteps ==
  ASSUME NEW m \in Message
  PROVE  /\ Complete(m) \in Message /\ Complete(m).key = m.key /\ Complete(m).from = m.from
         /\ Complete(m).status = "complete" /\ Complete(m).text = m.text
         /\ Failed(m) \in Message /\ Failed(m).key = m.key /\ Failed(m).from = m.from
         /\ Failed(m).status = "error" /\ Failed(m).text = <<Written>>
<1>1. PICK text \in Text : text = <<Written>>
  BY TextTypes
<1>2. Failed(m) = [m EXCEPT !.status = "error", !.text = text]
  BY <1>1 DEF Failed
<1>3. [m EXCEPT !.status = "error", !.text = text] \in Message
  BY DEF Message, Statuses
<1>4. Complete(m) \in Message
  BY DEF Complete, Message, Statuses
<1> QED
  BY <1>1, <1>2, <1>3, <1>4 DEF Complete, Failed, Message

\* What completing and stopping do to a message.
LEMMA FinishedSteps ==
  ASSUME NEW m \in Message
  PROVE  /\ Finished(m) \in Message /\ Finished(m).key = m.key /\ Finished(m).from = m.from
         /\ Finished(m).text = m.text /\ ~ IsPending(Finished(m))
         /\ Stopped(m) \in Message /\ Stopped(m).key = m.key /\ Stopped(m).from = m.from
         /\ Stopped(m).text = m.text /\ ~ IsPending(Stopped(m))
<1>1. m.status \in Statuses
  BY DEF Message
<1>2. ~ IsPending(Complete(m))
  BY MessageSteps DEF IsPending
<1>3. Finished(m) \in {m, Complete(m)} /\ Stopped(m) \in {m, Complete(m)}
  BY DEF Finished, Stopped
<1>4. ~ IsPending(Finished(m)) /\ ~ IsPending(Stopped(m))
  BY <1>1, <1>2 DEF Finished, Stopped, IsPending, IsFinal
<1> QED
  BY <1>2, <1>3, <1>4, MessageSteps

\* What loading does to a message.
LEMMA NormalizedSteps ==
  ASSUME NEW m \in Message, NEW long \in BOOLEAN
  PROVE  LET new == Normalized(m, long)
         IN  /\ new \in Message /\ new.key = m.key /\ new.from = m.from
             /\ new.text \in {<<Written>>, m.text}
             /\ IsPending(new) => IsPending(m)
<1>1. PICK text \in Text : /\ text = IF long /\ HasContent(m) THEN <<Written>> ELSE m.text
                           /\ text \in {<<Written>>, m.text}
  BY TextTypes DEF Message
<1>2. PICK status \in Statuses :
        /\ status = IF IsPending(m) /\ HasContent(m) THEN "complete" ELSE m.status
        /\ status \in {"complete", m.status}
  BY DEF Message, Statuses
<1>3. Normalized(m, long) = [m EXCEPT !.text = text, !.status = status]
  BY <1>1, <1>2 DEF Normalized
<1> DEFINE new == [m EXCEPT !.text = text, !.status = status]
<1>4. /\ new \in Message /\ new.key = m.key /\ new.from = m.from
      /\ new.text = text /\ new.status = status
  BY DEF Message
<1> QED
  BY <1>1, <1>2, <1>3, <1>4 DEF IsPending

\* What applyStreamingChunk does to a message.
LEMMA ApplySteps ==
  ASSUME NEW m \in Message, NEW chunk \in Text
  PROVE  /\ ApplyChunk(m, chunk) \in Message
         /\ ApplyChunk(m, chunk).key = m.key /\ ApplyChunk(m, chunk).from = m.from
         /\ m.status = "error" => ApplyChunk(m, chunk) = m
         /\ m.status # "error" =>
              /\ ApplyChunk(m, chunk).text = Joined(m.text, chunk)
              /\ ApplyChunk(m, chunk).status = "streaming"
<1>1. m.text \in Text
  BY DEF Message
<1>2. PICK text \in Text : text = Joined(m.text, chunk)
  <2>1. AppendableChunk(m.text, chunk) \in Text
    BY <1>1, ChunkTypes
  <2>2. m.text \o AppendableChunk(m.text, chunk) \in Text
    BY <1>1, <2>1, Joins
  <2> QED
    BY <2>2 DEF Joined
<1>3. ApplyChunk(m, chunk) = IF m.status = "error" THEN m
                             ELSE [m EXCEPT !.text = text, !.status = "streaming"]
  BY <1>2 DEF ApplyChunk, Joined
<1>4. [m EXCEPT !.text = text, !.status = "streaming"] \in Message
  BY DEF Message, Statuses
<1> QED
  BY <1>2, <1>3, <1>4 DEF Message

\* The two messages a question creates.
LEMMA NewMessages ==
  ASSUME NEW k \in Keys
  PROVE  /\ UserMessage(k) \in Message /\ UserMessage(k).key = k /\ ~ IsPending(UserMessage(k))
         /\ UserMessage(k).text = <<Written>>
         /\ LoadingMessage(k) \in Message /\ LoadingMessage(k).key = k
         /\ IsPending(LoadingMessage(k)) /\ LoadingMessage(k).from = "assistant"
         /\ LoadingMessage(k).text = <<>> /\ LoadingMessage(k).status = "loading"
<1>1. PICK text \in Text : text = <<Written>>
  BY TextTypes
<1>2. UserMessage(k) = [key |-> k, from |-> "user", status |-> "none", text |-> text]
  BY <1>1 DEF UserMessage
<1>3. UserMessage(k) \in Message
  BY <1>2 DEF Message, Statuses
<1>4. LoadingMessage(k) \in Message
  <2>1. PICK none \in Text : none = <<>>
    BY TextTypes
  <2>2. LoadingMessage(k) = [key |-> k, from |-> "assistant", status |-> "loading", text |-> none]
    BY <2>1 DEF LoadingMessage
  <2> QED
    BY <2>2 DEF Message, Statuses
<1> QED
  BY <1>1, <1>2, <1>3, <1>4 DEF LoadingMessage, IsPending

-----------------------------------------------------------------------------
(* Conversations.                                                           *)

\* The same conversation, but for what its last message says.
Touched(ms, new) ==
  /\ new \in Seq(Message) /\ Len(new) = Len(ms)
  /\ \A i \in 1 .. Len(ms) : new[i].key = ms[i].key /\ new[i].from = ms[i].from
  /\ \A i \in 1 .. Len(ms) : i # Len(ms) => new[i] = ms[i]

Answering(ms) == ms # <<>> /\ ms[Len(ms)].from = "assistant"

Put(ms, m) == IF Answering(ms) THEN ReplaceAt(ms, Len(ms), m) ELSE ms

\* Replacing the last message leaves the others alone.
LEMMA PutTouches ==
  ASSUME NEW ms \in Seq(Message), NEW m,
         ms # <<>> => m \in Message /\ m.key = ms[Len(ms)].key /\ m.from = ms[Len(ms)].from
  PROVE  /\ Touched(ms, Put(ms, m))
         /\ Answering(ms) => Put(ms, m)[Len(ms)] = m
         /\ ~ Answering(ms) => Put(ms, m) = ms
  BY DEF Put, Touched, Answering, ReplaceAt

\* Two changes of the last message in a row are one.
LEMMA TouchedTrans ==
  ASSUME NEW a \in Seq(Message), NEW b, NEW c, Touched(a, b), Touched(b, c)
  PROVE  Touched(a, c) /\ (Answering(a) <=> Answering(b)) /\ (Answering(b) <=> Answering(c))
  BY DEF Touched, Answering

\* A change of the last message keeps the keys distinct.
LEMMA TouchedKeyed ==
  ASSUME NEW last, NEW ms, NEW new, Keyed(ms, last), Touched(ms, new)
  PROVE  Keyed(new, last)
  BY DEF Keyed, Touched

\* The last message is a message.
LEMMA LastIn ==
  ASSUME NEW ms \in Seq(Message), ms # <<>>
  PROVE  Len(ms) \in 1 .. Len(ms) /\ ms[Len(ms)] \in Message
  OBVIOUS

\* A chunk changes the last message only.
LEMMA AppendedTouches ==
  ASSUME NEW ms \in Seq(Message), NEW buffer \in Text
  PROVE  /\ Touched(ms, Appended(ms, buffer))
         /\ ~ Answering(ms) => Appended(ms, buffer) = ms
         /\ Answering(ms) => Appended(ms, buffer)[Len(ms)] = ApplyChunk(ms[Len(ms)], buffer)
<1>1. Appended(ms, buffer) = Put(ms, ApplyChunk(ms[Len(ms)], buffer))
  BY DEF Appended, UpdateLast, Put, Answering, Last
<1>2. ms # <<>> => ms[Len(ms)] \in Message
  BY LastIn
<1>3. ms # <<>> => /\ ApplyChunk(ms[Len(ms)], buffer) \in Message
                   /\ ApplyChunk(ms[Len(ms)], buffer).key = ms[Len(ms)].key
                   /\ ApplyChunk(ms[Len(ms)], buffer).from = ms[Len(ms)].from
  BY <1>2, ApplySteps
<1> QED
  BY <1>1, <1>3, PutTouches

\* The same of a flush, which does nothing while the buffer is empty.
LEMMA FlushedTouches ==
  ASSUME NEW ms \in Seq(Message), pending \in Text
  PROVE  /\ Touched(ms, Flushed(ms))
         /\ pending = <<>> => Flushed(ms) = ms
         /\ ~ Answering(ms) => Flushed(ms) = ms
         /\ pending # <<>> /\ Answering(ms)
              => Flushed(ms)[Len(ms)] = ApplyChunk(ms[Len(ms)], pending)
<1>1. Touched(ms, ms)
  BY DEF Touched
<1> QED
  BY <1>1, AppendedTouches DEF Flushed

\* A failure flushes the buffer, then replaces the last text by the error.
LEMMA FailedTouches ==
  ASSUME NEW ms \in Seq(Message), pending \in Text
  PROVE  LET new == UpdateLast(Flushed(ms), Failed)
         IN  /\ Touched(ms, new)
             /\ ~ Answering(ms) => new = ms
             /\ Answering(ms) => ~ IsPending(new[Len(ms)]) /\ new[Len(ms)].text = <<Written>>
<1> DEFINE mid == Flushed(ms)
           new == Put(mid, Failed(mid[Len(mid)]))
<1>1. UpdateLast(Flushed(ms), Failed) = new
  BY DEF UpdateLast, Put, Answering, Last
<1>2. Touched(ms, mid) /\ (~ Answering(ms) => mid = ms)
  BY FlushedTouches
<1> HIDE DEF mid
<1>3. mid \in Seq(Message) /\ Len(mid) = Len(ms)
  BY <1>2 DEF Touched
<1>4. mid # <<>> => mid[Len(mid)] \in Message
  BY <1>3, LastIn
<1>5. /\ Touched(mid, new)
      /\ Answering(mid) => new[Len(mid)] = Failed(mid[Len(mid)])
      /\ ~ Answering(mid) => new = mid
  BY <1>3, <1>4, MessageSteps, PutTouches
<1> HIDE DEF new
<1>6. Touched(ms, new) /\ (Answering(ms) <=> Answering(mid))
  BY <1>2, <1>5, TouchedTrans
<1>7. Answering(mid) => ~ IsPending(new[Len(ms)]) /\ new[Len(ms)].text = <<Written>>
  BY <1>3, <1>4, <1>5, MessageSteps DEF IsPending, Answering
<1> QED
  BY <1>1, <1>2, <1>5, <1>6, <1>7

\* Stopping flushes the buffer and keeps the text that was shown.
LEMMA StoppedTouches ==
  ASSUME NEW ms \in Seq(Message), pending \in Text
  PROVE  LET new == UpdateLast(Flushed(ms), Stopped)
         IN  /\ Touched(ms, new)
             /\ ~ Answering(ms) => new = ms
             /\ Answering(ms) => /\ ~ IsPending(new[Len(ms)])
                                /\ new[Len(ms)].text = Flushed(ms)[Len(ms)].text
<1> DEFINE mid == Flushed(ms)
           new == Put(mid, Stopped(mid[Len(mid)]))
<1>1. UpdateLast(Flushed(ms), Stopped) = new
  BY DEF UpdateLast, Put, Answering, Last
<1>2. Touched(ms, mid) /\ (~ Answering(ms) => mid = ms)
  BY FlushedTouches
<1> HIDE DEF mid
<1>3. mid \in Seq(Message) /\ Len(mid) = Len(ms)
  BY <1>2 DEF Touched
<1>4. mid # <<>> => mid[Len(mid)] \in Message
  BY <1>3, LastIn
<1>5. /\ Touched(mid, new)
      /\ Answering(mid) => new[Len(mid)] = Stopped(mid[Len(mid)])
      /\ ~ Answering(mid) => new = mid
  BY <1>3, <1>4, FinishedSteps, PutTouches
<1> HIDE DEF new
<1>6. Touched(ms, new) /\ (Answering(ms) <=> Answering(mid))
  BY <1>2, <1>5, TouchedTrans
<1>7. Answering(mid) => ~ IsPending(new[Len(ms)]) /\ new[Len(ms)].text = mid[Len(ms)].text
  BY <1>3, <1>4, <1>5, FinishedSteps DEF Answering
<1> QED
  BY <1>1, <1>2, <1>5, <1>6, <1>7 DEF mid

\* Completing flushes the buffer and keeps the text that was shown.
LEMMA FinishedTouches ==
  ASSUME NEW ms \in Seq(Message), pending \in Text
  PROVE  LET new == UpdateLast(Flushed(ms), Finished)
         IN  /\ Touched(ms, new)
             /\ ~ Answering(ms) => new = ms
             /\ Answering(ms) => /\ ~ IsPending(new[Len(ms)])
                                /\ new[Len(ms)].text = Flushed(ms)[Len(ms)].text
<1> DEFINE mid == Flushed(ms)
           new == Put(mid, Finished(mid[Len(mid)]))
<1>1. UpdateLast(Flushed(ms), Finished) = new
  BY DEF UpdateLast, Put, Answering, Last
<1>2. Touched(ms, mid) /\ (~ Answering(ms) => mid = ms)
  BY FlushedTouches
<1> HIDE DEF mid
<1>3. mid \in Seq(Message) /\ Len(mid) = Len(ms)
  BY <1>2 DEF Touched
<1>4. mid # <<>> => mid[Len(mid)] \in Message
  BY <1>3, LastIn
<1>5. /\ Touched(mid, new)
      /\ Answering(mid) => new[Len(mid)] = Finished(mid[Len(mid)])
      /\ ~ Answering(mid) => new = mid
  BY <1>3, <1>4, FinishedSteps, PutTouches
<1> HIDE DEF new
<1>6. Touched(ms, new) /\ (Answering(ms) <=> Answering(mid))
  BY <1>2, <1>5, TouchedTrans
<1>7. Answering(mid) => ~ IsPending(new[Len(ms)]) /\ new[Len(ms)].text = mid[Len(ms)].text
  BY <1>3, <1>4, <1>5, FinishedSteps DEF Answering
<1> QED
  BY <1>1, <1>2, <1>5, <1>6, <1>7 DEF mid

\* The continuation of a request that is answered.
LEMMA ReplyTouches ==
  ASSUME NEW ms \in Seq(Message), NEW text \in Text
  PROVE  LET new == Replied(ms, text)
         IN  /\ Touched(ms, new)
             /\ ~ Answering(ms) => new = ms
             /\ Answering(ms) => ~ IsPending(new[Len(ms)]) /\ new[Len(ms)].text = text
<1> DEFINE reply(m) == [m EXCEPT !.text = text, !.status = "complete"]
           new == Put(ms, reply(ms[Len(ms)]))
<1>1. Replied(ms, text) = new
  BY DEF Replied, UpdateLast, Put, Answering, Last
<1>2. ASSUME NEW m \in Message
      PROVE  /\ reply(m) \in Message /\ reply(m).key = m.key /\ reply(m).from = m.from
             /\ reply(m).text = text /\ ~ IsPending(reply(m))
  <2>1. reply(m) \in Message
    BY DEF Message, Statuses
  <2> QED
    BY <2>1 DEF Message, IsPending
<1> HIDE DEF reply
<1>3. ms # <<>> => ms[Len(ms)] \in Message
  BY LastIn
<1>4. /\ Touched(ms, new)
      /\ Answering(ms) => new[Len(ms)] = reply(ms[Len(ms)])
      /\ ~ Answering(ms) => new = ms
  BY <1>2, <1>3, PutTouches
<1> HIDE DEF new
<1>5. Answering(ms) => ~ IsPending(new[Len(ms)]) /\ new[Len(ms)].text = text
  BY <1>2, <1>3, <1>4 DEF Answering
<1> QED
  BY <1>1, <1>4, <1>5

\* All messages of a conversation are settled.
Quiet(ms, all, wrong) ==
  \A i \in 1 .. Len(ms) : InOrder(ms[i], all, wrong) /\ ~ IsPending(ms[i])

\* The keys of a prefix are distinct.
LEMMA PrefixKeyed ==
  ASSUME NEW last, NEW ms, Keyed(ms, last), NEW n \in 0 .. Len(ms)
  PROVE  /\ Keyed(SubSeq(ms, 1, n), last)
         /\ Len(SubSeq(ms, 1, n)) = n
         /\ \A i \in 1 .. n : SubSeq(ms, 1, n)[i] = ms[i]
<1>1. ms \in Seq(Message) /\ Len(ms) \in Nat /\ n \in Nat /\ n <= Len(ms)
  BY DEF Keyed
<1>2. \A i \in 1 .. n : ms[i] \in Message
  BY <1>1
<1>3. /\ SubSeq(ms, 1, n) \in Seq(Message)
      /\ Len(SubSeq(ms, 1, n)) = n
      /\ \A i \in 1 .. n : SubSeq(ms, 1, n)[i] = ms[i]
  BY <1>1, <1>2
<1> DEFINE p == SubSeq(ms, 1, n)
<1> HIDE DEF p
<1>4. \A i \in 1 .. n : i \in 1 .. Len(ms)
  BY <1>1
<1>5. \A i \in 1 .. n : ms[i].key <= last
  BY <1>4 DEF Keyed
<1>6. \A i, j \in 1 .. n : ms[i].key = ms[j].key => i = j
  BY <1>4 DEF Keyed
<1>7. p \in Seq(Message) /\ Len(p) = n /\ \A i \in 1 .. n : p[i] = ms[i]
  BY <1>3 DEF p
<1>8. Keyed(p, last)
  BY <1>5, <1>6, <1>7 DEF Keyed
<1> QED
  BY <1>3, <1>8 DEF p

\* A message with a new key keeps the keys distinct.
LEMMA AppendKeyed ==
  ASSUME NEW last \in Nat, NEW ms, Keyed(ms, last), NEW m \in Message, m.key > last
  PROVE  /\ Keyed(ms \o <<m>>, m.key)
         /\ Len(ms \o <<m>>) = Len(ms) + 1
         /\ \A i \in 1 .. Len(ms) : (ms \o <<m>>)[i] = ms[i]
         /\ (ms \o <<m>>)[Len(ms) + 1] = m
<1> DEFINE new == ms \o <<m>>
<1>1. ms \in Seq(Message) /\ Len(ms) \in Nat
  BY DEF Keyed
<1>2. /\ new \in Seq(Message) /\ Len(new) = Len(ms) + 1
      /\ \A i \in 1 .. Len(ms) : new[i] = ms[i]
      /\ new[Len(ms) + 1] = m
  BY <1>1
<1> HIDE DEF new
<1>3. \A i \in 1 .. Len(ms) : ms[i].key \in Int /\ ms[i].key <= last
  <2>1. \A i \in 1 .. Len(ms) : ms[i] \in Message
    BY <1>1
  <2>2. MaxKeys \in Nat
    BY PlaygroundAssumption DEF PlaygroundAssumption
  <2> QED
    BY <2>1, <2>2 DEF Keyed, Message, Keys
<1>4. m.key \in Int
  BY PlaygroundAssumption DEF PlaygroundAssumption, Message, Keys
<1>5. \A i \in 1 .. Len(new) : i \in 1 .. Len(ms) \/ i = Len(ms) + 1
  BY <1>1, <1>2
<1>6. \A i \in 1 .. Len(new) : new[i].key <= m.key
  BY <1>2, <1>3, <1>4, <1>5
<1>7. ASSUME NEW i \in 1 .. Len(new), NEW j \in 1 .. Len(new), new[i].key = new[j].key
      PROVE  i = j
  BY <1>2, <1>3, <1>4, <1>5, <1>7 DEF Keyed
<1> QED
  BY <1>2, <1>6, <1>7 DEF Keyed, new

\* The last n messages of a conversation.
LEMMA RecentKeyed ==
  ASSUME NEW last, NEW ms, Keyed(ms, last), NEW n \in Nat \ {0}
  PROVE  LET off == IF Len(ms) > n THEN Len(ms) - n ELSE 0
         IN  /\ Keyed(Recent(ms, n), last) /\ Len(Recent(ms, n)) <= n
             /\ off \in Nat /\ Len(Recent(ms, n)) = Len(ms) - off
             /\ \A i \in 1 .. Len(Recent(ms, n)) : off + i \in 1 .. Len(ms) /\ Recent(ms, n)[i] = ms[off + i]
             /\ Len(ms) <= n => Recent(ms, n) = ms
<1> DEFINE off == IF Len(ms) > n THEN Len(ms) - n ELSE 0
           new == Recent(ms, n)
<1>1. ms \in Seq(Message) /\ Len(ms) \in Nat
  BY DEF Keyed
<1>2. new = SubSeq(ms, off + 1, Len(ms))
  BY <1>1 DEF Recent
<1>3. off \in Nat /\ off <= Len(ms) /\ Len(ms) - off <= n
  BY <1>1
<1>4. Len(ms) <= n => off = 0
  BY <1>1
<1> HIDE DEF off, new
<1>5. \A i \in off + 1 .. Len(ms) : ms[i] \in Message
  BY <1>1, <1>3
<1>6. /\ new \in Seq(Message) /\ Len(new) = Len(ms) - off
      /\ \A i \in 1 .. Len(ms) - off : new[i] = ms[off + i]
  BY <1>1, <1>2, <1>3, <1>5
<1>7. \A i \in 1 .. Len(new) : off + i \in 1 .. Len(ms)
  BY <1>1, <1>3, <1>6
<1>8. Keyed(new, last)
  <2>1. \A i \in 1 .. Len(new) : new[i].key <= last
    BY <1>6, <1>7 DEF Keyed
  <2>2. ASSUME NEW i \in 1 .. Len(new), NEW j \in 1 .. Len(new), new[i].key = new[j].key
        PROVE  i = j
    <3>1. off + i = off + j
      BY <1>6, <1>7, <2>2 DEF Keyed
    <3> QED
      BY <1>3, <3>1
  <2> QED
    BY <1>6, <2>1, <2>2 DEF Keyed
<1>9. Len(ms) <= n => new = ms
  <2>1. SUFFICES ASSUME Len(ms) <= n PROVE new = ms
    OBVIOUS
  <2>2. new = SubSeq(ms, 1, Len(ms))
    BY <1>2, <1>4, <2>1
  <2> QED
    BY <1>1, <2>2, SubSeqFull
<1>10. Len(new) <= n
  BY <1>3, <1>6
<1> QED
  BY <1>3, <1>6, <1>7, <1>8, <1>9, <1>10 DEF off, new

\* They are in order if the conversation is.
LEMMA RecentProper ==
  ASSUME NEW last, NEW ms, Keyed(ms, last), NEW n \in Nat \ {0},
         NEW all, NEW wrong, Proper(ms, all, wrong)
  PROVE  Proper(Recent(ms, n), all, wrong)
<1> DEFINE off == IF Len(ms) > n THEN Len(ms) - n ELSE 0
           new == Recent(ms, n)
<1>1. /\ Keyed(new, last) /\ off \in Nat /\ Len(new) = Len(ms) - off
      /\ \A i \in 1 .. Len(new) : off + i \in 1 .. Len(ms) /\ new[i] = ms[off + i]
  BY RecentKeyed
<1> HIDE DEF off, new
<1>2. Len(ms) \in Nat /\ Len(new) \in Nat
  BY <1>1 DEF Keyed
<1>3. ASSUME NEW i \in 1 .. Len(new)
      PROVE  /\ InOrder(new[i], all, wrong)
             /\ IsPending(new[i]) => i = Len(new) /\ new[i].from = "assistant"
  <2>1. /\ InOrder(ms[off + i], all, wrong)
        /\ IsPending(ms[off + i]) => off + i = Len(ms) /\ ms[off + i].from = "assistant"
    BY <1>1 DEF Proper
  <2>2. off + i = Len(ms) => i = Len(new)
    BY <1>1, <1>2
  <2> QED
    BY <1>1, <2>1, <2>2
<1> QED
  BY <1>3 DEF Proper, new

\* trimMessages keeps at most MaxStored messages.
LEMMA TrimKeyed ==
  ASSUME NEW last, NEW ms, Keyed(ms, last)
  PROVE  /\ Keyed(Trim(ms), last) /\ Len(Trim(ms)) <= MaxStored
         /\ Len(ms) <= MaxStored => Trim(ms) = ms
         /\ \A all, wrong : Proper(ms, all, wrong) => Proper(Trim(ms), all, wrong)
<1>1. MaxStored \in Nat \ {0}
  BY PlaygroundAssumption DEF PlaygroundAssumption
<1>2. ASSUME NEW all, NEW wrong, Proper(ms, all, wrong) PROVE Proper(Trim(ms), all, wrong)
  BY <1>1, <1>2, RecentProper DEF Trim
<1> QED
  BY <1>1, <1>2, RecentKeyed DEF Trim

\* An edit replaces one text and nothing else.
LEMMA EditKeyed ==
  ASSUME NEW last, NEW ms, Keyed(ms, last), NEW i \in 1 .. Len(ms)
  PROVE  LET new == Edited(ms, i)
         IN  /\ Keyed(new, last) /\ Len(new) = Len(ms)
             /\ new[i].text = <<Written>>
             /\ \A j \in 1 .. Len(ms) :
                  /\ new[j].key = ms[j].key /\ new[j].from = ms[j].from
                  /\ new[j].status = ms[j].status
                  /\ j # i => new[j] = ms[j]
<1>1. ms \in Seq(Message) /\ ms[i] \in Message
  BY DEF Keyed
<1>2. PICK text \in Text : text = <<Written>>
  BY TextTypes
<1> DEFINE m == [ms[i] EXCEPT !.text = text]
           new == [ms EXCEPT ![i] = m]
<1>3. Edited(ms, i) = new
  BY <1>2 DEF Edited
<1>4. /\ m \in Message /\ m.key = ms[i].key /\ m.from = ms[i].from /\ m.status = ms[i].status
      /\ m.text = <<Written>>
  BY <1>1, <1>2 DEF Message
<1> HIDE DEF m
<1>5. /\ new \in Seq(Message) /\ Len(new) = Len(ms) /\ new[i] = m
      /\ \A j \in 1 .. Len(ms) : j # i => new[j] = ms[j]
  BY <1>1, <1>4
<1> HIDE DEF new
<1>6. \A j \in 1 .. Len(ms) : new[j].key = ms[j].key /\ new[j].from = ms[j].from
                              /\ new[j].status = ms[j].status
  BY <1>4, <1>5
<1>7. Keyed(new, last)
  BY <1>5, <1>6 DEF Keyed
<1> QED
  BY <1>3, <1>4, <1>5, <1>6, <1>7

\* Deleting a message adds none and keeps the keys distinct.
LEMMA RemoveKeyed ==
  ASSUME NEW last, NEW ms, Keyed(ms, last), NEW k
  PROVE  LET new == RemoveMessageByKey(ms, k)
         IN  /\ Keyed(new, last)
             /\ \A j \in 1 .. Len(new) : \E i \in 1 .. Len(ms) : new[j] = ms[i]
<1>1. ms \in Seq(Message) /\ Len(ms) \in Nat
  BY DEF Keyed
<1> DEFINE x == IndexOf(ms, k)
           new == RemoveAt(ms, x)
<1>2. CASE ~ \E i \in 1 .. Len(ms) : ms[i].key = k
  <2>1. RemoveMessageByKey(ms, k) = ms
    BY <1>2 DEF RemoveMessageByKey, RemoveFirstMatch
  <2> QED
    BY <2>1
<1>3. CASE \E i \in 1 .. Len(ms) : ms[i].key = k
  <2>1. RemoveMessageByKey(ms, k) = new
    BY <1>3 DEF RemoveMessageByKey, RemoveFirstMatch, IndexOf
  <2>2. x \in 1 .. Len(ms)
    <3> DEFINE I == {i \in 1 .. Len(ms) : ms[i].key = k}
    <3>1. x = Min(I) /\ I # {}
      BY <1>3 DEF IndexOf, SelectInSeq
    <3>2. I \subseteq Nat /\ I \subseteq 1 .. Len(ms)
      BY <1>1
    <3> HIDE DEF I, x
    <3>3. Min(I) \in I
      BY <3>1, <3>2, LeastExists DEF Min
    <3> QED
      BY <3>1, <3>2, <3>3
  <2> HIDE DEF x
  <2>3. /\ new \in Seq(Message) /\ Len(new) = Len(ms) - 1
        /\ \A j \in 1 .. Len(new) : new[j] = IF j < x THEN ms[j] ELSE ms[j + 1]
    <3> DEFINE a == SubSeq(ms, 1, x - 1)
               b == SubSeq(ms, x + 1, Len(ms))
    <3>1. a \in Seq(Message) /\ Len(a) = x - 1 /\ \A j \in 1 .. x - 1 : a[j] = ms[j]
      BY <1>1, <2>2
    <3>2. /\ b \in Seq(Message) /\ Len(b) = Len(ms) - x
          /\ \A j \in 1 .. Len(ms) - x : b[j] = ms[x + j]
      BY <1>1, <2>2
    <3>3. new = a \o b
      BY DEF RemoveAt
    <3> HIDE DEF a, b, new
    <3>4. /\ new \in Seq(Message) /\ Len(new) = Len(a) + Len(b)
          /\ \A j \in 1 .. Len(a) + Len(b) : new[j] = IF j <= Len(a) THEN a[j] ELSE b[j - Len(a)]
      BY <3>1, <3>2, <3>3, ConcatProperties
    <3>5. Len(new) = Len(ms) - 1
      BY <1>1, <2>2, <3>1, <3>2, <3>4
    <3>6. ASSUME NEW j \in 1 .. Len(new) PROVE new[j] = IF j < x THEN ms[j] ELSE ms[j + 1]
      <4>1. CASE j < x
        BY <1>1, <2>2, <3>1, <3>4, <3>5, <4>1
      <4>2. CASE ~ (j < x)
        <5>1. j - (x - 1) \in 1 .. Len(ms) - x /\ x + (j - (x - 1)) = j + 1 /\ ~ (j <= x - 1)
          BY <1>1, <2>2, <3>5, <4>2
        <5> QED
          BY <1>1, <2>2, <3>1, <3>2, <3>4, <3>5, <4>2, <5>1
      <4> QED
        BY <4>1, <4>2
    <3> QED
      BY <3>4, <3>5, <3>6
  <2> HIDE DEF new
  <2>4. ASSUME NEW j \in 1 .. Len(new)
        PROVE  \E i \in 1 .. Len(ms) : new[j] = ms[i] /\ i = IF j < x THEN j ELSE j + 1
    BY <1>1, <2>2, <2>3
  <2>5. \A j \in 1 .. Len(new) : new[j].key <= last
    BY <2>4 DEF Keyed
  <2>6. ASSUME NEW i \in 1 .. Len(new), NEW j \in 1 .. Len(new), new[i].key = new[j].key
        PROVE  i = j
    <3>1. PICK ii \in 1 .. Len(ms) : new[i] = ms[ii] /\ ii = IF i < x THEN i ELSE i + 1
      BY <2>4
    <3>2. PICK jj \in 1 .. Len(ms) : new[j] = ms[jj] /\ jj = IF j < x THEN j ELSE j + 1
      BY <2>4
    <3>3. ii = jj
      BY <2>6, <3>1, <3>2 DEF Keyed
    <3> QED
      BY <1>1, <2>2, <3>1, <3>2, <3>3
  <2>7. Keyed(new, last)
    BY <2>3, <2>5, <2>6 DEF Keyed
  <2> QED
    BY <2>1, <2>4, <2>7
<1> QED
  BY <1>2, <1>3

\* A quiet conversation is proper.
LEMMA QuietProper ==
  ASSUME NEW ms, NEW all, NEW wrong, Quiet(ms, all, wrong)
  PROVE  Proper(ms, all, wrong)
  BY DEF Quiet, Proper

\* Reading the stored messages one by one.
LEMMA NormalizedAll ==
  ASSUME NEW last, NEW ms, Keyed(ms, last), NEW longs
  PROVE  LET new == [i \in 1 .. Len(ms) |-> Normalized(ms[i], i \in longs)]
         IN  /\ Keyed(new, last)
             /\ \A all, wrong : Proper(ms, all, wrong) => Proper(new, all, wrong)
<1> DEFINE new == [i \in 1 .. Len(ms) |-> Normalized(ms[i], i \in longs)]
<1>1. ms \in Seq(Message) /\ Len(ms) \in Nat /\ \A i \in 1 .. Len(ms) : ms[i] \in Message
  BY DEF Keyed
<1>2. ASSUME NEW i \in 1 .. Len(ms)
      PROVE  /\ new[i] \in Message /\ new[i].key = ms[i].key /\ new[i].from = ms[i].from
             /\ new[i].text \in {<<Written>>, ms[i].text}
             /\ IsPending(new[i]) => IsPending(ms[i])
  <2>1. PICK long \in BOOLEAN : new[i] = Normalized(ms[i], long)
    <3>1. CASE i \in longs
      BY <3>1 DEF Normalized
    <3>2. CASE i \notin longs
      BY <3>2 DEF Normalized
    <3> QED
      BY <3>1, <3>2
  <2> HIDE DEF new
  <2> QED
    BY <1>1, <2>1, NormalizedSteps
<1>3. new \in Seq(Message) /\ Len(new) = Len(ms)
  <2>1. \A i \in 1 .. Len(ms) : Normalized(ms[i], i \in longs) \in Message
    BY <1>2
  <2> QED
    BY <1>1, <2>1
<1> HIDE DEF new
<1>4. Keyed(new, last)
  BY <1>2, <1>3 DEF Keyed
<1>5. ASSUME NEW all, NEW wrong, Proper(ms, all, wrong) PROVE Proper(new, all, wrong)
  <2>1. ASSUME NEW i \in 1 .. Len(ms) PROVE InOrder(new[i], all, wrong)
    BY <1>2, <1>5 DEF Proper, InOrder
  <2> QED
    BY <1>2, <1>3, <1>5, <2>1 DEF Proper
<1> QED
  BY <1>4, <1>5 DEF new

\* If only the last message waits, none does once it is marked.
LEMMA SanitizedQuiet ==
  ASSUME NEW last, NEW ms, Keyed(ms, last)
  PROVE  /\ Keyed(Sanitized(ms), last) /\ Len(Sanitized(ms)) = Len(ms)
         /\ \A all, wrong : Proper(ms, all, wrong) => Quiet(Sanitized(ms), all, wrong)
<1> DEFINE x == SelectLastInSeq(ms, IsPending)
           new == IF x = 0 THEN ms ELSE ReplaceAt(ms, x, Failed(ms[x]))
<1>1. Sanitized(ms) = new
  BY DEF Sanitized
<1>2. ms \in Seq(Message) /\ Len(ms) \in Nat
  BY DEF Keyed
<1>3. \/ x = 0 /\ \A j \in 1 .. Len(ms) : ~ IsPending(ms[j])
      \/ x \in 1 .. Len(ms) /\ IsPending(ms[x])
  BY <1>2, LastPendingFound
<1> HIDE DEF x
<1>4. /\ new \in Seq(Message) /\ Len(new) = Len(ms)
      /\ \A i \in 1 .. Len(ms) : new[i].key = ms[i].key /\ (i # x => new[i] = ms[i])
      /\ x # 0 => new[x] = Failed(ms[x])
  <2>1. CASE x = 0
    BY <1>2, <2>1
  <2>2. CASE x # 0
    <3>1. x \in 1 .. Len(ms) /\ ms[x] \in Message
      BY <1>2, <1>3, <2>2
    <3>2. Failed(ms[x]) \in Message /\ Failed(ms[x]).key = ms[x].key
      BY <3>1, MessageSteps
    <3>3. new = [ms EXCEPT ![x] = Failed(ms[x])]
      BY <2>2 DEF ReplaceAt
    <3> QED
      BY <1>2, <3>1, <3>2, <3>3
  <2> QED
    BY <2>1, <2>2
<1> HIDE DEF new
<1>5. Keyed(new, last)
  BY <1>4 DEF Keyed
<1>6. ASSUME NEW all, NEW wrong, Proper(ms, all, wrong), NEW i \in 1 .. Len(ms)
      PROVE  InOrder(new[i], all, wrong) /\ ~ IsPending(new[i])
  <2>1. CASE i = x
    <3>1. ms[x] \in Message /\ x # 0
      BY <1>2, <2>1
    <3> QED
      BY <1>4, <2>1, <3>1, MessageSteps DEF InOrder, IsPending
  <2>2. CASE i # x
    <3>1. ~ IsPending(ms[i])
      BY <1>2, <1>3, <1>6, <2>2 DEF Proper
    <3> QED
      BY <1>4, <1>6, <2>2, <3>1 DEF Proper
  <2> QED
    BY <2>1, <2>2
<1> QED
  BY <1>1, <1>4, <1>5, <1>6 DEF Quiet

\* What the page reads from storage has no message that waits, if only the last
\* one of the stored conversation did.
LEMMA LoadedKeyed ==
  ASSUME NEW last, Keyed(stored, last), NEW ms \in Loadable
  PROVE  /\ Keyed(ms, last) /\ Len(ms) <= MaxStored
         /\ \A all, wrong : Proper(stored, all, wrong) => Quiet(ms, all, wrong)
<1>0. MaxStored \in Nat \ {0}
  BY PlaygroundAssumption DEF PlaygroundAssumption
<1>1. CASE ms = <<>>
  BY <1>0, <1>1 DEF Keyed, Quiet
<1>2. ASSUME NEW longs, NEW room \in 1 .. MaxStored, ms = LoadMessages(longs, room)
      PROVE  /\ Keyed(ms, last) /\ Len(ms) <= MaxStored
             /\ \A all, wrong : Proper(stored, all, wrong) => Quiet(ms, all, wrong)
  <2> DEFINE norm == [i \in 1 .. Len(stored) |-> Normalized(stored[i], i \in longs)]
             trim == Trim(norm)
             rest == Recent(trim, room)
  <2>1. Keyed(norm, last) /\ \A all, wrong : Proper(stored, all, wrong) => Proper(norm, all, wrong)
    BY NormalizedAll
  <2>2. ms = Sanitized(rest)
    BY <1>2 DEF LoadMessages
  <2> HIDE DEF norm
  <2>3. /\ Keyed(trim, last) /\ Len(trim) <= MaxStored
        /\ \A all, wrong : Proper(norm, all, wrong) => Proper(trim, all, wrong)
    BY <2>1, TrimKeyed
  <2> HIDE DEF trim
  <2>4. room \in Nat \ {0} /\ Len(trim) \in Nat
    BY <1>0, <2>3 DEF Keyed
  <2>5. Keyed(rest, last) /\ Len(rest) <= Len(trim)
    BY <2>3, <2>4, RecentKeyed
  <2>6. ASSUME NEW all, NEW wrong, Proper(trim, all, wrong) PROVE Proper(rest, all, wrong)
    BY <2>3, <2>4, <2>6, RecentProper
  <2> HIDE DEF rest
  <2>7. /\ Keyed(Sanitized(rest), last) /\ Len(Sanitized(rest)) = Len(rest)
        /\ \A all, wrong : Proper(rest, all, wrong) => Quiet(Sanitized(rest), all, wrong)
    BY <2>5, SanitizedQuiet
  <2>8. Len(rest) <= MaxStored
    BY <1>0, <2>3, <2>4, <2>5 DEF Keyed
  <2> QED
    BY <2>1, <2>2, <2>3, <2>6, <2>7, <2>8
<1> QED
  BY <1>1, <1>2 DEF Loadable

\* Keys stay distinct when further ones are handed out.
LEMMA KeyedLater ==
  ASSUME NEW a \in Nat, NEW b \in Nat, a <= b, NEW ms, Keyed(ms, a)
  PROVE  Keyed(ms, b)
<1>1. ms \in Seq(Message)
  BY DEF Keyed
<1>2. \A i \in 1 .. Len(ms) : ms[i] \in Message
  BY <1>1
<1>3. \A i \in 1 .. Len(ms) : ms[i].key \in Int
  BY <1>2, PlaygroundAssumption DEF PlaygroundAssumption, Message, Keys
<1> QED
  BY <1>3 DEF Keyed

\* A message appended to answer the conversation ms.
LEMMA Asking ==
  ASSUME NEW last \in Nat, NEW ms, Keyed(ms, last), NEW k \in Keys, k > last
  PROVE  LET new == ms \o <<LoadingMessage(k)>>
         IN  /\ Keyed(new, k) /\ Len(new) = Len(ms) + 1 /\ new # <<>>
             /\ new[Len(new)] = LoadingMessage(k)
             /\ \A i \in 1 .. Len(new) : i # Len(new) => i \in 1 .. Len(ms) /\ new[i] = ms[i]
<1>1. LoadingMessage(k) \in Message /\ LoadingMessage(k).key = k
  BY NewMessages
<1>2. Len(ms) \in Nat
  BY DEF Keyed
<1> DEFINE new == ms \o <<LoadingMessage(k)>>
<1>3. /\ Keyed(new, k) /\ Len(new) = Len(ms) + 1
      /\ \A i \in 1 .. Len(ms) : new[i] = ms[i]
      /\ new[Len(ms) + 1] = LoadingMessage(k)
  BY <1>1, AppendKeyed
<1> HIDE DEF new
<1>4. new # <<>>
  BY <1>2, <1>3
<1> QED
  BY <1>2, <1>3, <1>4 DEF new

\* A question and its answer are appended one after the other.
LEMMA OneByOne ==
  ASSUME NEW ms \in Seq(Message), NEW u \in Message, NEW l \in Message
  PROVE  ms \o <<u, l>> = (ms \o <<u>>) \o <<l>>
<1>1. <<u>> \in Seq(Message) /\ <<l>> \in Seq(Message) /\ <<u, l>> \in Seq(Message)
  OBVIOUS
<1>2. <<u>> \o <<l>> = <<u, l>>
  <2>1. Len(<<u>>) = 1 /\ Len(<<l>>) = 1 /\ Len(<<u, l>>) = 2
    OBVIOUS
  <2>2. <<u>>[1] = u /\ <<l>>[1] = l /\ <<u, l>>[1] = u /\ <<u, l>>[2] = l
    OBVIOUS
  <2> DEFINE joined == <<u>> \o <<l>>
  <2>3. /\ joined \in Seq(Message) /\ Len(joined) = 2
        /\ joined[1] = u /\ joined[2] = l
    <3>1. /\ joined \in Seq(Message) /\ Len(joined) = 1 + 1
          /\ \A i \in 1 .. 1 + 1 : joined[i] = IF i <= 1 THEN <<u>>[i] ELSE <<l>>[i - 1]
      BY <1>1, <2>1, ConcatProperties
    <3> HIDE DEF joined
    <3> QED
      BY <2>2, <3>1
  <2> HIDE DEF joined
  <2>4. \A i \in 1 .. 2 : joined[i] = <<u, l>>[i]
    <3>1. \A i \in 1 .. 2 : i = 1 \/ i = 2
      OBVIOUS
    <3> QED
      BY <2>2, <2>3, <3>1
  <2> QED
    BY <1>1, <2>1, <2>3, <2>4, SeqEqual DEF joined
<1>3. (ms \o <<u>>) \o <<l>> = ms \o (<<u>> \o <<l>>)
  BY <1>1, ConcatAssociative
<1> QED
  BY <1>2, <1>3

\* The types that most steps need.
LEMMA Basics ==
  ASSUME PageInv
  PROVE  /\ lastKey \in Nat /\ lastKey <= MaxKeys /\ MaxKeys \in Nat /\ MaxChunks \in Nat
         /\ MaxLeaves \in Nat
         /\ Keyed(messages, lastKey) /\ messages \in Seq(Message)
         /\ Keyed(stored, lastKey) /\ stored \in Seq(Message)
         /\ Keyed(view.messages, lastKey) /\ view.messages \in Seq(Message)
         /\ pending \in Text /\ said \in [Keys -> Text] /\ misread \subseteq Keys
         /\ abandoned \subseteq Unfinished
         /\ stream \in BOOLEAN /\ open \in BOOLEAN /\ hasty \in BOOLEAN /\ apart \in BOOLEAN
         /\ view.generating \in BOOLEAN /\ view.loaded \in BOOLEAN
         /\ loaded \in BOOLEAN /\ saveTimer \in BOOLEAN /\ isRequesting \in BOOLEAN
<1>1. lastKey \in Nat /\ lastKey <= MaxKeys /\ MaxKeys \in Nat /\ MaxChunks \in Nat /\ MaxLeaves \in Nat
  BY PlaygroundAssumption DEF PageInv, TypeOK, PlaygroundAssumption
<1>2. Keyed(messages, lastKey) /\ Keyed(stored, lastKey) /\ Keyed(view.messages, lastKey)
  BY DEF PageInv, Conversations
<1> QED
  BY <1>1, <1>2 DEF PageInv, TypeOK

-----------------------------------------------------------------------------
(* What was said.                                                           *)

\* The fields of sources, requests and what pages left behind.
LEMMA ConnectionFields ==
  ASSUME PageInv
  PROVE  /\ \A s \in sources : /\ s \in Source /\ s.key \in Keys /\ s.key \in Nat /\ s.key # None
                               /\ s.snapshot \in BOOLEAN /\ s.ended \in BOOLEAN
         /\ \A r \in requests : /\ r \in Request /\ r.key \in Keys /\ r.key \in Nat
                                /\ r.aborted \in BOOLEAN
         /\ \A a \in abandoned : /\ a \in Unfinished /\ a.key \in Keys /\ a.key \in Nat
                                 /\ a.streamed \in BOOLEAN /\ a.snapshot \in BOOLEAN
                                 /\ a.messages \in Seq(Message) /\ a.pending \in Text
<1>1. \A k \in Keys : k \in Nat /\ k # None
  BY Basics DEF Keys, None
<1>2. sources \subseteq Source /\ requests \subseteq Request /\ abandoned \subseteq Unfinished
  BY DEF PageInv, TypeOK
<1> QED
  BY <1>1, <1>2 DEF Source, Request, Unfinished

\* More was said, and more may be misread.
Grown(all, wrong, all2, wrong2) ==
  \A k \in Keys : IsPrefix(all[k], all2[k]) /\ (k \in wrong => k \in wrong2)

\* What was in order stays in order as more is said.
LEMMA GrownProper ==
  ASSUME NEW all \in [Keys -> Text], NEW all2 \in [Keys -> Text], NEW wrong, NEW wrong2,
         Grown(all, wrong, all2, wrong2), NEW ms \in Seq(Message)
  PROVE  /\ \A i \in 1 .. Len(ms) : InOrder(ms[i], all, wrong) => InOrder(ms[i], all2, wrong2)
         /\ Proper(ms, all, wrong) => Proper(ms, all2, wrong2)
<1>1. ASSUME NEW i \in 1 .. Len(ms), InOrder(ms[i], all, wrong) PROVE InOrder(ms[i], all2, wrong2)
  <2>1. ms[i] \in Message
    OBVIOUS
  <2>2. ms[i].key \in Keys /\ ms[i].text \in Text
    BY <2>1 DEF Message
  <2>3. all[ms[i].key] \in Text /\ all2[ms[i].key] \in Text
    BY <2>2
  <2>4. IsPrefix(ms[i].text, all[ms[i].key]) => IsPrefix(ms[i].text, all2[ms[i].key])
    BY <2>2, <2>3, PrefixTrans DEF Grown
  <2> QED
    BY <1>1, <2>2, <2>4 DEF InOrder, Grown
<1> QED
  BY <1>1 DEF Proper

\* The same of what a page left behind, if the server spoke to another.
LEMMA GrownResumable ==
  ASSUME NEW all \in [Keys -> Text], NEW all2 \in [Keys -> Text], NEW wrong, NEW wrong2,
         Grown(all, wrong, all2, wrong2), NEW a \in Unfinished, all2[a.key] = all[a.key],
         Resumable(a, all, wrong)
  PROVE  Resumable(a, all2, wrong2)
<1>1. a.key \in Keys /\ a.messages \in Seq(Message)
  BY DEF Unfinished
<1>2. Proper(a.messages, all2, wrong2)
  BY <1>1, GrownProper DEF Resumable
<1>3. a.streamed => Receiving(a.messages, a.pending, a.key, a.snapshot, all2, wrong2)
  BY <1>1 DEF Resumable, Receiving, Grown
<1> QED
  BY <1>2, <1>3 DEF Resumable

\* The server goes on with answer k.
Speaks(k, text) ==
  /\ said' = [said EXCEPT ![k] = said[k] \o text]
  /\ misread' \in {misread, misread \cup {k}}

\* What was said before is in order still, and nothing else was said.
LEMMA SpeaksGrows ==
  ASSUME PageInv, NEW k \in Keys, NEW text \in Text, Speaks(k, text)
  PROVE  /\ said' \in [Keys -> Text] /\ misread' \subseteq Keys
         /\ said'[k] = said[k] \o text
         /\ \A j \in Keys : j # k => said'[j] = said[j] /\ (j \in misread' <=> j \in misread)
         /\ Grown(said, misread, said', misread')
<1>1. said \in [Keys -> Text] /\ misread \subseteq Keys
  BY Basics
<1>2. said[k] \in Text /\ said[k] \o text \in Text
  BY <1>1, Joins
<1> DEFINE t == said[k] \o text
<1>3. said' = [said EXCEPT ![k] = t]
  BY DEF Speaks
<1>4. t \in Text /\ IsPrefix(said[k], t)
  BY <1>2, PrefixOfJoined
<1> HIDE DEF t
<1>5. /\ said' \in [Keys -> Text] /\ said'[k] = t
      /\ \A j \in Keys : j # k => said'[j] = said[j]
  BY <1>1, <1>3, <1>4
<1>6. \A j \in Keys : IsPrefix(said[j], said'[j])
  <2>1. ASSUME NEW j \in Keys, j # k PROVE IsPrefix(said[j], said'[j])
    <3>1. said[j] \in Text
      BY <1>1
    <3>2. IsPrefix(said[j], said[j])
      BY <3>1, PrefixOfJoined
    <3> QED
      BY <1>5, <2>1, <3>2
  <2> QED
    BY <1>4, <1>5, <2>1
<1> QED
  BY <1>1, <1>5, <1>6 DEF Speaks, Grown, t

-----------------------------------------------------------------------------
(* Clicks that ask for an answer.                                           *)

\* What Send, Regenerate and the submission of an edit have in common.
Begins(ms) ==
  /\ open /\ SendChat(ms) /\ Rendered
  /\ UNCHANGED <<stream, open, loaded, disk, leaves, abandoned, heard>>
  /\ editing' \in {editing, None}
  /\ lastKey' \in Keys /\ lastKey < lastKey'
  /\ Keyed(ms, lastKey') /\ ms # <<>> /\ ms[Len(ms)] = LoadingMessage(lastKey')
  /\ hasty' \in BOOLEAN
  /\ ~ hasty' => ~ hasty /\ view.loaded /\ ~ view.generating
  /\ Quiet(view.messages, said, misread) =>
       \A i \in 1 .. Len(ms) :
         i # Len(ms) => InOrder(ms[i], said, misread) /\ ~ IsPending(ms[i])

\* A message that is sent begins an answer.
LEMMA SendBegins ==
  ASSUME PageInv, Send
  PROVE  \E ms : Begins(ms)
<1> DEFINE asked == view.messages \o <<UserMessage(lastKey + 1)>>
           ms == view.messages \o <<UserMessage(lastKey + 1), LoadingMessage(lastKey + 2)>>
<1>1. /\ lastKey \in Nat /\ MaxKeys \in Nat /\ lastKey + 2 <= MaxKeys
      /\ Keyed(view.messages, lastKey) /\ view.messages \in Seq(Message)
      /\ hasty \in BOOLEAN /\ view.loaded \in BOOLEAN
  BY Basics DEF Send
<1>2. lastKey + 1 \in Keys /\ lastKey + 2 \in Keys
  BY <1>1 DEF Keys
<1>3. /\ UserMessage(lastKey + 1) \in Message /\ UserMessage(lastKey + 1).key = lastKey + 1
      /\ ~ IsPending(UserMessage(lastKey + 1)) /\ UserMessage(lastKey + 1).text = <<Written>>
      /\ LoadingMessage(lastKey + 2) \in Message
  BY <1>2, NewMessages
<1>4. /\ Keyed(asked, lastKey + 1) /\ Len(asked) = Len(view.messages) + 1
      /\ \A i \in 1 .. Len(view.messages) : asked[i] = view.messages[i]
      /\ asked[Len(view.messages) + 1] = UserMessage(lastKey + 1)
  BY <1>1, <1>3, AppendKeyed
<1>5. ms = asked \o <<LoadingMessage(lastKey + 2)>>
  BY <1>1, <1>3, OneByOne
<1> HIDE DEF asked
<1>6. /\ Keyed(ms, lastKey + 2) /\ Len(ms) = Len(asked) + 1 /\ ms # <<>>
      /\ ms[Len(ms)] = LoadingMessage(lastKey + 2)
      /\ \A i \in 1 .. Len(ms) : i # Len(ms) => i \in 1 .. Len(asked) /\ ms[i] = asked[i]
  <2>1. lastKey + 1 \in Nat /\ lastKey + 2 > lastKey + 1
    BY <1>1
  <2> HIDE DEF ms
  <2> QED
    BY <1>2, <1>4, <1>5, <2>1, Asking
<1>7. SendChat(ms)
  BY DEF Send
<1> HIDE DEF ms
<1>8. ASSUME Quiet(view.messages, said, misread), NEW i \in 1 .. Len(ms), i # Len(ms)
      PROVE  InOrder(ms[i], said, misread) /\ ~ IsPending(ms[i])
  <2>1. i \in 1 .. Len(asked) /\ ms[i] = asked[i]
    BY <1>6, <1>8
  <2>2. CASE i \in 1 .. Len(view.messages)
    BY <1>4, <1>8, <2>1, <2>2 DEF Quiet
  <2>3. CASE i = Len(view.messages) + 1
    BY <1>3, <1>4, <2>1, <2>3 DEF InOrder
  <2> QED
    BY <1>1, <1>4, <2>1, <2>2, <2>3
<1>9. Begins(ms)
  <2>1. lastKey' = lastKey + 2 /\ lastKey < lastKey + 2
    BY <1>1 DEF Send
  <2> QED
    BY <1>1, <1>2, <1>6, <1>7, <1>8, <2>1 DEF Send, Begins
<1> QED
  BY <1>9

\* A message that is regenerated begins an answer.
LEMMA RegenerateBegins ==
  ASSUME PageInv, NEW k \in Keys, Regenerate(k)
  PROVE  \E ms : Begins(ms)
<1> DEFINE i == IndexOf(view.messages, k)
           kept == IF view.messages[i].from = "user" THEN i ELSE i - 1
           ms == SubSeq(view.messages, 1, kept) \o <<LoadingMessage(lastKey + 1)>>
<1>1. /\ lastKey \in Nat /\ MaxKeys \in Nat /\ lastKey < MaxKeys
      /\ Keyed(view.messages, lastKey) /\ view.messages \in Seq(Message)
      /\ hasty \in BOOLEAN
  BY Basics DEF Regenerate
<1>2. lastKey + 1 \in Keys
  BY <1>1 DEF Keys
<1>3. SendChat(ms)
  BY DEF Regenerate
<1>4. kept \in 0 .. Len(view.messages)
  <2>1. i \in 1 .. Len(view.messages)
    BY <1>1, IndexOfFinds DEF Regenerate, CanAct
  <2> HIDE DEF i
  <2> QED
    BY <1>1, <2>1
<1> HIDE DEF i, kept
<1> DEFINE base == SubSeq(view.messages, 1, kept)
<1>5. /\ Keyed(base, lastKey) /\ Len(base) = kept
      /\ \A j \in 1 .. kept : base[j] = view.messages[j]
  BY <1>1, <1>4, PrefixKeyed
<1> HIDE DEF base
<1>6. /\ Keyed(ms, lastKey + 1) /\ ms # <<>> /\ ms[Len(ms)] = LoadingMessage(lastKey + 1)
      /\ \A j \in 1 .. Len(ms) : j # Len(ms) => j \in 1 .. Len(base) /\ ms[j] = base[j]
  <2>1. lastKey + 1 > lastKey
    BY <1>1
  <2>2. ms = base \o <<LoadingMessage(lastKey + 1)>>
    BY DEF base
  <2> HIDE DEF ms
  <2> QED
    BY <1>1, <1>2, <1>5, <2>1, <2>2, Asking
<1> HIDE DEF ms
<1>7. ASSUME Quiet(view.messages, said, misread), NEW j \in 1 .. Len(ms), j # Len(ms)
      PROVE  InOrder(ms[j], said, misread) /\ ~ IsPending(ms[j])
  <2>1. j \in 1 .. kept /\ j \in 1 .. Len(view.messages) /\ ms[j] = view.messages[j]
    BY <1>1, <1>4, <1>5, <1>6, <1>7
  <2> QED
    BY <1>7, <2>1 DEF Quiet
<1>8. Begins(ms)
  <2>1. lastKey' = lastKey + 1 /\ lastKey < lastKey + 1
    BY <1>1 DEF Regenerate
  <2> QED
    BY <1>1, <1>2, <1>3, <1>6, <1>7, <2>1 DEF Regenerate, CanAct, Begins
<1> QED
  BY <1>8

\* An edit that is submitted begins an answer.
LEMMA EditBegins ==
  ASSUME PageInv, NEW i \in 1 .. Len(view.messages), open, view.loaded,
         lastKey < MaxKeys, lastKey' = lastKey + 1,
         SendChat(SubSeq(Edited(view.messages, i), 1, i)
                    \o <<LoadingMessage(lastKey + 1)>>),
         editing' = None, hasty' = (hasty \/ view.generating), Rendered,
         UNCHANGED <<stream, open, loaded, disk, leaves, abandoned, heard>>
  PROVE  \E ms : Begins(ms)
<1> DEFINE edited == Edited(view.messages, i)
           ms == SubSeq(edited, 1, i) \o <<LoadingMessage(lastKey + 1)>>
<1>1. /\ lastKey \in Nat /\ MaxKeys \in Nat /\ lastKey < MaxKeys
      /\ Keyed(view.messages, lastKey) /\ view.messages \in Seq(Message)
      /\ hasty \in BOOLEAN /\ view.generating \in BOOLEAN
  BY Basics
<1>2. lastKey + 1 \in Keys
  BY <1>1 DEF Keys
<1>3. SendChat(ms)
  OBVIOUS
<1>4. /\ Keyed(edited, lastKey) /\ Len(edited) = Len(view.messages)
      /\ edited[i].text = <<Written>>
      /\ \A j \in 1 .. Len(view.messages) :
           /\ edited[j].status = view.messages[j].status
           /\ j # i => edited[j] = view.messages[j]
  BY <1>1, EditKeyed
<1> HIDE DEF edited
<1> DEFINE base == SubSeq(edited, 1, i)
<1>5. /\ Keyed(base, lastKey) /\ Len(base) = i
      /\ \A j \in 1 .. i : base[j] = edited[j]
  <2>1. i \in 0 .. Len(edited)
    BY <1>1, <1>4
  <2> QED
    BY <1>4, <2>1, PrefixKeyed
<1> HIDE DEF base
<1>6. /\ Keyed(ms, lastKey + 1) /\ ms # <<>> /\ ms[Len(ms)] = LoadingMessage(lastKey + 1)
      /\ \A j \in 1 .. Len(ms) : j # Len(ms) => j \in 1 .. Len(base) /\ ms[j] = base[j]
  <2>1. lastKey + 1 > lastKey
    BY <1>1
  <2>2. ms = base \o <<LoadingMessage(lastKey + 1)>>
    BY DEF base
  <2> HIDE DEF ms
  <2> QED
    BY <1>1, <1>2, <1>5, <2>1, <2>2, Asking
<1> HIDE DEF ms
<1>7. ASSUME Quiet(view.messages, said, misread), NEW j \in 1 .. Len(ms), j # Len(ms)
      PROVE  InOrder(ms[j], said, misread) /\ ~ IsPending(ms[j])
  <2>1. j \in 1 .. i /\ j \in 1 .. Len(view.messages) /\ ms[j] = edited[j]
    BY <1>1, <1>5, <1>6, <1>7
  <2>2. InOrder(view.messages[j], said, misread) /\ ~ IsPending(view.messages[j])
    BY <1>7, <2>1 DEF Quiet
  <2>3. ~ IsPending(ms[j])
    BY <1>4, <2>1, <2>2 DEF IsPending
  <2>4. InOrder(ms[j], said, misread)
    BY <1>4, <2>1, <2>2 DEF InOrder
  <2> QED
    BY <2>3, <2>4
<1>8. Begins(ms)
  <2>1. lastKey < lastKey + 1
    BY <1>1
  <2> QED
    BY <1>1, <1>2, <1>3, <1>6, <1>7, <2>1 DEF Begins
<1> QED
  BY <1>8

\* While nothing is generated, nothing is received.
LEMMA Idle ==
  ASSUME PageInv, ~ view.generating
  PROVE  /\ sse = None /\ ~ isRequesting /\ sources = {} /\ pending = <<>> /\ ~ Generating
         /\ ~ hasty => \A r \in requests : r.aborted
<1>1. Shown /\ OneSource /\ TypeOK /\ (~ hasty => Orderly)
  BY DEF PageInv
<1>2. sse = None /\ ~ isRequesting /\ ~ Generating
  BY <1>1, Basics DEF Shown, Generating, isStreaming
<1>3. sources = {}
  BY <1>1, <1>2, Basics DEF OneSource, TypeOK, Source, Keys, None
<1>4. pending = <<>>
  BY <1>1, <1>3 DEF OneSource
<1> QED
  BY <1>1, <1>2, <1>3, <1>4 DEF Orderly

\* The page then shows the conversation as it is, and nothing in it waits.
LEMMA AtRest ==
  ASSUME PageInv, ~ hasty, view.loaded, ~ view.generating
  PROVE  /\ sse = None /\ ~ isRequesting /\ sources = {} /\ pending = <<>>
         /\ \A r \in requests : r.aborted
         /\ view.messages = messages /\ Quiet(messages, said, misread) /\ Proper(stored, said, misread) /\ loaded
<1>1. Orderly /\ Shown
  BY DEF PageInv
<1>2. Quiet(messages, said, misread)
  BY <1>1, Idle DEF Orderly, Proper, Quiet
<1> QED
  BY <1>1, <1>2, Idle DEF Orderly, Shown

\* The flags and the source of a page that begins to answer.
LEMMA BeginsTypes ==
  ASSUME PageInv, NEW ms, Begins(ms)
  PROVE  TypeOK' /\ Conversations' /\ Shown' /\ Saved'
<1>0. /\ SendChat(ms) /\ Rendered
      /\ UNCHANGED <<stream, open, loaded, disk, leaves, abandoned, heard>>
      /\ editing' \in {editing, None} /\ hasty' \in BOOLEAN
      /\ lastKey' \in Keys /\ lastKey < lastKey'
      /\ Keyed(ms, lastKey') /\ ms # <<>> /\ ms[Len(ms)] = LoadingMessage(lastKey')
  BY DEF Begins
<1>1. /\ Keyed(stored, lastKey') /\ stored' = stored /\ lastKey' \in Nat
      /\ \A a \in abandoned : Keyed(a.messages, lastKey')
  <2>1. lastKey' \in Nat /\ lastKey <= lastKey'
    BY <1>0, Basics DEF Keys
  <2>2. stored' = stored
    BY <1>0 DEF disk
  <2>3. \A a \in abandoned : Keyed(a.messages, lastKey)
    BY DEF PageInv, Conversations
  <2>4. \A a \in abandoned : Keyed(a.messages, lastKey')
    BY Basics, <2>1, <2>3, KeyedLater
  <2> QED
    BY Basics, <2>1, <2>2, <2>4, KeyedLater
<1>2. ms \in Seq(Message) /\ ms[Len(ms)].key = lastKey'
  <2>1. LoadingMessage(lastKey').key = lastKey'
    BY DEF LoadingMessage
  <2> QED
    BY <1>0, <2>1 DEF Keyed
<1>3. Keyed(messages', lastKey')
  <2>1. CASE messages' = ms
    BY <1>0, <2>1
  <2>2. CASE messages' = UpdateLast(Flushed(ms), Failed)
    <3>1. Touched(ms, messages')
      BY <1>2, <2>2, Basics, FailedTouches
    <3> QED
      BY <1>0, <3>1, TouchedKeyed
  <2> QED
    BY <1>0, <2>1, <2>2 DEF SendChat, StreamStarts, StreamThrows, RequestStarts, UpdateMessages
<1>4. /\ view'.messages = messages' /\ view'.loaded = loaded'
      /\ view'.generating = Generating' /\ view'.generating \in BOOLEAN
  BY <1>0 DEF Rendered, Current, Generating
<1>5. Conversations'
  BY <1>0, <1>1, <1>3, <1>4 DEF Conversations
<1>6. Shown'
  BY <1>0, <1>4 DEF Shown
<1>7. saveTimer' = (saveTimer \/ loaded)
  BY <1>0 DEF SendChat, StreamStarts, StreamThrows, RequestStarts, UpdateMessages
<1>8. Saved'
  BY <1>0, <1>7 DEF Saved
<1>9. /\ {sse', requestId', abortCtl'} \subseteq 0 .. MaxKeys
      /\ isRequesting' \in BOOLEAN /\ flushTimer' \in BOOLEAN /\ pending' \in Text
      /\ sources' \subseteq Source /\ requests' \subseteq Request
  <2>0. /\ TypeOK /\ lastKey' \in 0 .. MaxKeys /\ None \in 0 .. MaxKeys
        /\ Last(ms).key = lastKey'
        /\ \A snapshot \in BOOLEAN :
             [key |-> lastKey', snapshot |-> snapshot, ended |-> FALSE] \in Source
        /\ [key |-> lastKey', aborted |-> FALSE] \in Request
    BY <1>0, <1>2, Basics DEF PageInv, Keys, None, Last, Source, Request
  <2>1. CASE StreamStarts(ms, lastKey')
    BY <2>0, <2>1 DEF StreamStarts, NoRequest, TypeOK
  <2>2. CASE StreamThrows(ms)
    <3>1. /\ sources' \subseteq sources /\ sse' = None /\ isRequesting' = FALSE
          /\ pending' = <<>> /\ flushTimer' = FALSE
          /\ requests' = requests /\ requestId' = requestId /\ abortCtl' = abortCtl
      BY <2>2 DEF StreamThrows, NoRequest, FlushDone
    <3>2. pending' \in Text
      BY <3>1, TextTypes
    <3> QED
      BY <2>0, <3>1, <3>2 DEF TypeOK
  <2>3. CASE RequestStarts(ms, lastKey')
    BY <2>0, <2>3 DEF RequestStarts, TypeOK
  <2> QED
    BY <1>0, <2>0, <2>1, <2>2, <2>3 DEF SendChat
<1>10. TypeOK'
  <2>1. Keyed(messages', lastKey') /\ messages' \in Seq(Message) /\ view'.messages \in Seq(Message)
    BY <1>3, <1>4 DEF Keyed
  <2>2. {editing', lastKey'} \subseteq 0 .. MaxKeys /\ leaves' \in 0 .. MaxLeaves
    BY <1>0, Basics DEF PageInv, TypeOK, Keys, None
  <2>3. saveTimer' \in BOOLEAN /\ loaded' \in BOOLEAN /\ view'.loaded \in BOOLEAN
    BY <1>0, <1>4, <1>7, Basics
  <2>4. /\ stream' \in BOOLEAN /\ open' \in BOOLEAN /\ apart' \in BOOLEAN
        /\ stored' \in Seq(Message) /\ Len(stored') <= MaxStored
    BY <1>0, Basics DEF PageInv, TypeOK, disk
  <2>5. /\ abandoned' \subseteq Unfinished /\ said' \in [Keys -> Text] /\ misread' \subseteq Keys
        /\ chunks' \in 0 .. MaxChunks
    BY <1>0, Basics DEF PageInv, TypeOK, heard
  <2> QED
    BY <1>0, <1>4, <1>9, <2>1, <2>2, <2>3, <2>4, <2>5 DEF TypeOK
<1> QED
  BY <1>5, <1>6, <1>8, <1>10

\* Whatever was under way before, a new answer is the only one.
LEMMA BeginsAlone ==
  ASSUME PageInv, NEW ms, Begins(ms)
  PROVE  OneSource' /\ OneRequest'
<1>0. /\ SendChat(ms) /\ stream' = stream /\ stream \in BOOLEAN /\ OneSource /\ OneRequest
      /\ lastKey' \in Nat /\ lastKey \in Nat /\ lastKey < lastKey' /\ Last(ms).key = lastKey'
  <2>1. LoadingMessage(lastKey').key = lastKey'
    BY DEF LoadingMessage
  <2> QED
    BY <2>1, Basics DEF Begins, PageInv, Keys, Last
<1>1. {s \in sources : s.key # sse} = {}
  BY <1>0 DEF OneSource
<1>2. CASE stream /\ StreamStarts(ms, lastKey')
  <2>1. PICK src : sources' = {src} /\ src.key = lastKey' /\ sse' = lastKey' /\ requests' = requests
    BY <1>1, <1>2 DEF StreamStarts, NoRequest
  <2>2. requests' = {}
    BY <1>0, <1>2, <2>1 DEF OneSource
  <2> QED
    BY <1>0, <1>2, <2>1, <2>2 DEF OneSource, OneRequest
<1>3. CASE stream /\ StreamThrows(ms)
  <2>1. sources' = {} /\ pending' = <<>> /\ requests' = requests /\ requests = {}
    BY <1>0, <1>1, <1>3 DEF StreamThrows, NoRequest, FlushDone, OneSource
  <2> QED
    BY <1>0, <1>3, <2>1 DEF OneSource, OneRequest
<1>4. CASE ~ stream /\ RequestStarts(ms, lastKey')
  <2> DEFINE new == [key |-> lastKey', aborted |-> FALSE]
  <2>1. /\ requests' = requests \cup {new} /\ requestId' = lastKey'
        /\ sources' = sources /\ sse' = sse /\ pending' = pending
    BY <1>4 DEF RequestStarts
  <2>2. OneSource'
    BY <1>0, <1>4, <2>1 DEF OneSource
  <2>3. new.key = lastKey' /\ new.aborted = FALSE
    OBVIOUS
  <2> HIDE DEF new
  <2>4. \A r \in requests : r.key \in Nat /\ r.key <= lastKey /\ r.key < lastKey'
    BY <1>0, ConnectionFields DEF OneRequest
  <2>5. OneRequest'
    BY <1>0, <2>1, <2>3, <2>4 DEF OneRequest
  <2> QED
    BY <2>2, <2>5
<1> QED
  BY <1>0, <1>2, <1>3, <1>4 DEF SendChat

\* The new answer has a key of its own, and nothing was said of it yet.
LEMMA BeginsConnected ==
  ASSUME PageInv, NEW ms, Begins(ms)
  PROVE  Connections' /\ said[lastKey'] = <<>>
<1>0. /\ Connections /\ OneSource /\ SendChat(ms) /\ abandoned' = abandoned /\ said' = said
      /\ lastKey' \in Keys /\ lastKey' \in Nat /\ lastKey \in Nat /\ lastKey < lastKey'
      /\ Last(ms).key = lastKey'
  <2>1. LoadingMessage(lastKey').key = lastKey'
    BY DEF LoadingMessage
  <2> QED
    BY <2>1, Basics DEF Begins, PageInv, Keys, Last, heard
<1>1. said[lastKey'] = <<>>
  BY <1>0 DEF Connections
<1>2. /\ \A s \in sources' : s.key = lastKey' \/ (s \in sources)
      /\ \A r \in requests' : r.key = lastKey' \/ (r \in requests)
  <2>1. CASE StreamStarts(ms, lastKey')
    BY <2>1 DEF StreamStarts, NoRequest
  <2>2. CASE StreamThrows(ms)
    BY <2>2 DEF StreamThrows, NoRequest
  <2>3. CASE RequestStarts(ms, lastKey')
    BY <2>3 DEF RequestStarts
  <2> QED
    BY <1>0, <2>1, <2>2, <2>3 DEF SendChat
<1>3. /\ \A s \in sources : s.key \in Nat /\ s.key <= lastKey
      /\ \A a \in abandoned : a.key \in Nat /\ a.key <= lastKey
  BY <1>0, ConnectionFields DEF Connections
<1>4. \A a \in abandoned : a.key <= lastKey' /\ a.key # lastKey'
  BY <1>0, <1>3
<1>5. \A s \in sources' : s.key <= lastKey'
  BY <1>0, <1>2, <1>3
<1>6. \A k \in Keys : k > lastKey' => said[k] = <<>>
  <2>1. \A k \in Keys : k \in Nat
    BY Basics DEF Keys
  <2>2. \A k \in Keys : k > lastKey' => k > lastKey
    BY <1>0, <2>1
  <2> QED
    BY <1>0, <2>2 DEF Connections
<1>7. \A a \in abandoned :
        (\A s \in sources' : s.key # a.key) /\ (\A r \in requests' : r.key # a.key)
  BY <1>0, <1>2, <1>4 DEF Connections
<1>8. \A r \in requests' : said[r.key] = <<>>
  BY <1>0, <1>1, <1>2 DEF Connections
<1> QED
  BY <1>0, <1>1, <1>4, <1>5, <1>6, <1>7, <1>8 DEF Connections

\* An answer begins in order: its message is the last one, and waits.
LEMMA BeginsOrderly ==
  ASSUME PageInv, NEW ms, Begins(ms), ~ hasty'
  PROVE  Orderly'
<1>0. /\ SendChat(ms) /\ stream \in BOOLEAN
      /\ loaded' = loaded /\ stored' = stored
      /\ lastKey' \in Keys /\ lastKey' \in Nat /\ Last(ms).key = lastKey'
      /\ ms \in Seq(Message) /\ ms # <<>> /\ ms[Len(ms)] = LoadingMessage(lastKey')
      /\ view' = Current' /\ abandoned' = abandoned /\ said' = said /\ misread' = misread
  <2>1. LoadingMessage(lastKey').key = lastKey'
    BY DEF LoadingMessage
  <2> QED
    BY <2>1, Basics DEF Begins, Keys, Last, Rendered, Keyed, disk, heard
<1>1. ~ hasty /\ view.loaded /\ ~ view.generating
  BY DEF Begins
<1>2. /\ sse = None /\ ~ isRequesting /\ sources = {} /\ pending = <<>>
      /\ \A r \in requests : r.aborted
      /\ view.messages = messages /\ Quiet(messages, said, misread) /\ Proper(stored, said, misread) /\ loaded
  BY <1>1, AtRest
<1>3. \A i \in 1 .. Len(ms) : i # Len(ms) => InOrder(ms[i], said, misread) /\ ~ IsPending(ms[i])
  BY <1>2 DEF Begins
<1>4. /\ LoadingMessage(lastKey') \in Message /\ LoadingMessage(lastKey').key = lastKey'
      /\ IsPending(LoadingMessage(lastKey')) /\ LoadingMessage(lastKey').from = "assistant"
      /\ LoadingMessage(lastKey').text = <<>>
  BY <1>0, NewMessages
<1>5. Answering(ms)
  BY <1>0, <1>4 DEF Answering
<1>6. /\ said[lastKey'] = <<>> /\ <<>> \in Text
      /\ \A a \in abandoned : Resumable(a, said, misread)
  BY <1>1, BeginsConnected, TextTypes DEF PageInv, Orderly
<1>7. Proper(ms, said, misread)
  <2>1. InOrder(LoadingMessage(lastKey'), said, misread)
    <3>1. IsPrefix(<<>>, <<>>)
      BY <1>6, PrefixOfJoined
    <3> QED
      BY <1>4, <1>6, <3>1 DEF InOrder
  <2> QED
    BY <1>0, <1>3, <1>4, <2>1 DEF Proper
<1>8. view'.messages = messages'
  BY <1>0 DEF Current
<1>9. CASE stream /\ StreamStarts(ms, lastKey')
  <2>1. PICK src : /\ sources' = {src} /\ src.key = lastKey' /\ sse' = lastKey'
                   /\ src.snapshot \in BOOLEAN
                   /\ messages' = ms /\ requests' = requests /\ pending' = pending
    BY <1>2, <1>9 DEF StreamStarts, NoRequest, UpdateMessages
  <2>2. Receiving(messages', pending', src.key, src.snapshot, said, misread)
    <3>1. Buffered(<<>>, <<>>, <<>>, src.snapshot)
      BY <1>6, <2>1, NothingBuffered
    <3> QED
      BY <1>0, <1>2, <1>4, <1>6, <2>1, <3>1 DEF Receiving, Awaits
  <2>3. Generating'
    BY <1>0, <2>1 DEF Generating, isStreaming, None, Keys
  <2> QED
    BY <1>0, <1>2, <1>6, <1>7, <1>8, <2>1, <2>2, <2>3 DEF Orderly
<1>10. CASE stream /\ StreamThrows(ms)
  <2>1. /\ sources' = {} /\ requests' = requests /\ sse' = None /\ isRequesting' = FALSE
        /\ messages' = UpdateLast(Flushed(ms), Failed)
    BY <1>2, <1>10 DEF StreamThrows, NoRequest, UpdateMessages
  <2>2. /\ Touched(ms, messages')
        /\ ~ IsPending(messages'[Len(ms)]) /\ messages'[Len(ms)].text = <<Written>>
    BY <1>0, <1>5, <2>1, Basics, FailedTouches
  <2>3. Quiet(messages', said, misread)
    BY <1>3, <2>2 DEF Touched, Quiet, InOrder
  <2>4. ~ Generating'
    BY <2>1 DEF Generating, isStreaming
  <2>5. Proper(messages', said, misread)
    BY <2>3, QuietProper
  <2> QED
    BY <1>0, <1>2, <1>6, <1>8, <2>1, <2>3, <2>4, <2>5 DEF Orderly, Quiet
<1>11. CASE ~ stream /\ RequestStarts(ms, lastKey')
  <2>1. PICK new : /\ requests' = requests \cup {new} /\ new.key = lastKey'
                   /\ requestId' = new.key /\ abortCtl' = new.key
                   /\ isRequesting' = TRUE /\ sources' = sources /\ messages' = ms
    <3> DEFINE r == [key |-> lastKey', aborted |-> FALSE]
    <3>1. r.key = lastKey'
      OBVIOUS
    <3>2. /\ requests' = requests \cup {r} /\ requestId' = lastKey' /\ abortCtl' = lastKey'
          /\ isRequesting' = TRUE /\ sources' = sources /\ messages' = ms
      BY <1>11 DEF RequestStarts, UpdateMessages
    <3> HIDE DEF r
    <3> QED
      BY <3>1, <3>2
  <2>2. Awaits(messages', new.key)
    BY <1>0, <1>4, <2>1 DEF Awaits
  <2>3. Generating'
    BY <2>1 DEF Generating
  <2> QED
    BY <1>0, <1>2, <1>6, <1>7, <1>8, <2>1, <2>2, <2>3 DEF Orderly
<1> QED
  BY <1>0, <1>9, <1>10, <1>11 DEF SendChat

\* Beginning an answer keeps the invariant.
LEMMA BeginsKeeps ==
  ASSUME PageInv, NEW ms, Begins(ms)
  PROVE  PageInv'
  BY BeginsTypes, BeginsAlone, BeginsConnected, BeginsOrderly DEF PageInv

-------

-----------------------------------------------------------------------------
(* Other clicks.                                                            *)

\* What saving an edit, deleting a message and clearing have in common.
Rewrites(ms) ==
  /\ UpdateMessages(ms) /\ Rendered
  /\ UNCHANGED <<stream, open, lastKey, talk, loaded, disk, leaves, abandoned, heard>>
  /\ editing' \in {editing, None} /\ hasty' \in BOOLEAN
  /\ Keyed(ms, lastKey)
  /\ ~ hasty' => ~ hasty /\ ~ view.generating /\ Quiet(ms, said, misread)

\* Changing a conversation at rest keeps the invariant.
LEMMA RewritesKeeps ==
  ASSUME PageInv, NEW ms, Rewrites(ms)
  PROVE  PageInv'
<1>0. /\ messages' = ms /\ saveTimer' = (saveTimer \/ loaded)
      /\ stream' = stream /\ open' = open /\ lastKey' = lastKey /\ loaded' = loaded
      /\ sse' = sse /\ sources' = sources /\ pending' = pending /\ flushTimer' = flushTimer
      /\ isRequesting' = isRequesting /\ requests' = requests /\ requestId' = requestId
      /\ abortCtl' = abortCtl /\ stored' = stored /\ apart' = apart
      /\ leaves' = leaves /\ editing' \in {editing, None} /\ hasty' \in BOOLEAN
      /\ Keyed(ms, lastKey) /\ view' = Current' /\ abandoned' = abandoned
      /\ chunks' = chunks /\ said' = said /\ misread' = misread
  BY DEF Rewrites, UpdateMessages, Rendered, talk, disk, heard
<1>1. /\ view'.messages = messages' /\ view'.loaded = loaded
      /\ view'.generating = Generating' /\ view'.generating \in BOOLEAN
  BY <1>0 DEF Current, Generating
<1>2. ms \in Seq(Message)
  BY <1>0 DEF Keyed
<1>3. TypeOK'
  <2>1. editing' \in 0 .. MaxKeys
    BY <1>0, Basics DEF PageInv, TypeOK, None
  <2> QED
    BY <1>0, <1>1, <1>2, <2>1, Basics DEF PageInv, TypeOK
<1>4. Conversations'
  BY <1>0, <1>1, Basics DEF PageInv, Conversations
<1>5. OneSource' /\ OneRequest' /\ Connections' /\ Shown' /\ Saved'
  BY <1>0, <1>1 DEF PageInv, OneSource, OneRequest, Connections, Shown, Saved
<1>6. ASSUME ~ hasty' PROVE Orderly'
  <2>1. ~ hasty /\ ~ view.generating /\ Quiet(ms, said, misread)
    BY <1>6 DEF Rewrites
  <2>2. /\ sse = None /\ ~ isRequesting /\ sources = {}
        /\ \A r \in requests : r.aborted
    BY <2>1, Idle
  <2>3. /\ Proper(stored, said, misread) /\ Proper(ms, said, misread)
        /\ \A a \in abandoned : Resumable(a, said, misread)
    BY <2>1, QuietProper DEF PageInv, Orderly
  <2>4. ~ Generating'
    BY <1>0, <2>2 DEF Generating, isStreaming
  <2> QED
    BY <1>0, <1>1, <2>1, <2>2, <2>3, <2>4 DEF Orderly, Quiet
<1> QED
  BY <1>3, <1>4, <1>5, <1>6 DEF PageInv

\* Deleting a message keeps the invariant.
LEMMA DeleteKeeps ==
  ASSUME PageInv, NEW k \in Keys, Delete(k)
  PROVE  PageInv'
<1> DEFINE ms == RemoveMessageByKey(messages, k)
<1>1. Keyed(ms, lastKey) /\ \A j \in 1 .. Len(ms) : \E i \in 1 .. Len(messages) : ms[j] = messages[i]
  BY Basics, RemoveKeyed
<1>2. UpdateMessages(ms)
  BY DEF Delete
<1> HIDE DEF ms
<1>3. ~ hasty => Quiet(ms, said, misread)
  <2>1. ~ hasty => Quiet(messages, said, misread)
    BY AtRest DEF Delete, CanAct
  <2> QED
    BY <1>1, <2>1 DEF Quiet
<1>4. Rewrites(ms)
  BY <1>1, <1>2, <1>3, Basics DEF Delete, CanAct, Rewrites
<1> QED
  BY <1>4, RewritesKeeps

\* Clearing the conversation keeps the invariant.
LEMMA ClearKeeps ==
  ASSUME PageInv, Clear
  PROVE  PageInv'
<1>1. Keyed(<<>>, lastKey) /\ Quiet(<<>>, said, misread)
  BY EmptySeq DEF Keyed, Quiet
<1>2. Rewrites(<<>>)
  BY <1>1, Basics DEF Clear, Rewrites
<1> QED
  BY <1>2, RewritesKeeps

\* An edit, saved or submitted, keeps the invariant.
LEMMA ApplyEditKeeps ==
  ASSUME PageInv, NEW submit \in BOOLEAN, ApplyEdit(submit)
  PROVE  PageInv'
<1> DEFINE i == IndexOf(view.messages, editing)
           edited == Edited(view.messages, i)
<1>1. i \in 1 .. Len(view.messages)
  BY Basics, IndexOfFinds DEF ApplyEdit
<1>2. /\ open /\ view.loaded /\ editing' = None /\ hasty' = (hasty \/ view.generating)
      /\ Rendered /\ UNCHANGED <<stream, open, loaded, disk, leaves, abandoned, heard>>
  BY DEF ApplyEdit
<1>3. CASE ~ submit
  <2>1. UpdateMessages(edited) /\ UNCHANGED <<talk, lastKey>>
    BY <1>3 DEF ApplyEdit
  <2>2. /\ Keyed(edited, lastKey) /\ Len(edited) = Len(view.messages)
        /\ edited[i].text = <<Written>>
        /\ \A j \in 1 .. Len(view.messages) :
             /\ edited[j].status = view.messages[j].status
             /\ j # i => edited[j] = view.messages[j]
    BY <1>1, Basics, EditKeyed
  <2> HIDE DEF edited, i
  <2>3. ASSUME ~ hasty' PROVE ~ hasty /\ ~ view.generating /\ Quiet(edited, said, misread)
    <3>1. ~ hasty /\ ~ view.generating
      BY <1>2, <2>3
    <3>2. Quiet(view.messages, said, misread)
      BY <1>2, <3>1, AtRest
    <3>3. ASSUME NEW j \in 1 .. Len(edited) PROVE InOrder(edited[j], said, misread) /\ ~ IsPending(edited[j])
      BY <2>2, <3>2 DEF Quiet, InOrder, IsPending
    <3> QED
      BY <3>1, <3>3 DEF Quiet
  <2>4. hasty' \in BOOLEAN
    BY <1>2, Basics
  <2>5. Rewrites(edited)
    BY <1>2, <2>1, <2>2, <2>3, <2>4 DEF Rewrites
  <2> QED
    BY <2>5, RewritesKeeps
<1>4. CASE submit
  <2>1. /\ lastKey < MaxKeys /\ lastKey' = lastKey + 1
        /\ SendChat(SubSeq(Edited(view.messages, i), 1, i) \o <<LoadingMessage(lastKey + 1)>>)
    BY <1>4 DEF ApplyEdit
  <2> HIDE DEF i
  <2>2. \E ms : Begins(ms)
    BY <1>1, <1>2, <2>1, EditBegins
  <2> QED
    BY <2>2, BeginsKeeps
<1> QED
  BY <1>3, <1>4

\* Steps that only the editor or the screen sees.
LEMMA EditorKeeps ==
  ASSUME PageInv, (\E k \in Keys : OpenEditor(k)) \/ CloseEditor
  PROVE  PageInv'
<1>1. /\ editing' \in Keys \cup {None}
      /\ UNCHANGED <<stream, open, messages, view, lastKey, talk, loaded, saveTimer,
                     disk, hasty, leaves, abandoned, heard>>
  BY DEF OpenEditor, CloseEditor
<1>2. TypeOK'
  BY <1>1, Basics DEF PageInv, TypeOK, Keys, None, talk, disk, heard
<1> QED
  BY <1>1, <1>2 DEF PageInv, Conversations, OneSource, OneRequest, Connections, Shown, Saved,
       Orderly, Generating, isStreaming, talk, disk, heard

-------

-----------------------------------------------------------------------------
(* The end of an answer.                                                    *)

\* Text that is appended to an answer makes it what was said.
LEMMA AppendedInOrder ==
  ASSUME NEW ms \in Seq(Message), NEW buffer \in Text, NEW k \in Keys, NEW snapshot \in BOOLEAN,
         NEW all \in [Keys -> Text], NEW wrong, Receiving(ms, buffer, k, snapshot, all, wrong)
  PROVE  LET new == Appended(ms, buffer)
         IN  /\ Touched(ms, new) /\ Awaits(new, k) /\ IsPending(new[Len(new)])
             /\ k \in wrong \/ new[Len(new)].text = all[k]
             /\ InOrder(new[Len(new)], all, wrong)
             /\ Proper(ms, all, wrong) => Proper(new, all, wrong)
<1> DEFINE last == ms[Len(ms)]
           new == Appended(ms, buffer)
<1>1. Answering(ms) /\ last.key = k /\ IsPending(last)
  BY DEF Receiving, Awaits, Answering
<1>2. last \in Message /\ Len(ms) \in 1 .. Len(ms) /\ Len(ms) \in Nat
  BY <1>1, LastIn DEF Answering
<1>3. Touched(ms, new) /\ new[Len(ms)] = ApplyChunk(last, buffer)
  BY <1>1, AppendedTouches
<1>4. k \in wrong \/ Buffered(last.text, buffer, all[k], snapshot)
  BY DEF Receiving
<1> HIDE DEF last, new
<1>5. /\ ApplyChunk(last, buffer).key = k /\ ApplyChunk(last, buffer).from = last.from
      /\ ApplyChunk(last, buffer).text = Joined(last.text, buffer)
      /\ ApplyChunk(last, buffer).status = "streaming"
  <2>1. last.status # "error"
    BY <1>1 DEF IsPending
  <2> QED
    BY <1>1, <1>2, <2>1, ApplySteps
<1>6. Len(new) = Len(ms) /\ new # <<>> /\ last.from = "assistant"
  BY <1>1, <1>2, <1>3 DEF Touched, Answering, last
<1>7. Awaits(new, k) /\ IsPending(new[Len(new)])
  BY <1>3, <1>5, <1>6 DEF Awaits, IsPending
<1>8. all[k] \in Text /\ last.text \in Text
  BY <1>2 DEF Message
<1>9. k \in wrong \/ new[Len(new)].text = all[k]
  BY <1>3, <1>4, <1>5, <1>6, <1>8, ShownAndBuffered
<1>10. InOrder(new[Len(new)], all, wrong)
  <2>1. IsPrefix(all[k], all[k])
    BY <1>8, PrefixOfJoined
  <2> QED
    BY <1>7, <1>9, <2>1 DEF InOrder, Awaits
<1>11. ASSUME Proper(ms, all, wrong) PROVE Proper(new, all, wrong)
  <2>1. ASSUME NEW i \in 1 .. Len(ms), i # Len(ms)
        PROVE  InOrder(new[i], all, wrong) /\ ~ IsPending(new[i])
    BY <1>3, <1>11, <2>1 DEF Proper, Touched
  <2> QED
    BY <1>6, <1>7, <1>10, <2>1 DEF Proper, Awaits
<1> QED
  BY <1>3, <1>7, <1>9, <1>10, <1>11 DEF new

\* A flush shows all that was received, and leaves the rest as it was.
LEMMA FlushedInOrder ==
  ASSUME PageInv, ~ hasty
  PROVE  /\ \A i \in 1 .. Len(messages) :
              /\ InOrder(Flushed(messages)[i], said, misread)
              /\ IsPending(Flushed(messages)[i])
                   => i = Len(messages) /\ Answering(messages) /\ Generating
         /\ \A s \in sources :
              /\ Answering(messages) /\ IsPending(Flushed(messages)[Len(messages)])
              /\ Flushed(messages)[Len(messages)].key = s.key
              /\ s.key \in misread \/ Flushed(messages)[Len(messages)].text = said[s.key]
<1>0. /\ messages \in Seq(Message) /\ pending \in Text /\ Len(messages) \in Nat
      /\ said \in [Keys -> Text]
  BY Basics
<1>1. Orderly /\ OneSource
  BY DEF PageInv
<1>2. /\ Touched(messages, Flushed(messages))
      /\ pending = <<>> => Flushed(messages) = messages
      /\ pending # <<>> => Flushed(messages) = Appended(messages, pending)
  BY <1>0, FlushedTouches DEF Flushed
<1> DEFINE new == Flushed(messages)
<1>3. Len(new) = Len(messages)
  BY <1>2 DEF Touched
<1>4. ASSUME NEW s \in sources
      PROVE  /\ Answering(messages) /\ IsPending(new[Len(messages)]) /\ Generating
             /\ new[Len(messages)].key = s.key
             /\ s.key \in misread \/ new[Len(messages)].text = said[s.key]
             /\ InOrder(new[Len(messages)], said, misread)
  <2>1. s.key \in Keys /\ s.snapshot \in BOOLEAN /\ Generating
    BY <1>1, ConnectionFields DEF OneSource, Generating, isStreaming
  <2>2. Receiving(messages, pending, s.key, s.snapshot, said, misread)
    BY <1>1 DEF Orderly
  <2>3. Answering(messages)
    BY <2>2 DEF Receiving, Awaits, Answering
  <2>4. CASE pending = <<>>
    <3>1. new = messages /\ messages[Len(messages)] \in Message /\ Len(messages) \in 1 .. Len(messages)
      BY <1>0, <1>2, <2>3, <2>4, LastIn DEF Answering
    <3>2. said[s.key] \in Text /\ messages[Len(messages)].text \in Text
      BY <1>0, <2>1, <3>1 DEF Message
    <3>3. s.key \in misread \/ Buffered(messages[Len(messages)].text, pending, said[s.key], s.snapshot)
      BY <2>2 DEF Receiving
    <3>4. s.key \in misread \/ messages[Len(messages)].text = said[s.key]
      BY <1>0, <2>1, <2>4, <3>2, <3>3, ShownAndBuffered
    <3>5. InOrder(messages[Len(messages)], said, misread)
      BY <1>1, <3>1 DEF Orderly, Proper
    <3> QED
      BY <2>1, <2>2, <2>3, <3>1, <3>4, <3>5 DEF Receiving, Awaits
  <2>5. CASE pending # <<>>
    <3>1. new = Appended(messages, pending)
      BY <1>2, <2>5
    <3> HIDE DEF new
    <3>2. /\ Awaits(new, s.key) /\ IsPending(new[Len(new)])
          /\ s.key \in misread \/ new[Len(new)].text = said[s.key]
          /\ InOrder(new[Len(new)], said, misread)
      BY <1>0, <2>1, <2>2, <3>1, AppendedInOrder
    <3> QED
      BY <1>3, <2>1, <2>3, <3>2 DEF Awaits
  <2> QED
    BY <2>4, <2>5
<1>5. ASSUME NEW i \in 1 .. Len(messages)
      PROVE  /\ InOrder(new[i], said, misread)
             /\ IsPending(new[i]) => i = Len(messages) /\ Answering(messages) /\ Generating
  <2>1. /\ InOrder(messages[i], said, misread)
        /\ IsPending(messages[i]) => i = Len(messages) /\ Answering(messages) /\ Generating
    BY <1>0, <1>1 DEF Orderly, Proper, Answering
  <2>2. CASE new[i] = messages[i]
    BY <2>1, <2>2
  <2>3. CASE new[i] # messages[i]
    <3>1. pending # <<>> /\ i = Len(messages)
      BY <1>2, <2>3 DEF Touched
    <3>2. PICK s \in sources : TRUE
      BY <1>1, <3>1 DEF OneSource
    <3> QED
      BY <1>4, <3>1, <3>2
  <2> QED
    BY <2>2, <2>3
<1> QED
  BY <1>4, <1>5

\* No connection is new, and nothing was said.
LEMMA FewerConnections ==
  ASSUME PageInv, abandoned' = abandoned, said' = said, lastKey' = lastKey,
         \A s \in sources' : \E q \in sources : q.key = s.key,
         \A r \in requests' : \E q \in requests : q.key = r.key
  PROVE  Connections'
<1>1. Connections
  BY DEF PageInv
<1>2. \A s \in sources' : s.key <= lastKey
  BY <1>1 DEF Connections
<1>3. \A a \in abandoned :
        (\A s \in sources' : s.key # a.key) /\ (\A r \in requests' : r.key # a.key)
  BY <1>1 DEF Connections
<1>4. \A r \in requests' : said[r.key] = <<>>
  BY <1>1 DEF Connections
<1> QED
  BY <1>1, <1>2, <1>3, <1>4 DEF Connections

\* What the ends of an answer have in common, whether the stream or the request
\* completes or fails, or the user stops it.
Ends ==
  /\ sources' = {} /\ sse' = None /\ pending' = <<>> /\ flushTimer' \in BOOLEAN
  /\ isRequesting' \in BOOLEAN /\ (isRequesting' => isRequesting)
  /\ Touched(messages, messages') /\ saveTimer' = (saveTimer \/ loaded)
  /\ UNCHANGED <<stream, open, editing, lastKey, requestId, loaded, disk, hasty, leaves>>
  /\ UNCHANGED <<abandoned, chunks>>
  /\ said' \in [Keys -> Text] /\ misread' \subseteq Keys
  /\ requests' \subseteq Request /\ abortCtl' \in {abortCtl, None}
  /\ stream => requests' = {}
  /\ OneRequest' /\ Connections'
  /\ view' \in {view, Current'}
  /\ ~ hasty => /\ Quiet(messages', said', misread') /\ ~ isRequesting'
                /\ Proper(stored, said', misread')
                /\ \A a \in abandoned : Resumable(a, said', misread')
                /\ \A r \in requests' : r.aborted
                /\ view.generating \/ view' = Current'

\* The end of an answer keeps the invariant.
LEMMA EndsKeeps ==
  ASSUME PageInv, Ends
  PROVE  PageInv'
<1>0. /\ stream' = stream /\ open' = open /\ editing' = editing /\ lastKey' = lastKey
      /\ requestId' = requestId /\ loaded' = loaded /\ stored' = stored
      /\ apart' = apart /\ hasty' = hasty /\ leaves' = leaves
      /\ sources' = {} /\ sse' = None /\ pending' = <<>> /\ flushTimer' \in BOOLEAN
      /\ isRequesting' \in BOOLEAN /\ saveTimer' = (saveTimer \/ loaded)
      /\ requests' \subseteq Request /\ abortCtl' \in {abortCtl, None}
      /\ Touched(messages, messages') /\ abandoned' = abandoned /\ chunks' = chunks
      /\ said' \in [Keys -> Text] /\ misread' \subseteq Keys
  BY DEF Ends, disk
<1>1. Keyed(messages', lastKey) /\ messages' \in Seq(Message)
  BY <1>0, Basics, TouchedKeyed DEF Keyed
<1>2. \/ view' = view
      \/ /\ view'.messages = messages' /\ view'.loaded = loaded
         /\ view'.generating = Generating'
  BY <1>0 DEF Ends, Current
<1>3. Keyed(view'.messages, lastKey) /\ view'.messages \in Seq(Message)
  BY <1>1, <1>2, Basics
<1>4. TypeOK'
  <2>1. view'.generating \in BOOLEAN /\ view'.loaded \in BOOLEAN
    BY <1>0, <1>2, Basics DEF Generating
  <2>2. pending' \in Text
    BY <1>0, TextTypes
  <2>3. {sse', abortCtl'} \subseteq 0 .. MaxKeys
    BY <1>0, Basics DEF PageInv, TypeOK, None
  <2> QED
    BY <1>0, <1>1, <1>3, <2>1, <2>2, <2>3, Basics DEF PageInv, TypeOK
<1>5. Conversations'
  BY <1>0, <1>1, <1>3, Basics DEF PageInv, Conversations
<1>6. OneSource'
  BY <1>0 DEF Ends, OneSource
<1>7. OneRequest' /\ Connections'
  BY DEF Ends
<1>8. Shown'
  <2>1. Generating' => Generating
    BY <1>0 DEF Ends, Generating, isStreaming
  <2> QED
    BY <1>0, <1>2, <2>1 DEF PageInv, Shown
<1>9. Saved'
  BY <1>0 DEF Saved
<1>10. ASSUME ~ hasty' PROVE Orderly'
  <2>1. /\ Quiet(messages', said', misread') /\ ~ isRequesting' /\ \A r \in requests' : r.aborted
        /\ Proper(stored, said', misread') /\ \A a \in abandoned : Resumable(a, said', misread')
        /\ view.generating \/ view' = Current'
    BY <1>0, <1>10 DEF Ends
  <2>2. ~ Generating'
    BY <1>0, <2>1 DEF Generating, isStreaming
  <2>3. view'.loaded /\ ~ view'.generating => view'.messages = messages'
    <3>1. CASE view' = Current'
      BY <3>1 DEF Current, Generating
    <3>2. CASE view.generating /\ view' = view
      BY <3>2
    <3> QED
      BY <2>1, <3>1, <3>2 DEF Ends
  <2>4. Proper(messages', said', misread')
    BY <2>1, QuietProper
  <2> QED
    BY <1>0, <2>1, <2>2, <2>3, <2>4 DEF Orderly, Quiet
<1> QED
  BY <1>4, <1>5, <1>6, <1>7, <1>8, <1>9, <1>10 DEF PageInv

\* After a flush, an update that settles the last message settles them all.
LEMMA SettlesAll ==
  ASSUME PageInv, ~ hasty, NEW new, Touched(messages, new),
         ~ Answering(messages) => new = messages,
         Answering(messages) => /\ ~ IsPending(new[Len(messages)])
                                /\ new[Len(messages)].text \in
                                     {<<Written>>, Flushed(messages)[Len(messages)].text}
  PROVE  Quiet(new, said, misread)
<1>0. messages \in Seq(Message) /\ Len(messages) \in Nat /\ Orderly
  BY Basics DEF PageInv
<1>1. CASE ~ Answering(messages)
  BY <1>0, <1>1 DEF Orderly, Proper, Quiet, Answering
<1>2. CASE Answering(messages)
  <2>1. ASSUME NEW i \in 1 .. Len(messages), i # Len(messages)
        PROVE  InOrder(new[i], said, misread) /\ ~ IsPending(new[i])
    BY <1>0, <2>1 DEF Orderly, Proper, Touched
  <2>2. InOrder(new[Len(messages)], said, misread) /\ ~ IsPending(new[Len(messages)])
    <3>1. Len(messages) \in 1 .. Len(messages)
      BY <1>0, <1>2, LastIn DEF Answering
    <3>2. InOrder(Flushed(messages)[Len(messages)], said, misread)
      BY <3>1, FlushedInOrder
    <3>3. new[Len(messages)].key = Flushed(messages)[Len(messages)].key
      BY <1>0, <3>1, Basics, FlushedTouches DEF Touched
    <3> QED
      BY <1>2, <3>2, <3>3 DEF InOrder
  <2> QED
    BY <2>1, <2>2 DEF Quiet, Touched
<1> QED
  BY <1>1, <1>2

\* Stopping keeps the invariant.
LEMMA StopKeeps ==
  ASSUME PageInv, Stop
  PROVE  PageInv'
<1>0. OneSource /\ OneRequest /\ (~ hasty => Orderly)
  BY DEF PageInv
<1> DEFINE Abort(r) == [r EXCEPT !.aborted = r.aborted \/ r.key = abortCtl]
<1>1. requests' = {Abort(r) : r \in requests} /\ isRequesting' = FALSE
  BY DEF Stop
<1>2. ASSUME NEW r \in requests
      PROVE  /\ Abort(r) \in Request /\ Abort(r).key = r.key
             /\ Abort(r).aborted = (r.aborted \/ r.key = abortCtl)
  BY ConnectionFields DEF Request
<1> HIDE DEF Abort
<1>3. OneRequest'
  <2>1. ASSUME NEW x \in requests', NEW y \in requests', x.key = y.key PROVE x = y
    <3>1. PICK r \in requests : x = Abort(r)
      BY <1>1
    <3>2. PICK q \in requests : y = Abort(q)
      BY <1>1
    <3>3. r = q
      BY <1>0, <1>2, <2>1, <3>1, <3>2 DEF OneRequest
    <3> QED
      BY <3>1, <3>2, <3>3
  <2>2. ASSUME NEW x \in requests' PROVE x.key <= lastKey'
    <3>1. PICK r \in requests : x = Abort(r)
      BY <1>1
    <3> QED
      BY <1>0, <1>2, <3>1 DEF OneRequest, Stop
  <2> QED
    BY <1>1, <2>1, <2>2 DEF OneRequest
<1>4. /\ Touched(messages, messages')
      /\ ~ Answering(messages) => messages' = messages
      /\ Answering(messages) => /\ ~ IsPending(messages'[Len(messages)])
                                /\ messages'[Len(messages)].text = Flushed(messages)[Len(messages)].text
  BY Basics, StoppedTouches DEF Stop, UpdateMessages
<1>5. ~ hasty => Quiet(messages', said, misread)
  BY <1>4, SettlesAll
<1>6. ~ hasty => \A r \in requests' : r.aborted
  BY <1>0, <1>1, <1>2 DEF Orderly
<1>7. sources' = {} /\ sse' = None
  BY <1>0 DEF Stop, OneSource
<1>8. requests' \subseteq Request
  BY <1>1, <1>2
<1>9. stream => requests' = {}
  BY <1>0, <1>1 DEF OneSource
<1>10. /\ abandoned' = abandoned /\ chunks' = chunks /\ said' = said /\ misread' = misread
       /\ said \in [Keys -> Text] /\ misread \subseteq Keys /\ lastKey' = lastKey
  BY Basics DEF Stop, heard
<1>11. Connections'
  <2>1. \A r \in requests' : \E q \in requests : q.key = r.key
    BY <1>1, <1>2
  <2> QED
    BY <1>7, <1>10, <2>1, FewerConnections
<1>12. ~ hasty => /\ Proper(stored, said, misread)
                  /\ \A a \in abandoned : Resumable(a, said, misread)
  BY <1>0 DEF Orderly
<1>13. Ends
  BY <1>1, <1>3, <1>4, <1>5, <1>6, <1>7, <1>8, <1>9, <1>10, <1>11, <1>12
    DEF Stop, Ends, FlushDone, Rendered, UpdateMessages
<1> QED
  BY <1>13, EndsKeeps

\* The events of a stream that end it.
LEMMA StreamEndKeeps ==
  ASSUME PageInv, NEW s \in sources, StreamComplete(s) \/ StreamError(s)
  PROVE  PageInv'
<1>0. OneSource /\ OneRequest /\ s.key # None /\ s.key = sse
  BY ConnectionFields DEF PageInv, OneSource
<1>1. sources' = {} /\ sse' = None
  BY <1>0 DEF StreamComplete, StreamError, CloseActiveStream, OneSource
<1>2. /\ isRequesting' = FALSE /\ pending' = <<>> /\ flushTimer' = FALSE
      /\ UNCHANGED <<requests, requestId, abortCtl>>
      /\ UNCHANGED <<stream, open, view, editing, lastKey, loaded, disk, hasty, leaves>>
      /\ abandoned' = abandoned /\ chunks' = chunks /\ said' = said /\ misread' = misread
      /\ saveTimer' = (saveTimer \/ loaded)
  BY DEF StreamComplete, StreamError, FlushDone, NoRequest, UpdateMessages, heard
<1>3. /\ Touched(messages, messages')
      /\ ~ Answering(messages) => messages' = messages
      /\ Answering(messages) =>
           /\ ~ IsPending(messages'[Len(messages)])
           /\ messages'[Len(messages)].text \in {<<Written>>, Flushed(messages)[Len(messages)].text}
  <2>1. CASE messages' = UpdateLast(Flushed(messages), Finished)
    BY <2>1, Basics, FinishedTouches
  <2>2. CASE messages' = UpdateLast(Flushed(messages), Failed)
    BY <2>2, Basics, FailedTouches
  <2> QED
    BY <2>1, <2>2 DEF StreamComplete, StreamError, UpdateMessages
<1>4. ~ hasty => Quiet(messages', said, misread)
  BY <1>3, SettlesAll
<1>5. requests = {}
  BY <1>0, Basics DEF OneSource
<1>6. view.generating
  BY <1>0 DEF PageInv, Shown, Generating, isStreaming
<1>7. OneRequest'
  BY <1>2, <1>5 DEF OneRequest
<1>8. Connections'
  BY <1>1, <1>2, <1>5, FewerConnections
<1>9. /\ said \in [Keys -> Text] /\ misread \subseteq Keys
      /\ ~ hasty => /\ Proper(stored, said, misread)
                    /\ \A a \in abandoned : Resumable(a, said, misread)
  BY Basics DEF PageInv, Orderly
<1>10. Ends
  BY <1>1, <1>2, <1>3, <1>4, <1>5, <1>6, <1>7, <1>8, <1>9 DEF Ends
<1> QED
  BY <1>10, EndsKeeps

\* A request that is answered or fails while it was not aborted.
LEMMA RequestEndKeeps ==
  ASSUME PageInv, NEW r \in requests, NEW text \in Replies,
         RequestAnswered(r, text) \/ RequestFailed(r)
  PROVE  PageInv'
<1>0. OneSource /\ OneRequest /\ ~ r.aborted /\ r.key \in Keys /\ (~ hasty => Orderly)
  BY ConnectionFields DEF PageInv, RequestAnswered, RequestFailed
<1>1. ~ stream /\ sources = {} /\ sse = None /\ pending = <<>>
  BY <1>0, Basics DEF OneSource
<1>2. /\ requests' = requests \ {r} /\ sources' = {} /\ sse' = None /\ requestId' = requestId
      /\ UNCHANGED <<stream, open, view, editing, lastKey, loaded, disk, hasty, leaves>>
      /\ abandoned' = abandoned /\ chunks' = chunks
      /\ saveTimer' = (saveTimer \/ loaded)
      /\ abortCtl' \in {abortCtl, None}
  BY <1>1 DEF RequestAnswered, RequestFailed, Settled, UpdateMessages, heard
<1>3. pending' = <<>> /\ flushTimer' \in BOOLEAN
  BY <1>1 DEF RequestAnswered, RequestFailed, FlushDone, PageInv, TypeOK
<1>4. /\ isRequesting' \in BOOLEAN /\ (isRequesting' => isRequesting)
      /\ requestId = r.key => ~ isRequesting'
  BY Basics DEF RequestAnswered, RequestFailed, Settled
<1>5. OneRequest'
  BY <1>0, <1>2, <1>4 DEF OneRequest
<1>6. Flushed(messages) = messages
  BY <1>1, Basics, FlushedTouches
<1>7. text \in Text /\ said \in [Keys -> Text] /\ misread \subseteq Keys /\ Connections
  BY TextTypes, Basics DEF PageInv
<1>8. /\ said' \in [Keys -> Text] /\ misread' \subseteq Keys
      /\ \A j \in Keys : j # r.key => said'[j] = said[j]
      /\ Grown(said, misread, said', misread')
  <2>1. CASE RequestAnswered(r, text)
    BY <1>0, <1>7, <2>1, SpeaksGrows DEF RequestAnswered, Speaks
  <2>2. CASE RequestFailed(r)
    <3>1. \A k \in Keys : said[k] \in Text
      BY <1>7
    <3>2. \A k \in Keys : IsPrefix(said[k], said[k])
      BY <3>1, PrefixOfJoined
    <3> QED
      BY <1>7, <2>2, <3>2 DEF RequestFailed, Grown, heard
  <2> QED
    BY <2>1, <2>2
<1>9. /\ Touched(messages, messages')
      /\ ~ Answering(messages) => messages' = messages
      /\ Answering(messages) =>
           /\ ~ IsPending(messages'[Len(messages)])
           /\ messages'[Len(messages)].text \in {<<Written>>, said'[r.key]}
  <2>1. CASE RequestAnswered(r, text)
    <3>1. said'[r.key] = text
      <4>1. said[r.key] = <<>> /\ <<>> \o text = text
        BY <1>7, Joins DEF Connections
      <4>2. said'[r.key] = said[r.key] \o text
        BY <1>0, <1>7, <2>1, SpeaksGrows DEF RequestAnswered, Speaks
      <4> QED
        BY <4>1, <4>2
    <3> QED
      BY <1>7, <2>1, <3>1, Basics, ReplyTouches DEF RequestAnswered, UpdateMessages
  <2>2. CASE RequestFailed(r)
    BY <2>2, Basics, FailedTouches DEF RequestFailed, UpdateMessages
  <2> QED
    BY <2>1, <2>2
<1>10. Connections'
  <2>1. \A q \in requests' : q \in requests /\ q.key # r.key /\ q.key \in Keys
    BY <1>0, <1>2, ConnectionFields DEF OneRequest
  <2>2. \A q \in requests' : said'[q.key] = <<>>
    BY <1>7, <1>8, <2>1 DEF Connections
  <2>3. \A a \in abandoned : a.key # r.key /\ a.key \in Keys
    BY <1>7, ConnectionFields DEF Connections
  <2>4. \A a \in abandoned : ~ a.streamed => said'[a.key] = <<>>
    BY <1>7, <1>8, <2>3 DEF Connections
  <2>5. ASSUME NEW k \in Keys, k > lastKey PROVE said'[k] = <<>>
    <3>1. r.key <= lastKey /\ r.key \in Nat /\ lastKey \in Nat /\ k \in Nat
      BY <1>0, ConnectionFields, Basics DEF OneRequest, Keys
    <3>2. k # r.key
      BY <2>5, <3>1
    <3> QED
      BY <1>7, <1>8, <2>5, <3>2 DEF Connections
  <2> QED
    BY <1>2, <1>7, <2>1, <2>2, <2>4, <2>5 DEF Connections
<1>11. ASSUME ~ hasty
       PROVE  /\ Quiet(messages', said', misread') /\ ~ isRequesting'
              /\ \A q \in requests' : q.aborted
              /\ view.generating
  <2>1. /\ r.key = abortCtl /\ r.key = requestId /\ isRequesting /\ Awaits(messages, r.key)
        /\ \A q \in requests : q.aborted \/ q.key = requestId
    BY <1>0, <1>11 DEF Orderly
  <2>2. \A q \in requests' : q.aborted
    BY <1>0, <1>2, <2>1 DEF OneRequest
  <2>3. view.generating
    BY <2>1 DEF PageInv, Shown, Generating
  <2>4. Quiet(messages', said', misread')
    <3>1. Answering(messages) /\ messages[Len(messages)].key = r.key
      BY <2>1 DEF Awaits, Answering
    <3>2. Proper(messages, said', misread')
      BY <1>0, <1>7, <1>8, <1>11, Basics, GrownProper DEF Orderly
    <3>3. ASSUME NEW i \in 1 .. Len(messages), i # Len(messages)
          PROVE  InOrder(messages'[i], said', misread') /\ ~ IsPending(messages'[i])
      BY <1>9, <3>2, <3>3 DEF Proper, Touched
    <3>4. Len(messages) \in 1 .. Len(messages)
      BY <3>1, Basics, LastIn DEF Answering
    <3>5. messages'[Len(messages)].key = r.key
      BY <1>9, <3>1, <3>4 DEF Touched
    <3>6. IsPrefix(said'[r.key], said'[r.key])
      <4>1. said'[r.key] \in Text
        BY <1>0, <1>8
      <4> QED
        BY <4>1, PrefixOfJoined
    <3>7. InOrder(messages'[Len(messages)], said', misread') /\ ~ IsPending(messages'[Len(messages)])
      BY <1>9, <3>1, <3>5, <3>6 DEF InOrder
    <3> QED
      BY <1>9, <3>3, <3>7 DEF Quiet, Touched
  <2> QED
    BY <1>4, <2>1, <2>2, <2>3, <2>4
<1>12. ASSUME ~ hasty
       PROVE  /\ Proper(stored, said', misread')
              /\ \A a \in abandoned : Resumable(a, said', misread')
  <2>1. Proper(stored, said', misread')
    BY <1>0, <1>7, <1>8, <1>12, Basics, GrownProper DEF Orderly
  <2>2. ASSUME NEW a \in abandoned PROVE Resumable(a, said', misread')
    <3>1. a \in Unfinished /\ a.key \in Keys /\ a.key # r.key /\ Resumable(a, said, misread)
      BY <1>0, <1>7, <1>12, ConnectionFields DEF Connections, Orderly
    <3>2. said'[a.key] = said[a.key]
      BY <1>8, <3>1
    <3> QED
      BY <1>7, <1>8, <3>1, <3>2, GrownResumable
  <2> QED
    BY <2>1, <2>2
<1>13. requests' \subseteq Request
  BY <1>2, ConnectionFields
<1>14. Ends
  BY <1>1, <1>2, <1>3, <1>4, <1>5, <1>8, <1>9, <1>10, <1>11, <1>12, <1>13 DEF Ends
<1> QED
  BY <1>14, EndsKeeps

\* The continuation of an aborted request changes no flag of a newer one.
LEMMA RequestAbortedKeeps ==
  ASSUME PageInv, NEW r \in requests, RequestAborted(r)
  PROVE  PageInv'
<1>0. OneSource /\ OneRequest /\ r.aborted /\ (~ hasty => Orderly)
  BY DEF PageInv, RequestAborted
<1>1. /\ requests' = requests \ {r}
      /\ abortCtl' = IF requestId = r.key THEN None ELSE abortCtl
      /\ stream' = stream /\ open' = open /\ messages' = messages /\ view' = view
      /\ editing' = editing /\ lastKey' = lastKey /\ sse' = sse /\ sources' = sources
      /\ pending' = pending /\ flushTimer' = flushTimer /\ requestId' = requestId
      /\ loaded' = loaded /\ saveTimer' = saveTimer /\ stored' = stored
      /\ apart' = apart /\ hasty' = hasty /\ leaves' = leaves /\ abandoned' = abandoned
      /\ chunks' = chunks /\ said' = said /\ misread' = misread
  BY DEF RequestAborted, Settled, disk, heard
<1>2. isRequesting' = isRequesting
  BY <1>0, Basics DEF RequestAborted, Settled, OneRequest
<1>3. TypeOK'
  BY <1>1, <1>2, Basics DEF PageInv, TypeOK, None
<1>4. Conversations' /\ OneSource' /\ OneRequest' /\ Connections' /\ Shown' /\ Saved'
  BY <1>1, <1>2 DEF PageInv, Conversations, OneSource, OneRequest, Connections, Shown, Saved,
       Generating, isStreaming
<1>5. ASSUME ~ hasty' PROVE Orderly'
  <2>1. Orderly
    BY <1>0, <1>1, <1>5
  <2>2. ASSUME NEW q \in requests', ~ q.aborted
        PROVE  q.key = abortCtl' /\ q.key = requestId' /\ isRequesting' /\ Awaits(messages', q.key)
    <3>1. q.key = abortCtl /\ q.key = requestId /\ isRequesting /\ Awaits(messages, q.key)
      BY <1>1, <2>1, <2>2 DEF Orderly
    <3>2. requestId # r.key
      BY <1>0, <1>1, <2>2, <3>1 DEF OneRequest
    <3> QED
      BY <1>1, <1>2, <3>1, <3>2
  <2> QED
    BY <1>1, <1>2, <2>1, <2>2 DEF Orderly, Generating, isStreaming
<1> QED
  BY <1>3, <1>4, <1>5 DEF PageInv

-------

-----------------------------------------------------------------------------
(* While an answer arrives.                                                 *)

\* The connections after the server spoke to k and to nobody else.
LEMMA SpokenConnections ==
  ASSUME PageInv, NEW k \in Keys, NEW text \in Text, Speaks(k, text), k <= lastKey,
         UNCHANGED <<sources, requests, lastKey>>, abandoned' \subseteq abandoned,
         \A a \in abandoned' : a.key # k, \A r \in requests : r.key # k
  PROVE  Connections'
<1>1. Connections /\ \A j \in Keys : j # k => said'[j] = said[j]
  BY SpeaksGrows DEF PageInv
<1>2. \A r \in requests : said'[r.key] = <<>>
  BY <1>1, ConnectionFields DEF Connections
<1>3. \A a \in abandoned' : ~ a.streamed => said'[a.key] = <<>>
  BY <1>1, ConnectionFields DEF Connections
<1>4. ASSUME NEW j \in Keys, j > lastKey PROVE said'[j] = <<>>
  <2>1. j \in Nat /\ k \in Nat /\ lastKey \in Nat
    BY Basics DEF Keys
  <2>2. j # k
    BY <1>4, <2>1
  <2> QED
    BY <1>1, <1>4, <2>2 DEF Connections
<1> QED
  BY <1>1, <1>2, <1>3, <1>4 DEF Connections

\* What was in order before the server spoke to k is so after it did.
LEMMA SpokenOrderly ==
  ASSUME PageInv, ~ hasty, NEW k \in Keys, NEW text \in Text, Speaks(k, text)
  PROVE  /\ Proper(messages, said', misread') /\ Proper(stored, said', misread')
         /\ \A a \in abandoned : a.key # k => Resumable(a, said', misread')
<1>1. Orderly /\ said \in [Keys -> Text] /\ messages \in Seq(Message) /\ stored \in Seq(Message)
  BY Basics DEF PageInv
<1>2. /\ said' \in [Keys -> Text] /\ Grown(said, misread, said', misread')
      /\ \A j \in Keys : j # k => said'[j] = said[j]
  BY SpeaksGrows
<1>3. Proper(messages, said', misread') /\ Proper(stored, said', misread')
  BY <1>1, <1>2, GrownProper DEF Orderly
<1>4. ASSUME NEW a \in abandoned, a.key # k PROVE Resumable(a, said', misread')
  <2>1. a \in Unfinished /\ said'[a.key] = said[a.key] /\ Resumable(a, said, misread)
    BY <1>1, <1>2, <1>4, ConnectionFields DEF Orderly
  <2> QED
    BY <1>1, <1>2, <2>1, GrownResumable
<1> QED
  BY <1>3, <1>4

\* What the server sends is text.
LEMMA SaysSpeaks ==
  ASSUME PageInv, NEW k \in Keys, NEW snapshot \in BOOLEAN, NEW part \in Parts,
         NEW shown, NEW buffer \in Text, Says(k, snapshot, part, shown, buffer)
  PROVE  /\ part \in Text /\ Speaks(k, part)
         /\ Chunk(k, snapshot, part) \in Text
         /\ MergeChunk(buffer, Chunk(k, snapshot, part)) \in Text
<1>1. part \in Text /\ said[k] \in Text
  BY TextTypes, Basics
<1>2. said[k] \o part \in Text
  BY <1>1, Joins
<1>3. Chunk(k, snapshot, part) \in Text
  BY <1>1, <1>2 DEF Chunk
<1> QED
  BY <1>1, <1>3, ChunkTypes DEF Says, Speaks

\* A chunk is buffered behind what was received, unless it is misread.
LEMMA SaysReceived ==
  ASSUME PageInv, NEW k \in Keys, NEW snapshot \in BOOLEAN, NEW part \in Parts,
         NEW ms \in Seq(Message), NEW buffer \in Text,
         Receiving(ms, buffer, k, snapshot, said, misread),
         Says(k, snapshot, part, ShownText(ms), buffer)
  PROVE  Receiving(ms, MergeChunk(buffer, Chunk(k, snapshot, part)), k, snapshot, said', misread')
<1>1. ms # <<>> /\ Awaits(ms, k) /\ IsPending(ms[Len(ms)])
  BY DEF Receiving, Awaits
<1> DEFINE shown == ms[Len(ms)].text
<1>2. shown \in Text /\ ShownText(ms) = shown
  BY <1>1, LastIn DEF Message, ShownText, Last
<1>3. part \in Text /\ said[k] \in Text /\ said'[k] = said[k] \o part
  BY Basics, SaysSpeaks, SpeaksGrows
<1> HIDE DEF shown
<1>4. ASSUME k \notin misread'
      PROVE  Buffered(shown, MergeChunk(buffer, Chunk(k, snapshot, part)), said'[k], snapshot)
  <2>1. k \notin misread /\ (snapshot \/ ~ LooksLikeSnapshot(shown, buffer, part))
    BY <1>2, <1>4 DEF Says
  <2>2. Buffered(shown, buffer, said[k], snapshot)
    BY <2>1 DEF Receiving, shown
  <2>3. Buffered(shown, MergeChunk(buffer, IF snapshot THEN said[k] \o part ELSE part),
                 said[k] \o part, snapshot)
    BY <1>2, <1>3, <2>1, <2>2, ChunkMerges
  <2> QED
    BY <1>3, <2>3 DEF Chunk
<1> QED
  BY <1>1, <1>4 DEF Receiving, shown

\* A chunk keeps the invariant.
LEMMA StreamChunkKeeps ==
  ASSUME PageInv, NEW s \in sources, NEW part \in Parts, StreamChunk(s, part)
  PROVE  PageInv'
<1>0. /\ OneSource /\ Connections /\ stream /\ requests = {}
      /\ s.key \in Keys /\ s.snapshot \in BOOLEAN /\ s.key <= lastKey /\ pending \in Text
  BY ConnectionFields, Basics DEF PageInv, OneSource, Connections
<1>1. /\ Says(s.key, s.snapshot, part, ShownText(messages), pending)
      /\ pending' = MergeChunk(pending, Chunk(s.key, s.snapshot, part))
      /\ flushTimer' = TRUE /\ chunks' = chunks + 1 /\ chunks < MaxChunks
      /\ stream' = stream /\ open' = open /\ messages' = messages /\ view' = view
      /\ editing' = editing /\ lastKey' = lastKey /\ sse' = sse /\ sources' = sources
      /\ isRequesting' = isRequesting /\ requests' = requests /\ requestId' = requestId
      /\ abortCtl' = abortCtl /\ loaded' = loaded /\ saveTimer' = saveTimer
      /\ stored' = stored /\ apart' = apart /\ hasty' = hasty /\ leaves' = leaves
      /\ abandoned' = abandoned
  BY DEF StreamChunk, NoRequest, disk
<1>2. part \in Text /\ Speaks(s.key, part) /\ pending' \in Text
  BY <1>0, <1>1, SaysSpeaks
<1>3. said' \in [Keys -> Text] /\ misread' \subseteq Keys
  BY <1>0, <1>2, SpeaksGrows
<1>4. TypeOK'
  <2>1. chunks' \in 0 .. MaxChunks
    BY <1>1, Basics DEF PageInv, TypeOK
  <2> QED
    BY <1>1, <1>2, <1>3, <2>1, Basics DEF PageInv, TypeOK
<1>5. Conversations' /\ OneSource' /\ OneRequest' /\ Shown' /\ Saved'
  BY <1>0, <1>1 DEF PageInv, Conversations, OneSource, OneRequest, Shown, Saved,
       Generating, isStreaming
<1>6. Connections'
  <2>1. \A a \in abandoned : a.key # s.key
    BY <1>0 DEF Connections
  <2> QED
    BY <1>0, <1>1, <1>2, <2>1, SpokenConnections
<1>7. ASSUME ~ hasty' PROVE Orderly'
  <2>1. ~ hasty /\ Orderly
    BY <1>1, <1>7 DEF PageInv
  <2>2. /\ Proper(messages, said', misread') /\ Proper(stored, said', misread')
        /\ \A a \in abandoned : Resumable(a, said', misread')
    BY <1>0, <1>2, <2>1, SpokenOrderly DEF Connections
  <2>3. Receiving(messages, pending', s.key, s.snapshot, said', misread')
    BY <1>0, <1>1, <2>1, Basics, SaysReceived DEF Orderly
  <2>4. \A q \in sources : q = s
    BY <1>0 DEF OneSource
  <2> QED
    BY <1>0, <1>1, <2>1, <2>2, <2>3, <2>4 DEF Orderly, Generating, isStreaming
<1> QED
  BY <1>4, <1>5, <1>6, <1>7 DEF PageInv

\* A connection that closes unreported keeps the invariant.
LEMMA StreamEndsQuietlyKeeps ==
  ASSUME PageInv, NEW s \in sources, StreamEndsQuietly(s)
  PROVE  PageInv'
<1> DEFINE new == [s EXCEPT !.ended = TRUE]
<1>0. OneSource /\ OneRequest /\ stream /\ requests = {}
  BY Basics DEF PageInv, OneSource
<1>1. new \in Source /\ new.key = s.key /\ new.snapshot = s.snapshot
  BY ConnectionFields DEF Source
<1>2. /\ sources' = (sources \ {s}) \cup {new}
      /\ stream' = stream /\ open' = open /\ messages' = messages /\ view' = view
      /\ editing' = editing /\ lastKey' = lastKey /\ sse' = sse /\ pending' = pending
      /\ flushTimer' = flushTimer /\ isRequesting' = isRequesting /\ requests' = requests
      /\ requestId' = requestId /\ abortCtl' = abortCtl /\ loaded' = loaded
      /\ saveTimer' = saveTimer /\ stored' = stored /\ apart' = apart /\ hasty' = hasty
      /\ leaves' = leaves /\ abandoned' = abandoned
      /\ chunks' = chunks /\ said' = said /\ misread' = misread
  BY DEF StreamEndsQuietly, NoRequest, disk, heard
<1> HIDE DEF new
<1>3. sources' = {new}
  BY <1>0, <1>2 DEF OneSource
<1>4. TypeOK'
  BY <1>1, <1>2, <1>3, Basics DEF PageInv, TypeOK
<1>5. OneSource'
  BY <1>0, <1>1, <1>2, <1>3 DEF OneSource
<1>6. Conversations' /\ OneRequest' /\ Shown' /\ Saved'
  BY <1>2 DEF PageInv, Conversations, OneRequest, Shown, Saved, Generating, isStreaming
<1>7. Connections'
  BY <1>1, <1>2, <1>3, FewerConnections
<1>8. ASSUME ~ hasty' PROVE Orderly'
  BY <1>0, <1>1, <1>2, <1>3, <1>8 DEF PageInv, Orderly, Generating, isStreaming
<1> QED
  BY <1>4, <1>5, <1>6, <1>7, <1>8 DEF PageInv

\* The flush timer keeps the invariant: what was buffered is shown.
LEMMA FlushKeeps ==
  ASSUME PageInv, FlushStreamUpdates
  PROVE  PageInv'
<1>0. /\ messages' = Flushed(messages) /\ saveTimer' = (saveTimer \/ loaded)
      /\ pending' = <<>> /\ flushTimer' = FALSE
      /\ requests' = requests /\ requestId' = requestId /\ abortCtl' = abortCtl
      /\ stream' = stream /\ open' = open /\ view' = view /\ editing' = editing
      /\ lastKey' = lastKey /\ sse' = sse /\ sources' = sources
      /\ isRequesting' = isRequesting /\ loaded' = loaded /\ stored' = stored
      /\ apart' = apart /\ hasty' = hasty /\ leaves' = leaves /\ abandoned' = abandoned
      /\ chunks' = chunks /\ said' = said /\ misread' = misread
  BY DEF FlushStreamUpdates, UpdateMessages, FlushDone, NoRequest, disk, heard
<1>1. Touched(messages, messages') /\ (pending = <<>> => messages' = messages)
  BY <1>0, Basics, FlushedTouches
<1>2. Keyed(messages', lastKey) /\ messages' \in Seq(Message)
  BY <1>1, Basics, TouchedKeyed DEF Keyed
<1>3. TypeOK'
  <2>1. pending' \in Text
    BY <1>0, TextTypes
  <2> QED
    BY <1>0, <1>2, <2>1, Basics DEF PageInv, TypeOK
<1>4. Conversations'
  BY <1>0, <1>2, Basics DEF PageInv, Conversations
<1>5. OneSource' /\ OneRequest' /\ Connections' /\ Shown' /\ Saved'
  BY <1>0 DEF PageInv, OneSource, OneRequest, Connections, Shown, Saved, Generating, isStreaming
<1>6. ASSUME ~ hasty' PROVE Orderly'
  <2>0. ~ hasty /\ Orderly /\ (Generating' <=> Generating) /\ messages \in Seq(Message)
        /\ Len(messages') = Len(messages)
    BY <1>0, <1>1, <1>6, Basics DEF PageInv, Generating, isStreaming, Touched
  <2>1. /\ \A i \in 1 .. Len(messages) :
             /\ InOrder(messages'[i], said, misread)
             /\ IsPending(messages'[i]) => i = Len(messages) /\ Answering(messages) /\ Generating
        /\ \A s \in sources :
             /\ Answering(messages) /\ IsPending(messages'[Len(messages)])
             /\ messages'[Len(messages)].key = s.key
             /\ s.key \in misread \/ messages'[Len(messages)].text = said[s.key]
    BY <1>0, <2>0, FlushedInOrder
  <2>2. Answering(messages) =>
          /\ messages' # <<>>
          /\ messages'[Len(messages')].key = messages[Len(messages)].key
          /\ messages'[Len(messages')].from = "assistant"
    <3>1. Answering(messages) => Len(messages) \in 1 .. Len(messages) /\ Len(messages') # 0
      BY <2>0, LastIn DEF Answering
    <3> QED
      BY <1>1, <2>0, <3>1 DEF Answering, Touched
  <2>3. \A i \in 1 .. Len(messages) : IsPending(messages'[i]) =>
          messages'[i].from = "assistant"
    BY <2>0, <2>1, <2>2
  <2>4. Proper(messages', said, misread)
    BY <2>0, <2>1, <2>3 DEF Proper
  <2>5. view.loaded /\ ~ view.generating => view.messages = messages'
    BY <1>1, <2>0, Idle DEF Orderly
  <2>6. ASSUME NEW s \in sources
        PROVE  Receiving(messages', pending', s.key, s.snapshot, said, misread)
    <3>1. said[s.key] \in Text /\ s.snapshot \in BOOLEAN
      BY ConnectionFields, Basics
    <3>2. Buffered(said[s.key], <<>>, said[s.key], s.snapshot)
      BY <3>1, NothingBuffered
    <3> QED
      BY <1>0, <2>0, <2>1, <2>2, <3>2 DEF Receiving, Awaits
  <2>7. ASSUME NEW r \in requests, ~ r.aborted
        PROVE  r.key = abortCtl /\ r.key = requestId /\ isRequesting /\ Awaits(messages', r.key)
    <3>1. r.key = abortCtl /\ r.key = requestId /\ isRequesting /\ Awaits(messages, r.key)
      BY <2>0, <2>7 DEF Orderly
    <3> QED
      BY <2>2, <3>1 DEF Awaits, Answering
  <2> QED
    BY <1>0, <2>0, <2>1, <2>4, <2>5, <2>6, <2>7 DEF Orderly
<1> QED
  BY <1>3, <1>4, <1>5, <1>6 DEF PageInv

-------

-----------------------------------------------------------------------------
(* Storage and the life of the page.                                        *)

\* What a write leaves in storage.
LEMMA StoreTypes ==
  ASSUME PageInv, NEW ms, Keyed(ms, lastKey), Len(ms) <= MaxStored,
         ~ hasty => Proper(ms, said, misread), Store(ms)
  PROVE  /\ Keyed(stored', lastKey) /\ stored' \in Seq(Message) /\ Len(stored') <= MaxStored
         /\ apart' \in BOOLEAN
         /\ ~ apart' => stored' = ms
         /\ ~ hasty => Proper(stored', said, misread)
<1>1. CASE stored' = ms /\ apart' = FALSE
  BY <1>1 DEF Keyed
<1>2. CASE stored' = stored /\ apart' = TRUE
  BY <1>2, Basics DEF PageInv, TypeOK, Orderly
<1> QED
  BY <1>1, <1>2 DEF Store

\* What a save leaves in storage.
LEMMA SaveTypes ==
  ASSUME PageInv, Save
  PROVE  /\ Keyed(stored', lastKey) /\ stored' \in Seq(Message) /\ Len(stored') <= MaxStored
         /\ apart' \in BOOLEAN
         /\ ~ apart' => stored' = Trim(messages)
         /\ ~ hasty => Proper(stored', said, misread)
<1>1. Keyed(Trim(messages), lastKey) /\ Len(Trim(messages)) <= MaxStored
  BY Basics, TrimKeyed
<1>2. ~ hasty => Proper(Trim(messages), said, misread)
  BY Basics, TrimKeyed DEF PageInv, Orderly
<1> QED
  BY <1>1, <1>2, StoreTypes DEF Save

\* What the page may read from storage.
LEMMA LoadTypes ==
  ASSUME PageInv, NEW ms \in Loadable
  PROVE  /\ Keyed(ms, lastKey) /\ Len(ms) <= MaxStored /\ ms \in Seq(Message)
         /\ Trim(ms) = ms
         /\ ~ hasty => Quiet(ms, said, misread) /\ Proper(ms, said, misread)
<1>1. /\ Keyed(ms, lastKey) /\ Len(ms) <= MaxStored
      /\ Proper(stored, said, misread) => Quiet(ms, said, misread)
  BY Basics, LoadedKeyed
<1>2. Trim(ms) = ms /\ ms \in Seq(Message)
  BY <1>1, TrimKeyed DEF Keyed
<1>3. ~ hasty => Quiet(ms, said, misread)
  BY <1>1 DEF PageInv, Orderly
<1> QED
  BY <1>1, <1>2, <1>3, QuietProper

\* Loading keeps the invariant: no loaded message waits for an answer.
LEMMA LoadKeeps ==
  ASSUME PageInv, Load
  PROVE  PageInv'
<1>0. /\ ~ loaded /\ loaded' = TRUE
      /\ stream' = stream /\ open' = open /\ view' = view /\ editing' = editing
      /\ lastKey' = lastKey /\ saveTimer' = saveTimer /\ hasty' = hasty /\ leaves' = leaves
      /\ sse' = sse /\ sources' = sources /\ pending' = pending /\ flushTimer' = flushTimer
      /\ isRequesting' = isRequesting /\ requests' = requests /\ requestId' = requestId
      /\ abortCtl' = abortCtl /\ abandoned' = abandoned
      /\ chunks' = chunks /\ said' = said /\ misread' = misread
  BY DEF Load, talk, heard
<1>1. PICK ms \in Loadable : messages' = ms /\ Store(ms)
  BY DEF Load
<1>2. /\ Keyed(ms, lastKey) /\ Len(ms) <= MaxStored /\ ms \in Seq(Message) /\ Trim(ms) = ms
      /\ ~ hasty => Quiet(ms, said, misread) /\ Proper(ms, said, misread)
  BY LoadTypes
<1>3. /\ Keyed(stored', lastKey) /\ stored' \in Seq(Message) /\ Len(stored') <= MaxStored
      /\ apart' \in BOOLEAN
      /\ ~ apart' => stored' = ms
      /\ ~ hasty => Proper(stored', said, misread)
  BY <1>1, <1>2, StoreTypes
<1>4. TypeOK'
  BY <1>0, <1>1, <1>2, <1>3, Basics DEF PageInv, TypeOK
<1>5. Conversations'
  BY <1>0, <1>1, <1>2, <1>3, Basics DEF PageInv, Conversations
<1>6. OneSource' /\ OneRequest' /\ Connections'
  BY <1>0 DEF PageInv, OneSource, OneRequest, Connections
<1>7. Shown' /\ Saved'
  BY <1>0, <1>1, <1>2, <1>3 DEF PageInv, Shown, Saved, Generating, isStreaming
<1>8. ASSUME ~ hasty' PROVE Orderly'
  <2>1. Orderly /\ Shown /\ OneSource
    BY <1>0, <1>8 DEF PageInv
  <2>2. ~ Generating /\ ~ view.loaded
    BY <1>0, <2>1, Basics DEF Orderly, Shown
  <2>3. sse = None /\ ~ isRequesting
    BY <2>2 DEF Generating, isStreaming
  <2>4. sources = {}
    BY <2>1, <2>3, ConnectionFields DEF OneSource
  <2>5. Quiet(ms, said, misread) /\ Proper(ms, said, misread) /\ Proper(stored', said, misread)
    BY <1>0, <1>2, <1>3, <1>8
  <2>6. (\A r \in requests : r.aborted) /\ \A a \in abandoned : Resumable(a, said, misread)
    BY <2>1, <2>3 DEF Orderly
  <2>7. ~ Generating'
    BY <1>0, <2>3 DEF Generating, isStreaming
  <2> QED
    BY <1>0, <1>1, <2>2, <2>4, <2>5, <2>6, <2>7 DEF Orderly, Quiet
<1> QED
  BY <1>4, <1>5, <1>6, <1>7, <1>8 DEF PageInv

\* The debounced save keeps the invariant.
LEMMA SaveMessagesKeeps ==
  ASSUME PageInv, SaveMessages
  PROVE  PageInv'
<1>0. /\ Save /\ saveTimer' = FALSE
      /\ UNCHANGED <<stream, open, messages, view, editing, lastKey, talk, loaded, hasty, leaves,
                     abandoned, heard>>
  BY DEF SaveMessages
<1>1. /\ Keyed(stored', lastKey) /\ stored' \in Seq(Message) /\ Len(stored') <= MaxStored
      /\ apart' \in BOOLEAN
      /\ ~ apart' => stored' = Trim(messages)
      /\ ~ hasty => Proper(stored', said, misread)
  BY <1>0, SaveTypes
<1>2. TypeOK'
  BY <1>0, <1>1, Basics DEF PageInv, TypeOK, talk, heard
<1>3. Conversations'
  BY <1>0, <1>1, Basics DEF PageInv, Conversations
<1>4. OneSource' /\ OneRequest' /\ Connections' /\ Shown' /\ Saved'
  BY <1>0, <1>1 DEF PageInv, OneSource, OneRequest, Connections, Shown, Saved,
       Generating, isStreaming, talk, heard
<1>5. ASSUME ~ hasty' PROVE Orderly'
  <2>1. Orderly /\ Proper(stored', said, misread)
    BY <1>0, <1>1, <1>5 DEF PageInv
  <2> QED
    BY <1>0, <2>1 DEF Orderly, Generating, isStreaming, talk, heard
<1> QED
  BY <1>2, <1>3, <1>4, <1>5 DEF PageInv

\* What a page that is left goes on receiving.
LEMMA UnattendedFields ==
  ASSUME PageInv, NEW a \in Unattended
  PROVE  /\ a \in Unfinished /\ a.messages = messages /\ a.pending = pending
         /\ a.streamed \in BOOLEAN
         /\ a.streamed => \E s \in sources : a.key = s.key /\ a.snapshot = s.snapshot
         /\ ~ a.streamed => \E r \in requests : a.key = r.key /\ ~ r.aborted /\ ~ a.snapshot
<1>0. messages \in Seq(Message) /\ pending \in Text
  BY Basics
<1>1. CASE \E s \in sources : a = Left(s.key, TRUE, s.snapshot)
  <2>1. PICK s \in sources : a = Left(s.key, TRUE, s.snapshot)
    BY <1>1
  <2>2. s.key \in Keys /\ s.snapshot \in BOOLEAN
    BY ConnectionFields
  <2> QED
    BY <1>0, <2>1, <2>2 DEF Left, Unfinished
<1>2. CASE \E r \in requests : ~ r.aborted /\ a = Left(r.key, FALSE, FALSE)
  <2>1. PICK r \in requests : ~ r.aborted /\ a = Left(r.key, FALSE, FALSE)
    BY <1>2
  <2>2. r.key \in Keys
    BY ConnectionFields
  <2> QED
    BY <1>0, <2>1, <2>2 DEF Left, Unfinished
<1> QED
  BY <1>1, <1>2 DEF Unattended

\* It has the keys and the text that the invariant asks for.
LEMMA UnattendedConnected ==
  ASSUME PageInv, NEW a \in Unattended
  PROVE  /\ a.key <= lastKey /\ Keyed(a.messages, lastKey)
         /\ ~ a.streamed => said[a.key] = <<>>
         /\ \A b \in abandoned : b.key # a.key
         /\ \A b \in Unattended : b.key = a.key => b = a
         /\ ~ hasty => Resumable(a, said, misread)
<1>0. /\ Connections /\ OneSource /\ OneRequest /\ (~ hasty => Orderly)
      /\ Keyed(messages, lastKey) /\ stream \in BOOLEAN
  BY Basics DEF PageInv
<1>1. CASE a.streamed
  <2>1. PICK s \in sources : a.key = s.key /\ a.snapshot = s.snapshot
    BY <1>1, UnattendedFields
  <2>2. stream /\ requests = {}
    BY <1>0, <2>1 DEF OneSource
  <2>3. a.key <= lastKey /\ \A b \in abandoned : b.key # a.key
    BY <1>0, <2>1 DEF Connections
  <2>4. ~ hasty => Resumable(a, said, misread)
    BY <1>0, <2>1, UnattendedFields DEF Orderly, Resumable, Receiving
  <2>5. ASSUME NEW b \in Unattended PROVE b = a
    <3>1. PICK q \in sources : b = Left(q.key, TRUE, q.snapshot)
      BY <2>2 DEF Unattended
    <3>2. PICK p \in sources : a = Left(p.key, TRUE, p.snapshot)
      BY <2>2 DEF Unattended
    <3>3. q = p
      BY <1>0 DEF OneSource
    <3> QED
      BY <3>1, <3>2, <3>3
  <2> QED
    BY <1>0, <1>1, <2>3, <2>4, <2>5, UnattendedFields
<1>2. CASE ~ a.streamed
  <2>1. PICK r \in requests : a.key = r.key /\ ~ r.aborted
    BY <1>2, UnattendedFields
  <2>2. sources = {}
    BY <1>0, <2>1 DEF OneSource
  <2>3. a.key <= lastKey /\ said[a.key] = <<>> /\ \A b \in abandoned : b.key # a.key
    BY <1>0, <2>1 DEF Connections, OneRequest
  <2>4. ~ hasty => Resumable(a, said, misread)
    BY <1>0, <1>2, <2>1, UnattendedFields DEF Orderly, Resumable
  <2>5. ASSUME NEW b \in Unattended, b.key = a.key PROVE b = a
    <3>1. PICK q \in requests : b = Left(q.key, FALSE, FALSE)
      BY <2>2 DEF Unattended
    <3>2. PICK p \in requests : a = Left(p.key, FALSE, FALSE)
      BY <2>2 DEF Unattended
    <3>3. q.key = p.key
      BY <2>5, <3>1, <3>2 DEF Left
    <3> QED
      BY <3>1, <3>2, <3>3
  <2> QED
    BY <1>0, <2>3, <2>4, <2>5, UnattendedFields
<1> QED
  BY <1>1, <1>2, UnattendedFields

\* Leaving or reloading the page keeps the invariant.
LEMMA LeaveKeeps ==
  ASSUME PageInv, Unmount \/ Reload
  PROVE  PageInv'
<1>0. /\ Leave
      /\ Save \/ UNCHANGED disk \/ \E ms \in Loadable : Store(ms)
      /\ abandoned' \subseteq abandoned \cup Unattended
  BY DEF Unmount, Reload
<1>1. /\ Keyed(stored', lastKey) /\ stored' \in Seq(Message) /\ Len(stored') <= MaxStored
      /\ apart' \in BOOLEAN
      /\ ~ hasty => Proper(stored', said, misread)
  <2>1. CASE Save
    BY <2>1, SaveTypes
  <2>2. CASE UNCHANGED disk
    BY <2>2, Basics DEF PageInv, TypeOK, Orderly, disk
  <2>3. ASSUME NEW ms \in Loadable, Store(ms)
        PROVE  /\ Keyed(stored', lastKey) /\ stored' \in Seq(Message) /\ Len(stored') <= MaxStored
               /\ apart' \in BOOLEAN
               /\ ~ hasty => Proper(stored', said, misread)
    BY <2>3, LoadTypes, StoreTypes
  <2> QED
    BY <1>0, <2>1, <2>2, <2>3
<1>2. /\ open' = FALSE /\ leaves' = leaves + 1 /\ leaves < MaxLeaves
      /\ messages' = <<>> /\ view' = NoView /\ editing' = None
      /\ sse' = None /\ sources' = {} /\ pending' = <<>> /\ flushTimer' = FALSE
      /\ isRequesting' = FALSE /\ requests' = {} /\ requestId' = None /\ abortCtl' = None
      /\ loaded' = FALSE /\ saveTimer' = FALSE
      /\ stream' = stream /\ lastKey' = lastKey /\ hasty' = hasty
      /\ chunks' = chunks /\ said' = said /\ misread' = misread
  BY <1>0 DEF Leave, heard
<1>3. view'.messages = <<>> /\ view'.generating = FALSE /\ view'.loaded = FALSE
  BY <1>2 DEF NoView
<1>4. <<>> \in Seq(Message) /\ <<>> \in Text /\ Len(<<>>) = 0
  BY TextTypes
<1>5. ASSUME NEW a \in abandoned'
      PROVE  /\ a \in Unfinished /\ a.key <= lastKey /\ Keyed(a.messages, lastKey)
             /\ ~ a.streamed => said[a.key] = <<>>
             /\ \A b \in abandoned' : b.key = a.key => b = a
             /\ ~ hasty => Resumable(a, said, misread)
  <2>1. CASE a \in abandoned
    BY <1>0, <2>1, UnattendedConnected
      DEF PageInv, TypeOK, Conversations, Connections, Orderly
  <2>2. CASE a \in Unattended
    BY <1>0, <2>2, UnattendedFields, UnattendedConnected
  <2> QED
    BY <1>0, <2>1, <2>2
<1>6. TypeOK'
  <2>1. leaves' \in 0 .. MaxLeaves
    BY <1>2, Basics DEF PageInv, TypeOK
  <2>2. None \in 0 .. MaxKeys
    BY Basics DEF None
  <2>3. abandoned' \subseteq Unfinished
    BY <1>5
  <2> QED
    BY <1>1, <1>2, <1>3, <1>4, <2>1, <2>2, <2>3, Basics DEF PageInv, TypeOK
<1>7. Conversations'
  BY <1>1, <1>2, <1>3, <1>4, <1>5 DEF Conversations, Keyed
<1>8. OneSource' /\ OneRequest' /\ Shown' /\ Saved'
  BY <1>2, <1>3 DEF OneSource, OneRequest, Shown, Saved, Generating, isStreaming
<1>9. Connections'
  <2>1. \A k \in Keys : k > lastKey => said[k] = <<>>
    BY DEF PageInv, Connections
  <2> QED
    BY <1>2, <1>5, <2>1 DEF Connections
<1>10. ASSUME ~ hasty' PROVE Orderly'
  BY <1>1, <1>2, <1>3, <1>4, <1>5, <1>10 DEF Orderly, Proper, Generating, isStreaming
<1> QED
  BY <1>6, <1>7, <1>8, <1>9, <1>10 DEF PageInv

\* A page that was left saves what it has of an answer, over what is stored.
LEMMA LateSaveKeeps ==
  ASSUME PageInv, NEW a \in abandoned, NEW ms, Keyed(ms, lastKey), LateSave(a, ms),
         NEW text \in Text, Speaks(a.key, text), chunks' = chunks,
         ~ hasty => Proper(ms, said', misread')
  PROVE  PageInv'
<1>0. /\ stored' = Trim(ms) /\ apart' = TRUE /\ abandoned' = abandoned \ {a}
      /\ stream' = stream /\ open' = open /\ messages' = messages /\ view' = view
      /\ editing' = editing /\ lastKey' = lastKey /\ sse' = sse /\ sources' = sources
      /\ pending' = pending /\ flushTimer' = flushTimer /\ isRequesting' = isRequesting
      /\ requests' = requests /\ requestId' = requestId /\ abortCtl' = abortCtl
      /\ loaded' = loaded /\ saveTimer' = saveTimer /\ hasty' = hasty /\ leaves' = leaves
  BY DEF LateSave, talk
<1>1. /\ a.key \in Keys /\ a.key <= lastKey
      /\ \A b \in abandoned' : b.key # a.key
      /\ \A s \in sources : s.key # a.key
      /\ \A r \in requests : r.key # a.key
  BY <1>0, ConnectionFields DEF PageInv, Connections
<1>2. /\ said' \in [Keys -> Text] /\ misread' \subseteq Keys
      /\ \A j \in Keys : j # a.key => said'[j] = said[j] /\ (j \in misread' <=> j \in misread)
  BY <1>1, SpeaksGrows
<1>3. /\ Keyed(stored', lastKey) /\ stored' \in Seq(Message) /\ Len(stored') <= MaxStored
      /\ ~ hasty => Proper(stored', said', misread')
  BY <1>0, TrimKeyed DEF Keyed
<1>4. TypeOK'
  BY <1>0, <1>2, <1>3, Basics DEF PageInv, TypeOK
<1>5. Conversations' /\ OneSource' /\ OneRequest' /\ Shown' /\ Saved'
  BY <1>0, <1>3 DEF PageInv, Conversations, OneSource, OneRequest, Shown, Saved,
       Generating, isStreaming
<1>6. Connections'
  BY <1>0, <1>1, SpokenConnections
<1>7. ASSUME ~ hasty' PROVE Orderly'
  <2>1. ~ hasty /\ Orderly
    BY <1>0, <1>7 DEF PageInv
  <2>2. /\ Proper(messages, said', misread')
        /\ \A b \in abandoned' : Resumable(b, said', misread')
    BY <1>0, <1>1, <2>1, SpokenOrderly
  <2>3. ASSUME NEW s \in sources
        PROVE  Receiving(messages, pending, s.key, s.snapshot, said', misread')
    <3>1. said'[s.key] = said[s.key] /\ (s.key \in misread' <=> s.key \in misread)
      BY <1>1, <1>2, ConnectionFields
    <3> QED
      BY <2>1, <3>1 DEF Orderly, Receiving
  <2> QED
    BY <1>0, <1>3, <2>1, <2>2, <2>3 DEF Orderly, Generating, isStreaming
<1> QED
  BY <1>4, <1>5, <1>6, <1>7 DEF PageInv

\* Text that a page which was left adds to its answer keeps the invariant.
LEMMA LateFlushKeeps ==
  ASSUME PageInv, NEW a \in abandoned, LateFlush(a)
  PROVE  PageInv'
<1>0. /\ a.streamed /\ a.key \in Keys /\ a.snapshot \in BOOLEAN /\ a.messages \in Seq(Message)
      /\ a.pending \in Text /\ Keyed(a.messages, lastKey) /\ said \in [Keys -> Text]
      /\ ~ hasty => Resumable(a, said, misread)
  BY ConnectionFields, Basics DEF PageInv, Conversations, Orderly, LateFlush
<1>1. ASSUME NEW part \in Parts,
             Says(a.key, a.snapshot, part, ShownText(a.messages), a.pending),
             LateSave(a, Appended(a.messages,
                           MergeChunk(a.pending, Chunk(a.key, a.snapshot, part)))),
             UNCHANGED chunks
      PROVE  PageInv'
  <2> DEFINE buffer == MergeChunk(a.pending, Chunk(a.key, a.snapshot, part))
             new == Appended(a.messages, buffer)
  <2>1. part \in Text /\ Speaks(a.key, part) /\ buffer \in Text
    BY <1>0, <1>1, SaysSpeaks
  <2>2. /\ ~ hasty => Receiving(a.messages, buffer, a.key, a.snapshot, said', misread')
        /\ LateSave(a, new)
    BY <1>0, <1>1, SaysReceived DEF Resumable
  <2> HIDE DEF buffer
  <2>3. Keyed(new, lastKey)
    BY <1>0, <2>1, AppendedTouches, TouchedKeyed
  <2>4. ASSUME ~ hasty PROVE Proper(new, said', misread')
    <3>1. said' \in [Keys -> Text] /\ Grown(said, misread, said', misread')
      BY <1>0, <2>1, SpeaksGrows
    <3>2. Proper(a.messages, said', misread')
      BY <1>0, <2>4, <3>1, GrownProper DEF Resumable
    <3> QED
      BY <1>0, <2>1, <2>2, <2>4, <3>1, <3>2, AppendedInOrder
  <2> HIDE DEF new
  <2> QED
    BY <1>1, <2>1, <2>2, <2>3, <2>4, LateSaveKeeps
<1>2. ASSUME LateSave(a, Appended(a.messages, a.pending)), UNCHANGED heard
      PROVE  PageInv'
  <2> DEFINE new == Appended(a.messages, a.pending)
  <2>1. Keyed(new, lastKey)
    BY <1>0, AppendedTouches, TouchedKeyed
  <2>2. said' = said /\ misread' = misread /\ chunks' = chunks
    BY <1>2 DEF heard
  <2>3. ~ hasty => Proper(new, said, misread)
    BY <1>0, AppendedInOrder DEF Resumable
  <2>4. Speaks(a.key, <<>>) /\ <<>> \in Text
    <3>1. said[a.key] \in Text /\ <<>> \in Text
      BY <1>0, TextTypes
    <3>2. said[a.key] \o <<>> = said[a.key]
      BY <3>1, Joins
    <3>3. said = [said EXCEPT ![a.key] = said[a.key]]
      BY <1>0
    <3> QED
      BY <2>2, <3>1, <3>2, <3>3 DEF Speaks
  <2> HIDE DEF new
  <2> QED
    BY <1>2, <2>1, <2>2, <2>3, <2>4, LateSaveKeeps DEF new
<1> QED
  BY <1>1, <1>2 DEF LateFlush

\* An answer that arrives for a page which was left keeps the invariant.
LEMMA LateReplyKeeps ==
  ASSUME PageInv, NEW a \in abandoned, NEW text \in Replies, LateReply(a, text)
  PROVE  PageInv'
<1>0. /\ ~ a.streamed /\ a.key \in Keys /\ a.messages \in Seq(Message)
      /\ Keyed(a.messages, lastKey) /\ said \in [Keys -> Text] /\ text \in Text
      /\ said[a.key] = <<>>
      /\ ~ hasty => Resumable(a, said, misread)
  BY ConnectionFields, Basics, TextTypes
    DEF PageInv, Conversations, Connections, Orderly, LateReply
<1> DEFINE new == Replied(a.messages, text)
<1>1. Speaks(a.key, text) /\ LateSave(a, new) /\ chunks' = chunks
  BY DEF LateReply, Speaks
<1>2. /\ Touched(a.messages, new)
      /\ Answering(a.messages) =>
           ~ IsPending(new[Len(a.messages)]) /\ new[Len(a.messages)].text = text
  BY <1>0, ReplyTouches
<1> HIDE DEF new
<1>3. Keyed(new, lastKey)
  BY <1>0, <1>2, TouchedKeyed
<1>4. ASSUME ~ hasty PROVE Proper(new, said', misread')
  <2>1. /\ said' \in [Keys -> Text] /\ Grown(said, misread, said', misread')
        /\ said'[a.key] = said[a.key] \o text
    BY <1>0, <1>1, SpeaksGrows
  <2>2. said'[a.key] = text /\ IsPrefix(text, text)
    BY <1>0, <2>1, Joins, PrefixOfJoined
  <2>3. Proper(a.messages, said', misread')
    BY <1>0, <1>4, <2>1, GrownProper DEF Resumable
  <2>4. Answering(a.messages) /\ a.messages[Len(a.messages)].key = a.key
    BY <1>0, <1>4 DEF Resumable, Awaits, Answering
  <2>5. Len(a.messages) \in 1 .. Len(a.messages)
    BY <1>0, <2>4, LastIn DEF Answering
  <2>6. /\ InOrder(new[Len(a.messages)], said', misread')
        /\ ~ IsPending(new[Len(a.messages)])
    BY <1>2, <2>2, <2>4, <2>5 DEF InOrder, Touched
  <2>7. ASSUME NEW i \in 1 .. Len(a.messages), i # Len(a.messages)
        PROVE  InOrder(new[i], said', misread') /\ ~ IsPending(new[i])
    BY <1>2, <2>3, <2>7 DEF Proper, Touched
  <2> QED
    BY <1>2, <2>6, <2>7 DEF Proper, Touched
<1> QED
  BY <1>0, <1>1, <1>3, <1>4, LateSaveKeeps

\* Opening the page keeps the invariant.
LEMMA MountKeeps ==
  ASSUME PageInv, Mount
  PROVE  PageInv'
<1>1. /\ open' = TRUE
      /\ UNCHANGED <<stream, messages, view, editing, lastKey, talk, loaded, saveTimer,
                     disk, hasty, leaves, abandoned, heard>>
  BY DEF Mount
<1>2. TypeOK'
  BY <1>1 DEF PageInv, TypeOK, talk, disk, heard
<1> QED
  BY <1>1, <1>2 DEF PageInv, Conversations, OneSource, OneRequest, Connections, Shown, Saved,
       Orderly, Generating, isStreaming, talk, disk, heard

\* Rendering keeps the invariant.
LEMMA RenderKeeps ==
  ASSUME PageInv, Render
  PROVE  PageInv'
<1>1. /\ view' = Current
      /\ UNCHANGED <<stream, open, messages, editing, lastKey, talk, loaded, saveTimer,
                     disk, hasty, leaves, abandoned, heard>>
  BY DEF Render
<1>2. view'.messages = messages /\ view'.generating = Generating /\ view'.loaded = loaded
  BY <1>1 DEF Current
<1>3. Generating \in BOOLEAN
  BY Basics DEF Generating
<1>4. TypeOK'
  BY <1>1, <1>2, <1>3, Basics DEF PageInv, TypeOK, talk, disk, heard
<1>5. Conversations'
  BY <1>1, <1>2, Basics DEF PageInv, Conversations, disk
<1>6. OneSource' /\ OneRequest' /\ Connections' /\ Shown' /\ Saved'
  BY <1>1, <1>2 DEF PageInv, OneSource, OneRequest, Connections, Shown, Saved,
       Generating, isStreaming, talk, disk, heard
<1>7. ASSUME ~ hasty' PROVE Orderly'
  <2>1. Orderly
    BY <1>1, <1>7 DEF PageInv
  <2> QED
    BY <1>1, <1>2, <2>1 DEF Orderly, Generating, isStreaming, talk, disk, heard
<1> QED
  BY <1>4, <1>5, <1>6, <1>7 DEF PageInv

\* Steps of other parts of the program keep the invariant.
LEMMA StutterKeeps ==
  ASSUME PageInv, UNCHANGED vars
  PROVE  PageInv'
<1>1. TypeOK'
  BY DEF PageInv, TypeOK, vars, talk, disk, heard
<1> QED
  BY <1>1 DEF PageInv, Conversations, OneSource, OneRequest, Connections, Shown, Saved,
       Orderly, Generating, isStreaming, vars, talk, disk, heard

-----------------------------------------------------------------------------
(* The theorems.                                                            *)

\* An empty page satisfies the invariant.
LEMMA InitHolds ==
  ASSUME Init
  PROVE  PageInv
<1>0. /\ MaxKeys \in Nat /\ MaxLeaves \in Nat /\ MaxChunks \in Nat
      /\ MaxStored \in Nat /\ 0 <= MaxStored
  BY PlaygroundAssumption DEF PlaygroundAssumption
<1>1. <<>> \in Seq(Message) /\ <<>> \in Text /\ Len(<<>>) = 0
  BY TextTypes
<1>2. view.messages = <<>> /\ view.generating = FALSE /\ view.loaded = FALSE
  BY DEF Init, NoView
<1>3. TypeOK
  <2>1. /\ messages \in Seq(Message) /\ stored \in Seq(Message) /\ pending \in Text
        /\ view.messages \in Seq(Message)
    BY <1>1, <1>2 DEF Init
  <2>2. Len(stored) <= MaxStored
    BY <1>0, <1>1 DEF Init
  <2>3. /\ {editing, lastKey, sse, requestId, abortCtl} \subseteq 0 .. MaxKeys
        /\ leaves \in 0 .. MaxLeaves /\ chunks \in 0 .. MaxChunks
    BY <1>0 DEF Init, None
  <2>4. /\ stream \in BOOLEAN /\ open \in BOOLEAN /\ hasty \in BOOLEAN /\ apart \in BOOLEAN
        /\ view.generating \in BOOLEAN /\ view.loaded \in BOOLEAN
        /\ {flushTimer, saveTimer, isRequesting, loaded} \subseteq BOOLEAN
        /\ sources \subseteq Source /\ requests \subseteq Request /\ abandoned \subseteq Unfinished
    BY <1>2 DEF Init
  <2>5. said \in [Keys -> Text] /\ misread \subseteq Keys
    BY <1>1 DEF Init
  <2> QED
    BY <2>1, <2>2, <2>3, <2>4, <2>5 DEF TypeOK
<1>4. Conversations
  BY <1>1, <1>2 DEF Init, Conversations, Keyed
<1>5. OneSource /\ OneRequest /\ Connections /\ Shown /\ Saved
  BY <1>2 DEF Init, OneSource, OneRequest, Connections, Shown, Saved, Generating, isStreaming
<1>6. Orderly
  BY <1>1, <1>2 DEF Init, Orderly, Proper, Generating, isStreaming
<1> QED
  BY <1>3, <1>4, <1>5, <1>6 DEF PageInv

\* Every step keeps the invariant.
LEMMA StepKeeps ==
  ASSUME PageInv, [Next]_vars
  PROVE  PageInv'
<1>1. CASE UserStep
  <2>1. CASE Send
    BY <2>1, SendBegins, BeginsKeeps
  <2>2. CASE Clear \/ Stop \/ CloseEditor
    BY <2>2, ClearKeeps, StopKeeps, EditorKeeps
  <2>3. ASSUME NEW k \in Keys, Regenerate(k) PROVE PageInv'
    BY <2>3, RegenerateBegins, BeginsKeeps
  <2>4. ASSUME NEW k \in Keys, OpenEditor(k) \/ Delete(k) PROVE PageInv'
    BY <2>4, EditorKeeps, DeleteKeeps
  <2>5. ASSUME NEW submit \in BOOLEAN, ApplyEdit(submit) PROVE PageInv'
    BY <2>5, ApplyEditKeeps
  <2> QED
    BY <1>1, <2>1, <2>2, <2>3, <2>4, <2>5 DEF UserStep
<1>2. CASE Render
  BY <1>2, RenderKeeps
<1>3. ASSUME NEW s \in sources, NEW part \in Parts, StreamChunk(s, part) PROVE PageInv'
  BY <1>3, StreamChunkKeeps
<1>4. CASE StreamEnd
  BY <1>4, StreamEndKeeps, StreamEndsQuietlyKeeps DEF StreamEnd
<1>5. CASE RequestEnd
  <2>1. ASSUME NEW r \in requests, RequestAborted(r) PROVE PageInv'
    BY <2>1, RequestAbortedKeeps
  <2>2. ASSUME NEW r \in requests, NEW text \in Replies, RequestAnswered(r, text) PROVE PageInv'
    BY <2>2, RequestEndKeeps
  <2>3. ASSUME NEW r \in requests, RequestFailed(r) PROVE PageInv'
    <3>1. <<>> \in Replies
      BY DEF Replies
    <3> QED
      BY <2>3, <3>1, RequestEndKeeps
  <2> QED
    BY <1>5, <2>1, <2>2, <2>3 DEF RequestEnd
<1>6. CASE FlushStreamUpdates
  BY <1>6, FlushKeeps
<1>7. CASE Load \/ SaveMessages \/ Mount
  BY <1>7, LoadKeeps, SaveMessagesKeeps, MountKeeps
<1>8. CASE Unmount \/ Reload
  BY <1>8, LeaveKeeps
<1>9. CASE LateUpdate
  BY <1>9, LateFlushKeeps, LateReplyKeeps DEF LateUpdate
<1>10. CASE UNCHANGED vars
  BY <1>10, StutterKeeps
<1> QED
  BY <1>1, <1>2, <1>3, <1>4, <1>5, <1>6, <1>7, <1>8, <1>9, <1>10 DEF Next

\* The invariant holds at every moment.
LEMMA PageInvHolds == Spec => []PageInv
<1>1. Init => PageInv
  BY InitHolds
<1>2. PageInv /\ [Next]_vars => PageInv'
  BY StepKeeps
<1> QED
  BY <1>1, <1>2, PTL DEF Spec

\* The conversation, its stored copy and what the hooks keep beside it hold
\* values of their types, however many messages are sent and chunks received.
THEOREM TypeCorrect == Spec => []TypeOK
<1>1. PageInv => TypeOK
  BY DEF PageInv
<1> QED
  BY <1>1, PageInvHolds, PTL

\* No two messages of a conversation have the same key, neither on the page nor
\* in storage, in what was rendered last or in what a page that was left still
\* holds, although that page saves over newer conversations: the handlers that look a message up
\* by its key (edit, delete, regenerate) find the one the user clicked on.
THEOREM KeysDistinct == Spec => []Conversations
<1>1. PageInv => Conversations
  BY DEF PageInv
<1> QED
  BY <1>1, PageInvHolds, PTL

\* Whatever the open page is receiving, the user can stop it, also when pages
\* that were left before are still receiving answers.
THEOREM StoppableAlways == Spec => []Stoppable
<1>1. PageInv => Stoppable
  BY DEF PageInv, OneSource, Orderly, Stoppable, Generating
<1> QED
  BY <1>1, PageInvHolds, PTL

\* Answers are complete and in order, for parts and for snapshots of any text,
\* whenever the timer flushes the buffer, however the stream ends and whatever
\* pages that were left save late, unless a part of the answer is misread.
THEOREM InOrderAlways == Spec => []AnswerInOrder
<1>1. PageInv => AnswerInOrder
  <2> SUFFICES ASSUME PageInv, ~ hasty PROVE AnswerInOrder
    BY DEF AnswerInOrder
  <2>0. Orderly /\ messages \in Seq(Message) /\ stored \in Seq(Message) /\ pending \in Text
    BY Basics DEF PageInv
  <2>1. ASSUME NEW m \in ToSet(messages) \cup ToSet(stored) PROVE InOrder(m, said, misread)
    <3>1. CASE m \in ToSet(messages)
      BY <2>0, <3>1 DEF ToSet, Orderly, Proper
    <3>2. CASE m \in ToSet(stored)
      BY <2>0, <3>2 DEF ToSet, Orderly, Proper
    <3> QED
      BY <2>1, <3>1, <3>2
  <2>2. ASSUME NEW s \in sources
        PROVE  /\ Last(messages).key = s.key
               /\ s.key \in misread \/ Joined(ShownText(messages), pending) = said[s.key]
    <3>1. Receiving(messages, pending, s.key, s.snapshot, said, misread)
      BY <2>0 DEF Orderly
    <3>2. messages # <<>> /\ Last(messages).key = s.key
      BY <3>1 DEF Receiving, Awaits, Last
    <3>3. ShownText(messages) = messages[Len(messages)].text /\ ShownText(messages) \in Text
      BY <2>0, <3>2, LastIn DEF ShownText, Last, Message
    <3>4. said[s.key] \in Text /\ s.snapshot \in BOOLEAN
      BY ConnectionFields, Basics
    <3>5. s.key \in misread \/ Buffered(ShownText(messages), pending, said[s.key], s.snapshot)
      BY <3>1, <3>3 DEF Receiving
    <3> QED
      BY <2>0, <3>2, <3>3, <3>4, <3>5, ShownAndBuffered
  <2> QED
    BY <2>1, <2>2 DEF AnswerInOrder, InOrder, Joined
<1> QED
  BY <1>1, PageInvHolds, PTL

\* No message waits for an answer that nobody is giving.
THEOREM SettledAlways == Spec => []SettledWhenIdle
<1>1. PageInv => SettledWhenIdle
  <2> SUFFICES ASSUME PageInv, ~ hasty PROVE SettledWhenIdle
    BY DEF SettledWhenIdle
  <2>1. Orderly /\ DOMAIN messages = 1 .. Len(messages)
    BY Basics DEF PageInv
  <2> QED
    BY <2>1 DEF Orderly, Proper, SettledWhenIdle
<1> QED
  BY <1>1, PageInvHolds, PTL

\* Leaving the page by the interface saves the conversation as it was.
THEOREM LeaveSavesAlways == Spec => LeaveSaves
<1>1. PageInv /\ [Next]_vars =>
        [Unmount /\ loaded /\ ~ apart /\ ~ apart' => stored' = Trim(messages)]_vars
  <2> SUFFICES ASSUME PageInv, Unmount, loaded, ~ apart, ~ apart'
               PROVE  stored' = Trim(messages)
    OBVIOUS
  <2>1. CASE saveTimer
    BY <2>1, Basics DEF Unmount, Save, Store
  <2>2. CASE ~ saveTimer
    BY <2>2 DEF Unmount, disk, PageInv, Saved
  <2> QED
    BY <2>1, <2>2
<1> QED
  BY <1>1, PageInvHolds, PTL DEF Spec, LeaveSaves

=============================================================================
