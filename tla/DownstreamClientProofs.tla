------------------------ MODULE DownstreamClientProofs ------------------------
(* Proofs about the client of a downstream server, whichever transport it  *)
(* has.  For a child process the inductive invariant says that what was    *)
(* taken and what is on its way are together what the child wrote, for     *)
(* every size of the queue and any number of requests and frames; for an   *)
(* HTTP server it is one about the walk along the pages, for any tools,    *)
(* cursors and sessions and any limit on pages.                            *)
EXTENDS DownstreamClient, SequenceTheorems, TLAPS

-----------------------------------------------------------------------------
(* A child process: the steps of StdioClient.                              *)

Item == Frame \cup {End}

(* What is on its way to the worker, as the channel sees it.               *)
Pending == queue \o held \o pipe

(* The reader holds something while it puts and at no other time, and the  *)
(* end comes alone.                                                        *)
ReaderHolds ==
    /\ held \in Seq(Frame) \/ held = <<End>>
    /\ reader = "putting" <=> held # << >>

RequestLeft == worker \in {"waiting", "answering"} => next <= MaxRequests

(* Nobody touches the queue to close it before stop is set.                *)
ClosersStop ==
    \A c \in Closers :
        closing[c] \in {"notify", "make_room", "retry", "cleanup", "drain"} => stop

(* Nothing is lost, repeated or reordered, and the end follows everything. *)
Whole ==
    ~stop =>
        \/ consumed \o Pending = written
        \/ /\ consumed \o Pending = Append(written, End)
           /\ child = "exited" /\ pipe = << >>
           /\ reader = "gone" \/ held = <<End>>

Inductive == TypeOK /\ ReaderHolds /\ RequestLeft /\ ClosersStop /\ Whole

-----------------------------------------------------------------------------
(* Sequences.                                                              *)

(* The first of h may as well be the last of what is before it.            *)
LEMMA MoveHead ==
    ASSUME NEW S, NEW q \in Seq(S), NEW h \in Seq(S), h # << >>
    PROVE  Append(q, Head(h)) \o Tail(h) = q \o h
<1>1. /\ Head(h) \in S /\ Tail(h) \in Seq(S) /\ Len(Tail(h)) = Len(h) - 1
      /\ \A i \in 1 .. Len(Tail(h)) : Tail(h)[i] = h[i + 1]
  BY HeadTailProperties
<1>2. Head(h) = h[1] /\ Len(h) \in Nat \ {0} /\ Len(q) \in Nat
  BY EmptySeq, LenProperties
<1> DEFINE a == Append(q, Head(h))
<1>3. /\ a \in Seq(S) /\ Len(a) = Len(q) + 1 /\ a[Len(q) + 1] = h[1]
      /\ \A i \in 1 .. Len(q) : a[i] = q[i]
  BY <1>1, <1>2, AppendProperties
<1> HIDE DEF a
<1>4. /\ a \o Tail(h) \in Seq(S) /\ Len(a \o Tail(h)) = Len(a) + Len(Tail(h))
      /\ \A i \in 1 .. Len(a) + Len(Tail(h)) :
             (a \o Tail(h))[i] = IF i <= Len(a) THEN a[i] ELSE Tail(h)[i - Len(a)]
  BY <1>1, <1>3, ConcatProperties
<1>5. /\ q \o h \in Seq(S) /\ Len(q \o h) = Len(q) + Len(h)
      /\ \A i \in 1 .. Len(q) + Len(h) :
             (q \o h)[i] = IF i <= Len(q) THEN q[i] ELSE h[i - Len(q)]
  BY ConcatProperties
<1>6. Len(a \o Tail(h)) = Len(q \o h)
  BY <1>1, <1>2, <1>3, <1>4, <1>5
<1>7. ASSUME NEW i \in 1 .. Len(q \o h) PROVE (a \o Tail(h))[i] = (q \o h)[i]
  <2>1. CASE i <= Len(q)
    BY <1>1, <1>2, <1>3, <1>4, <1>5, <2>1
  <2>2. CASE i = Len(q) + 1
    BY <1>1, <1>2, <1>3, <1>4, <1>5, <2>2
  <2>3. CASE i > Len(q) + 1
    <3>1. i - Len(a) \in 1 .. Len(Tail(h)) /\ (i - Len(a)) + 1 = i - Len(q)
      BY <1>1, <1>2, <1>3, <1>5, <2>3
    <3>2. (a \o Tail(h))[i] = Tail(h)[i - Len(a)]
      BY <1>1, <1>2, <1>3, <1>4, <1>5, <2>3
    <3>3. (q \o h)[i] = h[i - Len(q)]
      BY <1>2, <1>5, <2>3
    <3> QED BY <1>1, <3>1, <3>2, <3>3
  <2>4. i \in Int /\ Len(q) \in Int
    BY <1>2, <1>5
  <2>5. i <= Len(q) \/ i = Len(q) + 1 \/ i > Len(q) + 1
    BY <2>4
  <2> QED BY <2>1, <2>2, <2>3, <2>5
<1>8. a \o Tail(h) = q \o h
  BY <1>4, <1>5, <1>6, <1>7, SeqEqual
<1> QED BY <1>8 DEF a

(* A sequence cut in two, with either part empty or not.                   *)
LEMMA Rejoin ==
    ASSUME NEW S, NEW p \in Seq(S), NEW n \in 0 .. Len(p)
    PROVE  SubSeq(p, 1, n) \o SubSeq(p, n + 1, Len(p)) = p
<1>1. Len(p) \in Nat /\ Len(p) \in n .. Len(p)
  BY LenProperties
<1>2. 1 \in 1 .. Len(p) + 1 /\ n \in 1 - 1 .. Len(p)
  BY <1>1
<1> QED BY <1>1, <1>2, ConcatAdjacentSubSeq, SubSeqFull

(* A chunk of at least one frame and the rest.                             *)
LEMMA SplitSeq ==
    ASSUME NEW S, NEW p \in Seq(S), NEW n \in 1 .. Len(p)
    PROVE  /\ SubSeq(p, 1, n) \in Seq(S) /\ SubSeq(p, 1, n) # << >>
           /\ SubSeq(p, n + 1, Len(p)) \in Seq(S)
           /\ SubSeq(p, 1, n) \o SubSeq(p, n + 1, Len(p)) = p
<1>1. Len(p) \in Nat /\ \A i \in 1 .. Len(p) : p[i] \in S
  BY LenProperties, ElementOfSeq
<1>2. SubSeq(p, 1, n) \in Seq(S) /\ Len(SubSeq(p, 1, n)) = n
  BY <1>1, SubSeqProperties
<1>3. SubSeq(p, n + 1, Len(p)) \in Seq(S)
  BY <1>1, SubSeqProperties
<1>4. SubSeq(p, 1, n) # << >>
  BY <1>1, <1>2, EmptySeq
<1> QED BY <1>1, <1>2, <1>3, <1>4, Rejoin

LEMMA CancelLeft ==
    ASSUME NEW S, NEW s \in Seq(S), NEW t \in Seq(S), NEW v \in Seq(S), s \o t = s \o v
    PROVE  t = v
BY ConcatSimplifications

LEMMA ConcatAppend ==
    ASSUME NEW S, NEW s \in Seq(S), NEW t \in Seq(S), NEW e \in S
    PROVE  s \o Append(t, e) = Append(s \o t, e)
<1>1. <<e>> \in Seq(S) /\ s \o t \in Seq(S)
  BY ConcatProperties
<1>2. Append(t, e) = t \o <<e>> /\ Append(s \o t, e) = (s \o t) \o <<e>>
  BY <1>1, AppendIsConcat
<1> QED BY <1>1, <1>2, ConcatAssociative

(* What is first in s is first in s and what follows it.                   *)
LEMMA HeadTailConcat ==
    ASSUME NEW S, NEW s \in Seq(S), NEW t \in Seq(S), s # << >>
    PROVE  /\ s \o t # << >>
           /\ Head(s \o t) = Head(s)
           /\ Tail(s \o t) = Tail(s) \o t
<1>1. /\ Head(s) \in S /\ Tail(s) \in Seq(S) /\ << >> \in Seq(S)
      /\ <<Head(s)>> \in Seq(S) /\ Append(<< >>, Head(s)) = <<Head(s)>>
  BY HeadTailProperties, EmptySeq
<1>2. s = <<Head(s)>> \o Tail(s)
  BY <1>1, MoveHead, ConcatEmptySeq
<1>3. s \o t = <<Head(s)>> \o (Tail(s) \o t)
  BY <1>1, <1>2, ConcatAssociative
<1>4. Tail(s) \o t \in Seq(S) /\ s \o t \in Seq(S) /\ s \o t # << >>
  BY <1>1, ConcatProperties, ConcatEqualIffEmpty
<1>5. <<Head(s \o t)>> \o Tail(s \o t) = s \o t /\ Tail(s \o t) \in Seq(S)
      /\ Head(s \o t) \in S /\ <<Head(s \o t)>> \in Seq(S)
  BY <1>4, <1>1, MoveHead, HeadTailProperties, ConcatEmptySeq
<1>6. Head(s \o t) = (s \o t)[1] /\ Head(s) = s[1] /\ Len(s) \in Nat \ {0}
      /\ Len(t) \in Nat
  BY <1>4, EmptySeq, LenProperties
<1>7. (s \o t)[1] = s[1]
  BY <1>6, ConcatProperties
<1>8. Tail(s \o t) = Tail(s) \o t
  BY <1>1, <1>3, <1>4, <1>5, <1>6, <1>7, CancelLeft
<1> QED BY <1>4, <1>6, <1>7, <1>8

(* Two sequences put together come apart again.                            *)
LEMMA SplitConcat ==
    ASSUME NEW S, NEW s \in Seq(S), NEW t \in Seq(S)
    PROVE  /\ SubSeq(s \o t, 1, Len(s)) = s
           /\ SubSeq(s \o t, Len(s) + 1, Len(s \o t)) = t
           /\ s \o t \in Seq(S) /\ Len(s \o t) = Len(s) + Len(t)
           /\ Len(s) \in Nat /\ Len(t) \in Nat
<1>1. /\ s \o t \in Seq(S) /\ Len(s \o t) = Len(s) + Len(t)
      /\ Len(s) \in Nat /\ Len(t) \in Nat
  BY ConcatProperties, LenProperties
<1>2. SubSeq(s \o t, 1, Len(s)) = s
  <2>1. CASE s = << >>
    BY <1>1, <2>1, SubSeqEmpty, EmptySeq
  <2>2. CASE s # << >>
    <3>1. 1 \in 1 .. Len(s) /\ Len(s) \in 1 .. Len(s)
      BY <2>2, EmptySeq
    <3> QED BY <3>1, SubSeqOfConcat1, SubSeqFull
  <2> QED BY <2>1, <2>2
<1>3. SubSeq(s \o t, 1, Len(s)) \o SubSeq(s \o t, Len(s) + 1, Len(s \o t)) = s \o t
  <2> DEFINE p == s \o t
  <2>1. p \in Seq(S) /\ Len(s) \in 0 .. Len(p)
    BY <1>1
  <2> HIDE DEF p
  <2>2. SubSeq(p, 1, Len(s)) \o SubSeq(p, Len(s) + 1, Len(p)) = p
    BY <2>1, Rejoin
  <2> QED BY <2>2 DEF p
<1>4. SubSeq(s \o t, Len(s) + 1, Len(s \o t)) \in Seq(S)
  <2>1. \A i \in Len(s) + 1 .. Len(s \o t) : (s \o t)[i] \in S
    BY <1>1, ElementOfSeq
  <2> QED BY <1>1, <2>1, SubSeqProperties
<1> QED BY <1>1, <1>2, <1>3, <1>4, CancelLeft
-----------------------------------------------------------------------------
(* Types, and who may be where.                                            *)

Shape == TypeOK /\ ReaderHolds /\ RequestLeft /\ ClosersStop

(* The end is no frame, and its kind tells it from them.                   *)
LEMMA Frames ==
    /\ End \in Item /\ End \notin Frame /\ Frame \subseteq Item
    /\ \A m \in Item : m.kind = "end" => m = End
    /\ \A m \in Item : m.kind # "end" => m \in Frame
<1>1. \A f \in Frame : f.kind # "end"
  <2> TAKE f \in Frame
  <2>1. CASE \E n \in 1 .. MaxRequests : f = Response(n)
    BY <2>1 DEF Response
  <2>2. CASE f \in [kind : {"notification", "request", "garbage"}, id : {0}]
    BY <2>2
  <2> QED BY <2>1, <2>2 DEF Frame
<1>2. End.kind = "end"
  BY DEF End
<1> QED BY <1>1, <1>2 DEF Item

LEMMA WideSeq == \A s \in Seq(Frame) : s \in Seq(Item)
BY SeqMonotonic DEF Item

LEMMA OneEnd ==
    /\ <<End>> \in Seq(Item) /\ <<End>> # << >> /\ Len(<<End>>) = 1
    /\ Head(<<End>>) = End /\ Tail(<<End>>) = << >>
BY Frames

LEMMA ChildShape ==
    ASSUME Shape, Write \/ Exit
    PROVE  Shape'
<1>1. CASE Write
  <2> PICK f \in Frame : pipe' = Append(pipe, f) /\ written' = Append(written, f)
    BY <1>1 DEF Write
  <2>1. pipe' \in Seq(Frame) /\ written' \in Seq(Frame)
    BY AppendProperties DEF Shape, TypeOK
  <2> QED BY <1>1, <2>1 DEF Write, Shape, TypeOK, ReaderHolds, RequestLeft, ClosersStop
<1>2. CASE Exit
  BY <1>2 DEF Exit, Shape, TypeOK, ReaderHolds, RequestLeft, ClosersStop
<1> QED BY <1>1, <1>2

(* What the reader holds after it has put its first frame in the queue.    *)
LEMMA AfterPut ==
    ASSUME Shape, reader = "putting", Len(queue) < MaxQueue
    PROVE  /\ Head(held) \in Item /\ held # << >> /\ held \in Seq(Item)
           /\ Append(queue, Head(held)) \in Seq(Item)
           /\ Len(Append(queue, Head(held))) <= MaxQueue
           /\ Tail(held) \in Seq(Frame) \/ Tail(held) = <<End>>
           /\ Tail(held) \in Seq(Item)
           /\ Head(held) = End => Tail(held) = << >>
           /\ Head(held) # End => (Len(held) = 1 <=> Tail(held) = << >>)
<1>1. /\ held # << >>
      /\ held \in Seq(Frame) \/ held = <<End>>
      /\ held \in Seq(Item) /\ queue \in Seq(Item)
  BY DEF Shape, TypeOK, ReaderHolds, Item
<1>2. /\ Head(held) \in Item /\ Tail(held) \in Seq(Item)
      /\ Len(Tail(held)) = Len(held) - 1 /\ Len(held) \in Nat \ {0}
  BY <1>1, HeadTailProperties, EmptySeq
<1>3. /\ Append(queue, Head(held)) \in Seq(Item)
      /\ Len(Append(queue, Head(held))) = Len(queue) + 1
      /\ Len(queue) \in Nat
  BY <1>1, <1>2, AppendProperties, LenProperties
<1>4. Len(held) = 1 <=> Tail(held) = << >>
  <2> DEFINE rest == Tail(held)
  <2>1. rest \in Seq(Item) /\ Len(rest) = Len(held) - 1 /\ Len(held) \in Nat
    BY <1>2
  <2> HIDE DEF rest
  <2>2. rest = << >> <=> Len(rest) = 0
    BY <2>1, EmptySeq
  <2>3. Len(held) = 1 <=> rest = << >>
    BY <2>1, <2>2
  <2> QED BY <2>3 DEF rest
<1>5. CASE held \in Seq(Frame)
  <2>1. Head(held) \in Frame /\ Tail(held) \in Seq(Frame)
    BY <1>1, <1>5, HeadTailProperties
  <2> QED BY <1>1, <1>2, <1>3, <1>4, <2>1, Frames, ClientAssumption
<1>6. CASE held = <<End>>
  <2>1. << >> \in Seq(Frame)
    BY EmptySeq
  <2> QED BY <1>1, <1>2, <1>3, <1>4, <1>6, <2>1, OneEnd, ClientAssumption
<1> QED BY <1>1, <1>5, <1>6

LEMMA ReaderShape ==
    ASSUME Shape, Reader
    PROVE  Shape'
<1> USE DEF Shape
<1>1. CASE ReadChunk
  <2> PICK n \in 1 .. Len(pipe) :
          /\ held' = SubSeq(pipe, 1, n)
          /\ pipe' = SubSeq(pipe, n + 1, Len(pipe))
    BY <1>1 DEF ReadChunk
  <2>1. held' \in Seq(Frame) /\ held' # << >> /\ pipe' \in Seq(Frame)
    BY SplitSeq DEF TypeOK
  <2>2. held' \in Seq(Frame \cup {End})
    BY <2>1, WideSeq DEF Item
  <2> QED BY <1>1, <2>1, <2>2 DEF ReadChunk, TypeOK, ReaderHolds, RequestLeft, ClosersStop
<1>2. CASE Eof
  <2>1. held' = <<End>> /\ held' \in Seq(Frame \cup {End}) /\ held' # << >>
    BY <1>2, OneEnd DEF Eof, Item
  <2> QED BY <1>2, <2>1 DEF Eof, TypeOK, ReaderHolds, RequestLeft, ClosersStop
<1>3. CASE Put
  <2>1. /\ held' \in Seq(Frame) \/ held' = <<End>>
        /\ held' \in Seq(Item) /\ queue' \in Seq(Item) /\ Len(queue') <= MaxQueue
    BY <1>3, AfterPut DEF Put, Queued
  <2>2. reader' \in {"gone", "reading", "putting"}
        /\ (reader' = "putting" <=> held' # << >>)
    BY <1>3, AfterPut DEF Put, Queued
  <2> QED BY <1>3, <2>1, <2>2 DEF Put, Queued, TypeOK, ReaderHolds, RequestLeft,
                                  ClosersStop, Item
<1>4. CASE ReaderStops
  <2>1. << >> \in Seq(Frame) /\ << >> \in Seq(Item)
    BY EmptySeq
  <2> QED BY <1>4, <2>1 DEF ReaderStops, TypeOK, ReaderHolds, RequestLeft, ClosersStop,
                            Item
<1>5. CASE ReaderFails
  BY <1>5 DEF ReaderFails, TypeOK, ReaderHolds, RequestLeft, ClosersStop
<1> QED BY <1>1, <1>2, <1>3, <1>4, <1>5 DEF Reader

(* Taking the first frame of the queue keeps the types.                    *)
LEMMA AfterTake ==
    ASSUME TypeOK, queue # << >>
    PROVE  /\ Head(queue) \in Item /\ Tail(queue) \in Seq(Item)
           /\ Append(consumed, Head(queue)) \in Seq(Item)
           /\ Len(Tail(queue)) <= MaxQueue
<1>1. queue \in Seq(Item) /\ consumed \in Seq(Item) /\ Len(queue) <= MaxQueue
  BY DEF TypeOK, Item
<1>2. /\ Head(queue) \in Item /\ Tail(queue) \in Seq(Item)
      /\ Len(Tail(queue)) = Len(queue) - 1 /\ Len(queue) \in Nat
  BY <1>1, HeadTailProperties, LenProperties
<1> QED BY <1>1, <1>2, AppendProperties, ClientAssumption

LEMMA WorkerShape ==
    ASSUME Shape, Worker
    PROVE  Shape'
<1> USE DEF Shape
<1>1. /\ UNCHANGED <<child, pipe, held, reader, closing, closed, stop, written>>
      /\ worker' \in {"idle", "waiting", "answering", "failing"}
  BY DEF Worker, WorkerAt, Send, GiveUp, TakeAnswer, TakeNotification, TakeRequest,
         AnswerRequest, TakeInvalid, TakeEnd, Timeout
<1>2. ReaderHolds' /\ ClosersStop'
  BY <1>1 DEF ReaderHolds, ClosersStop
<1>3. next \in Nat /\ MaxRequests \in Nat
  BY ClientAssumption DEF TypeOK
<1>4. next' \in 1 .. MaxRequests + 1 /\ RequestLeft'
  BY <1>3 DEF Worker, WorkerAt, Send, GiveUp, TakeAnswer, TakeNotification, TakeRequest,
         AnswerRequest, TakeInvalid, TakeEnd, Timeout, RequestLeft, TypeOK
<1>5. \/ UNCHANGED <<queue, consumed>>
      \/ /\ queue # << >> /\ queue' = Tail(queue)
         /\ consumed' = Append(consumed, Head(queue))
  BY DEF Worker, WorkerAt, Send, GiveUp, TakeAnswer, TakeNotification, TakeRequest,
         AnswerRequest, TakeInvalid, TakeEnd, Timeout, Take
<1>6. queue' \in Seq(Item) /\ Len(queue') <= MaxQueue /\ consumed' \in Seq(Item)
  BY <1>5, AfterTake DEF TypeOK, Item
<1> QED BY <1>1, <1>2, <1>4, <1>6 DEF TypeOK, Item
LEMMA CloserShape ==
    ASSUME Shape, NEW c \in Closers, CloseBegins(c) \/ Close(c)
    PROVE  Shape'
<1> USE DEF Shape
<1>1. /\ UNCHANGED <<pipe, held, reader, next, written, consumed>>
      /\ worker' \in {worker, "finished"} /\ child' \in {child, "exited"}
  BY DEF CloseBegins, Close, CloseCheck, CloseSet, CloseStop, Notify, NotifyIn,
         MakeRoom, Cleanup, Drain, CloserAt
<1>2. /\ closing' \in [Closers -> {"none", "check", "set", "stop", "notify",
                                   "make_room", "retry", "cleanup", "drain", "done"}]
      /\ {closed', stop'} \subseteq BOOLEAN
  BY DEF CloseBegins, Close, CloseCheck, CloseSet, CloseStop, Notify, NotifyIn,
         MakeRoom, Cleanup, Drain, CloserAt, TypeOK
<1>3. stop => stop'
  BY DEF CloseBegins, Close, CloseCheck, CloseSet, CloseStop, Notify, NotifyIn,
         MakeRoom, Cleanup, Drain, CloserAt
<1>4. closing'[c] \in {"notify", "make_room", "retry", "cleanup", "drain"} => stop'
  BY DEF CloseBegins, Close, CloseCheck, CloseSet, CloseStop, Notify, NotifyIn,
         MakeRoom, Cleanup, Drain, CloserAt, TypeOK, ClosersStop
<1>5. \A d \in Closers \ {c} : closing'[d] = closing[d]
  BY DEF CloseBegins, Close, CloseCheck, CloseSet, CloseStop, Notify, NotifyIn,
         MakeRoom, Cleanup, Drain, CloserAt, TypeOK
<1>6. ClosersStop'
  BY <1>3, <1>4, <1>5 DEF ClosersStop
<1>7. \/ queue' = queue
      \/ queue # << >> /\ queue' = Tail(queue)
      \/ Len(queue) < MaxQueue /\ queue' = Append(queue, End)
  BY DEF CloseBegins, Close, CloseCheck, CloseSet, CloseStop, Notify, NotifyIn,
         MakeRoom, Cleanup, Drain, CloserAt
<1>8. queue' \in Seq(Item) /\ Len(queue') <= MaxQueue
  <2>1. queue \in Seq(Item) /\ Len(queue) \in Nat /\ Len(queue) <= MaxQueue
    BY LenProperties DEF TypeOK, Item
  <2>2. CASE Len(queue) < MaxQueue /\ queue' = Append(queue, End)
    <3>1. queue' \in Seq(Item) /\ Len(queue') = Len(queue) + 1
      BY <2>1, <2>2, Frames, AppendProperties
    <3> QED BY <2>1, <2>2, <3>1, ClientAssumption
  <2> QED BY <1>7, <2>1, <2>2, AfterTake
<1> QED BY <1>1, <1>2, <1>6, <1>8 DEF TypeOK, Item, ReaderHolds, RequestLeft

LEMMA NextShape == ASSUME Shape, Next PROVE Shape'
BY ChildShape, ReaderShape, WorkerShape, CloserShape DEF Next

-----------------------------------------------------------------------------
(* What each step does to what is on its way.                              *)

(* Where the channel is cut does not matter.                               *)
LEMMA PendingTypes ==
    ASSUME Shape
    PROVE  /\ queue \in Seq(Item) /\ held \in Seq(Item) /\ pipe \in Seq(Item)
           /\ consumed \in Seq(Item) /\ written \in Seq(Item)
           /\ held \o pipe \in Seq(Item)
           /\ Pending \in Seq(Item)
           /\ Pending = queue \o (held \o pipe)
<1>1. /\ queue \in Seq(Item) /\ held \in Seq(Item) /\ pipe \in Seq(Item)
      /\ consumed \in Seq(Item) /\ written \in Seq(Item)
  BY WideSeq DEF Shape, TypeOK, Item
<1>2. held \o pipe \in Seq(Item) /\ queue \o held \in Seq(Item)
  BY <1>1, ConcatProperties
<1>3. (queue \o held) \o pipe \in Seq(Item)
  BY <1>1, <1>2, ConcatProperties
<1>4. (queue \o held) \o pipe = queue \o (held \o pipe)
  BY <1>1, ConcatAssociative
<1> QED BY <1>1, <1>2, <1>3, <1>4 DEF Pending

LEMMA ChildPending ==
    ASSUME Shape
    PROVE  /\ Write => \E f \in Frame : /\ Pending' = Append(Pending, f)
                                        /\ written' = Append(written, f)
           /\ Exit => UNCHANGED <<Pending, written>>
<1>1. ASSUME Write
      PROVE  \E f \in Frame : /\ Pending' = Append(Pending, f)
                              /\ written' = Append(written, f)
  <2> PICK f \in Frame : pipe' = Append(pipe, f) /\ written' = Append(written, f)
    BY <1>1 DEF Write
  <2>1. f \in Item /\ queue \o held \in Seq(Item) /\ pipe \in Seq(Item)
    BY PendingTypes, Frames, ConcatProperties
  <2>2. Pending' = (queue \o held) \o Append(pipe, f)
    BY <1>1 DEF Write, Pending
  <2>3. Pending' = Append(Pending, f)
    BY <2>1, <2>2, ConcatAppend DEF Pending
  <2> QED BY <2>3
<1>2. Exit => UNCHANGED <<Pending, written>>
  BY DEF Exit, Pending
<1> QED BY <1>1, <1>2

LEMMA ReaderPending ==
    ASSUME Shape
    PROVE  /\ ReadChunk \/ Put \/ ReaderFails => UNCHANGED Pending
           /\ Eof => Pending' = Append(Pending, End) /\ Pending = queue
           /\ ReaderStops => /\ Pending = queue \o (held \o pipe)
                             /\ Pending' = queue \o pipe
<1>1. ASSUME ReadChunk PROVE UNCHANGED Pending
  <2> PICK n \in 1 .. Len(pipe) :
          /\ held' = SubSeq(pipe, 1, n)
          /\ pipe' = SubSeq(pipe, n + 1, Len(pipe))
    BY <1>1 DEF ReadChunk
  <2> DEFINE front == SubSeq(pipe, 1, n)
             rest  == SubSeq(pipe, n + 1, Len(pipe))
  <2>1. queue \in Seq(Item) /\ front \in Seq(Item) /\ rest \in Seq(Item)
    BY SplitSeq, PendingTypes
  <2>2. front \o rest = pipe
    BY SplitSeq, PendingTypes
  <2>3. /\ held = << >> /\ queue' = queue
        /\ held' = front /\ pipe' = rest
    BY <1>1 DEF ReadChunk, Shape, ReaderHolds
  <2> HIDE DEF front, rest
  <2>4. (queue \o front) \o rest = queue \o (front \o rest)
    BY <2>1, ConcatAssociative
  <2>5. held \o pipe = pipe
    BY <2>3, PendingTypes, ConcatEmptySeq
  <2>6. Pending' = queue \o pipe
    BY <2>2, <2>3, <2>4 DEF Pending
  <2> QED BY <2>5, <2>6, PendingTypes
<1>2. ASSUME Put PROVE UNCHANGED Pending
  <2>1. /\ queue' = Append(queue, Head(held)) /\ held' = Tail(held)
        /\ held # << >> /\ pipe' = pipe
    BY <1>2 DEF Put, Queued, Shape, ReaderHolds
  <2>2. queue' \o held' = queue \o held
    BY <2>1, MoveHead
  <2> QED BY <2>1, <2>2 DEF Pending
<1>3. ReaderFails => UNCHANGED Pending
  BY DEF ReaderFails, Pending
<1>4. ASSUME Eof PROVE Pending' = Append(Pending, End) /\ Pending = queue
  <2>1. /\ held = << >> /\ pipe = << >> /\ queue' = queue /\ pipe' = << >>
        /\ held' = <<End>>
    BY <1>4 DEF Eof, Shape, ReaderHolds
  <2>2. queue \o << >> = queue
    BY ConcatEmptySeq
  <2>3. /\ queue \o <<End>> = Append(queue, End)
        /\ Append(queue, End) \in Seq(Item)
    BY PendingTypes, Frames, AppendIsConcat, AppendProperties
  <2>4. Append(queue, End) \o << >> = Append(queue, End)
    BY <2>3, ConcatEmptySeq
  <2>5. Pending = queue
    BY <2>1, <2>2 DEF Pending
  <2>6. Pending' = Append(queue, End)
    BY <2>1, <2>3, <2>4 DEF Pending
  <2> QED BY <2>5, <2>6
<1>5. ASSUME ReaderStops PROVE Pending' = queue \o pipe
  <2>1. queue' = queue /\ held' = << >> /\ pipe' = pipe
    BY <1>5 DEF ReaderStops
  <2>2. queue \o << >> = queue
    BY ConcatEmptySeq
  <2> QED BY <2>1, <2>2 DEF Pending
<1> QED BY <1>1, <1>2, <1>3, <1>4, <1>5, PendingTypes

(* What leaves the queue was the first on its way.                         *)
LEMMA TailPending ==
    ASSUME Shape, queue # << >>, queue' = Tail(queue), UNCHANGED <<held, pipe>>
    PROVE  /\ Pending # << >> /\ Head(Pending) = Head(queue)
           /\ Pending' = Tail(Pending)
<1>1. /\ queue \o (held \o pipe) # << >>
      /\ Head(queue \o (held \o pipe)) = Head(queue)
      /\ Tail(queue \o (held \o pipe)) = Tail(queue) \o (held \o pipe)
  BY HeadTailConcat
<1>2. Tail(queue) \in Seq(Item)
  BY PendingTypes, HeadTailProperties
<1>3. Tail(queue) \o (held \o pipe) = (Tail(queue) \o held) \o pipe
  <2> DEFINE rest == Tail(queue)
  <2>1. rest \in Seq(Item) /\ held \in Seq(Item) /\ pipe \in Seq(Item)
    BY <1>2, PendingTypes
  <2> HIDE DEF rest
  <2>2. rest \o (held \o pipe) = (rest \o held) \o pipe
    BY <2>1, ConcatAssociative
  <2> QED BY <2>2 DEF rest
<1>4. Pending' = (Tail(queue) \o held) \o pipe
  BY DEF Pending
<1> QED BY <1>1, <1>3, <1>4, PendingTypes

(* The worker takes the first of what is on its way, or nothing.           *)
LEMMA WorkerPending ==
    ASSUME Shape, Worker
    PROVE  /\ UNCHANGED <<child, pipe, held, reader, stop, written>>
           /\ \/ UNCHANGED <<queue, Pending, consumed>>
              \/ /\ Pending # << >> /\ Pending' = Tail(Pending)
                 /\ consumed' = Append(consumed, Head(Pending))
<1>1. UNCHANGED <<child, pipe, held, reader, stop, written>>
  BY DEF Worker, WorkerAt, Send, GiveUp, TakeAnswer, TakeNotification, TakeRequest,
         AnswerRequest, TakeInvalid, TakeEnd, Timeout
<1>2. \/ UNCHANGED <<queue, consumed>>
      \/ /\ queue # << >> /\ queue' = Tail(queue)
         /\ consumed' = Append(consumed, Head(queue))
  BY DEF Worker, WorkerAt, Send, GiveUp, TakeAnswer, TakeNotification, TakeRequest,
         AnswerRequest, TakeInvalid, TakeEnd, Timeout, Take
<1>3. CASE UNCHANGED <<queue, consumed>>
  BY <1>1, <1>3 DEF Pending
<1>4. CASE /\ queue # << >> /\ queue' = Tail(queue)
           /\ consumed' = Append(consumed, Head(queue))
  BY <1>1, <1>4, TailPending
<1> QED BY <1>1, <1>2, <1>3, <1>4
(* A closer leaves what is on its way alone until stop is set; then it     *)
(* puts the end behind the queue or takes the first frame off.             *)
LEMMA CloserPending ==
    ASSUME Shape, NEW c \in Closers, CloseBegins(c) \/ Close(c)
    PROVE  /\ UNCHANGED <<pipe, held, reader, written, consumed>>
           /\ child' = child \/ stop
           /\ \/ UNCHANGED <<queue, stop>>
              \/ queue' = queue /\ stop' = TRUE
              \/ stop = TRUE /\ stop' = TRUE /\ queue' = Append(queue, End)
              \/ stop = TRUE /\ stop' = TRUE /\ queue # << >> /\ queue' = Tail(queue)
<1>1. stop \in BOOLEAN
  BY DEF Shape, TypeOK
<1>2. CASE CloseBegins(c) \/ CloseCheck(c) \/ CloseSet(c) \/ CloseStop(c)
  BY <1>2 DEF CloseBegins, CloseCheck, CloseSet, CloseStop, CloserAt
<1>3. CASE Notify(c) \/ MakeRoom(c) \/ Cleanup(c) \/ Drain(c)
  <2>1. stop = TRUE /\ stop' = stop
    BY <1>1, <1>3 DEF Notify, NotifyIn, MakeRoom, Cleanup, Drain, CloserAt, Shape,
                      ClosersStop
  <2> QED BY <1>3, <2>1 DEF Notify, NotifyIn, MakeRoom, Cleanup, Drain, CloserAt
<1> QED BY <1>2, <1>3 DEF Close

-----------------------------------------------------------------------------
(* The channel.                                                            *)

(* While stop is not set, a step adds to what is on its way what the child *)
(* writes, or the end when there is nothing else to come.                  *)
LEMMA WholeStep ==
    ASSUME Shape, Whole, Next
    PROVE  Whole'
<1> SUFFICES ASSUME ~stop'
             PROVE  \/ consumed' \o Pending' = written'
                    \/ /\ consumed' \o Pending' = Append(written', End)
                       /\ child' = "exited" /\ pipe' = << >>
                       /\ reader' = "gone" \/ held' = <<End>>
  BY DEF Whole
<1>1. CASE Write
  <2>1. PICK f \in Frame : Pending' = Append(Pending, f) /\ written' = Append(written, f)
    BY <1>1, ChildPending
  <2>2. child = "alive" /\ stop' = stop /\ consumed' = consumed
    BY <1>1 DEF Write
  <2>3. consumed \o Pending = written
    BY <2>2 DEF Whole
  <2>4. consumed \o Append(Pending, f) = Append(consumed \o Pending, f)
    BY PendingTypes, Frames, ConcatAppend
  <2> QED BY <2>1, <2>2, <2>3, <2>4
<1>2. CASE Exit
  BY <1>2, ChildPending DEF Exit, Whole
<1>3. CASE ReadChunk \/ ReaderFails
  <2>1. /\ reader = "reading" /\ held = << >> /\ UNCHANGED <<stop, consumed, written>>
        /\ UNCHANGED Pending
    BY <1>3, ReaderPending DEF ReadChunk, ReaderFails, Shape, ReaderHolds
  <2> QED BY <2>1, OneEnd DEF Whole
<1>4. CASE Eof
  <2>1. /\ reader = "reading" /\ held = << >> /\ UNCHANGED <<stop, consumed, written>>
        /\ child' = "exited" /\ pipe' = << >> /\ held' = <<End>>
    BY <1>4 DEF Eof, Shape, ReaderHolds
  <2>2. consumed \o Pending = written
    BY <2>1, OneEnd DEF Whole
  <2>3. consumed \o Append(Pending, End) = Append(consumed \o Pending, End)
    BY PendingTypes, Frames, ConcatAppend
  <2>4. Pending' = Append(Pending, End)
    BY <1>4, ReaderPending
  <2> QED BY <2>1, <2>2, <2>3, <2>4
<1>5. CASE Put
  <2>1. /\ UNCHANGED <<stop, consumed, written, child, pipe>> /\ UNCHANGED Pending
        /\ reader = "putting"
    BY <1>5, ReaderPending DEF Put, Queued
  <2>2. held = <<End>> => reader' = "gone"
    BY <1>5, OneEnd DEF Put, Queued
  <2> QED BY <2>1, <2>2 DEF Whole
<1>6. CASE ReaderStops
  BY <1>6 DEF ReaderStops
<1>7. CASE Worker
  <2>1. UNCHANGED <<child, pipe, held, reader, stop, written>>
    BY <1>7, WorkerPending
  <2>2. consumed' \o Pending' = consumed \o Pending
    <3>1. CASE /\ Pending # << >> /\ Pending' = Tail(Pending)
               /\ consumed' = Append(consumed, Head(Pending))
      BY <3>1, PendingTypes, MoveHead
    <3> QED BY <1>7, <3>1, WorkerPending
  <2> QED BY <2>1, <2>2 DEF Whole
<1>8. ASSUME NEW c \in Closers, CloseBegins(c) \/ Close(c)
      PROVE  /\ UNCHANGED <<child, pipe, held, reader, written, consumed, stop>>
             /\ UNCHANGED Pending
  BY <1>8, CloserPending DEF Pending
<1>9. CASE \E c \in Closers : CloseBegins(c) \/ Close(c)
  BY <1>8, <1>9 DEF Whole
<1> QED BY <1>1, <1>2, <1>3, <1>4, <1>5, <1>6, <1>7, <1>9 DEF Next, Reader

LEMMA InitInductive == Init => Inductive
<1> SUFFICES ASSUME Init PROVE Inductive
  OBVIOUS
<1>1. /\ << >> \in Seq(Frame) /\ << >> \in Seq(Item) /\ Len(<< >>) = 0
      /\ << >> # <<End>>
  BY EmptySeq, OneEnd
<1>2. TypeOK
  <2>1. MaxQueue \in Nat /\ MaxRequests \in Nat
    BY ClientAssumption
  <2>2. /\ Len(queue) <= MaxQueue
        /\ next \in 1 .. MaxRequests + 1
    BY <1>1, <2>1 DEF Init
  <2>3. {closed, stop} \subseteq BOOLEAN
    BY DEF Init
  <2>4. /\ pipe \in Seq(Frame) /\ written \in Seq(Frame)
        /\ held \in Seq(Item) /\ queue \in Seq(Item) /\ consumed \in Seq(Item)
    BY <1>1 DEF Init
  <2> QED BY <2>2, <2>4, <2>3 DEF Init, TypeOK, Item
<1>3. Pending = << >> /\ consumed \o Pending = << >>
  BY <1>1, ConcatEmptySeq DEF Init, Pending
<1> QED BY <1>1, <1>2, <1>3 DEF Init, Inductive, ReaderHolds, RequestLeft, ClosersStop,
                               Whole

LEMMA NextInductive == Inductive /\ [Next]_vars => Inductive'
<1> SUFFICES ASSUME Inductive, [Next]_vars PROVE Inductive'
  OBVIOUS
<1>1. CASE UNCHANGED vars
  BY <1>1 DEF vars, Inductive, TypeOK, ReaderHolds, RequestLeft, ClosersStop, Whole,
              Pending
<1>2. CASE Next
  BY <1>2, NextShape, WholeStep DEF Inductive, Shape
<1> QED BY <1>1, <1>2

(* A worker that is told of the end before anyone closes has taken every   *)
(* frame: the end is behind them all, and only one.                        *)
LEMMA EndIsLast ==
    ASSUME Inductive, TakeEnd, ~stop
    PROVE  child = "exited" /\ consumed = written
<1>1. queue # << >> /\ Head(queue) = End
  <2>1. queue # << >> /\ Head(queue).kind = "end"
    BY DEF TakeEnd, Take
  <2>2. Head(queue) \in Item
    BY <2>1, AfterTake DEF Inductive
  <2> QED BY <2>1, <2>2, Frames
<1>2. Shape
  BY DEF Inductive, Shape
<1> DEFINE all == consumed \o Pending
<1>3. /\ Pending # << >> /\ Head(Pending) = End
      /\ Pending \in Seq(Item) /\ consumed \in Seq(Item) /\ written \in Seq(Frame)
      /\ written \in Seq(Item)
  <2>1. /\ queue \o (held \o pipe) # << >>
        /\ Head(queue \o (held \o pipe)) = Head(queue)
    BY <1>1, <1>2, PendingTypes, HeadTailConcat
  <2> QED BY <1>1, <1>2, <2>1, PendingTypes DEF Shape, TypeOK
<1>4. /\ Len(consumed) \in Nat /\ Len(Pending) \in Nat \ {0} /\ Len(written) \in Nat
      /\ Pending[1] = End
  BY <1>3, LenProperties, EmptySeq
<1>5. Len(all) = Len(consumed) + Len(Pending) /\ all[Len(consumed) + 1] = End
  BY <1>3, <1>4, ConcatProperties
<1> HIDE DEF all
<1>6. \A i \in 1 .. Len(written) : written[i] # End
  BY <1>3, ElementOfSeq, Frames
<1>7. all # written
  <2>1. Len(consumed) + 1 \in 1 .. Len(all)
    BY <1>4, <1>5
  <2> QED BY <1>5, <1>6, <2>1
<1>8. all = Append(written, End) /\ child = "exited"
  BY <1>7 DEF Inductive, Whole, all
<1>9. /\ Len(all) = Len(written) + 1
      /\ \A i \in 1 .. Len(written) : all[i] = written[i]
  BY <1>3, <1>8, Frames, AppendProperties
<1>10. Len(consumed) = Len(written) /\ Len(Pending) = 1
  <2>1. Len(consumed) + 1 \notin 1 .. Len(written)
    BY <1>5, <1>6, <1>9
  <2> DEFINE taken == Len(consumed)
             left  == Len(Pending)
             wrote == Len(written)
  <2>2. /\ taken \in Nat /\ left \in Nat \ {0} /\ wrote \in Nat
        /\ taken + 1 \notin 1 .. wrote /\ taken + left = wrote + 1
    BY <1>4, <1>5, <1>9, <2>1
  <2> HIDE DEF taken, left, wrote
  <2>3. taken = wrote /\ left = 1
    BY <2>2
  <2> QED BY <2>3 DEF taken, left, wrote
<1>11. \A i \in 1 .. Len(consumed) : consumed[i] = written[i]
  <2>1. \A i \in 1 .. Len(consumed) : all[i] = consumed[i]
    BY <1>3, <1>4, ConcatProperties DEF all
  <2> QED BY <1>9, <1>10, <2>1
<1>12. consumed = written
  BY <1>3, <1>10, <1>11, SeqEqual
<1> QED BY <1>8, <1>12
-----------------------------------------------------------------------------
(* The steps of the channel.                                               *)

(* t is s without a stretch of it, or with e put somewhere inside.         *)
Shortened(s, t) ==
    \E i, j \in DOMAIN s :
        i <= j /\ t = SubSeq(s, 1, i - 1) \o SubSeq(s, j + 1, Len(s))

Extended(s, e, t) ==
    \E i \in 0 .. Len(s) : t = Append(SubSeq(s, 1, i), e) \o SubSeq(s, i + 1, Len(s))

LEMMA LoseMiddle ==
    ASSUME NEW S, NEW q \in Seq(S), NEW h \in Seq(S), NEW p \in Seq(S), h # << >>
    PROVE  Shortened((q \o h) \o p, q \o p)
<1> DEFINE s == (q \o h) \o p
           i == Len(q) + 1
           j == Len(q \o h)
<1>1. q \o h \in Seq(S) /\ h \o p \in Seq(S)
  BY ConcatProperties
<1>2. s = q \o (h \o p)
  BY ConcatAssociative
<1>3. /\ SubSeq(q \o (h \o p), 1, Len(q)) = q
      /\ q \o (h \o p) \in Seq(S)
  BY <1>1, SplitConcat
<1>4. SubSeq(s, j + 1, Len(s)) = p /\ Len(s) = j + Len(p)
  BY <1>1, SplitConcat
<1> HIDE DEF s
<1>5. j = Len(q) + Len(h) /\ Len(q) \in Nat /\ Len(p) \in Nat /\ Len(h) \in Nat \ {0}
  BY SplitConcat, EmptySeq
<1>6. DOMAIN s = 1 .. Len(s)
  BY <1>2, <1>3, LenProperties
<1>7. i \in DOMAIN s /\ j \in DOMAIN s /\ i <= j /\ i - 1 = Len(q)
  BY <1>4, <1>5, <1>6
<1> HIDE DEF i, j
<1>8. q \o p = SubSeq(s, 1, i - 1) \o SubSeq(s, j + 1, Len(s))
  BY <1>2, <1>3, <1>4, <1>7
<1>9. Shortened(s, q \o p)
  BY <1>7, <1>8 DEF Shortened
<1> QED BY <1>9 DEF s

LEMMA LoseFirst ==
    ASSUME NEW S, NEW s \in Seq(S), s # << >>
    PROVE  Shortened(s, Tail(s))
<1>1. 1 \in DOMAIN s /\ Len(s) \in Nat
  BY EmptySeq, LenProperties
<1>2. SubSeq(s, 1, 0) = << >> /\ Tail(s) = SubSeq(s, 2, Len(s)) /\ Tail(s) \in Seq(S)
  BY SubSeqEmpty, TailIsSubSeq, HeadTailProperties
<1>3. Tail(s) = << >> \o Tail(s)
  BY <1>2, ConcatEmptySeq
<1>4. Tail(s) = SubSeq(s, 1, 1 - 1) \o SubSeq(s, 1 + 1, Len(s))
  BY <1>2, <1>3
<1> QED BY <1>1, <1>4 DEF Shortened

LEMMA PutBehind ==
    ASSUME NEW S, NEW q \in Seq(S), NEW t \in Seq(S), NEW e
    PROVE  Extended(q \o t, e, Append(q, e) \o t)
<1> DEFINE s == q \o t
<1>1. /\ SubSeq(s, 1, Len(q)) = q
      /\ SubSeq(s, Len(q) + 1, Len(s)) = t
      /\ Len(q) \in Nat /\ Len(t) \in Nat /\ Len(s) = Len(q) + Len(t)
  BY SplitConcat
<1> HIDE DEF s
<1>2. Len(q) \in 0 .. Len(s)
  BY <1>1
<1>3. Extended(s, e, Append(q, e) \o t)
  BY <1>1, <1>2 DEF Extended
<1> QED BY <1>3 DEF s

(* Every step is one of the channel's or invisible to it.                  *)
LEMMA ChannelStep == ASSUME Inductive, Next PROVE [Channel!Next]_(Channel!vars)
<1> USE DEF Channel!Next
<1>1. Shape /\ Pending \in Seq(Item) /\ Item = Frame \cup {End}
  BY PendingTypes DEF Inductive, Shape, Item
<1>2. CASE Write
  <2>1. \E f \in Frame : Pending' = Append(Pending, f)
    BY <1>1, <1>2, ChildPending
  <2> QED BY <1>2, <2>1, Frames DEF Write, Channel!Send, Pending, Item
<1>3. CASE Exit
  BY <1>3 DEF Exit, Channel!vars
<1>4. CASE ReadChunk \/ Put \/ ReaderFails
  <2>1. UNCHANGED Pending
    BY <1>1, <1>4, ReaderPending
  <2> QED BY <1>4, <2>1 DEF ReadChunk, Put, Queued, ReaderFails, Channel!vars, Pending
<1>5. CASE Eof
  <2>1. Pending' = Append(Pending, End)
    BY <1>1, <1>5, ReaderPending
  <2> QED BY <1>5, <2>1, Frames DEF Eof, Channel!Send, Pending, Item
<1>6. CASE ReaderStops
  <2>1. UNCHANGED <<stop, consumed>> /\ stop
    BY <1>6 DEF ReaderStops
  <2>2. Pending' = queue \o pipe
    BY <1>1, <1>6, ReaderPending
  <2>3. CASE held = << >>
    <3>1. Pending = queue \o pipe
      BY <1>1, <2>3, PendingTypes, ConcatEmptySeq DEF Pending
    <3> QED BY <2>1, <2>2, <3>1 DEF Channel!vars, Pending
  <2>4. CASE held # << >>
    <3>1. queue \in Seq(Item) /\ held \in Seq(Item) /\ pipe \in Seq(Item)
      BY <1>1, PendingTypes
    <3>2. Shortened((queue \o held) \o pipe, queue \o pipe)
      BY <2>4, <3>1, LoseMiddle
    <3> QED BY <2>1, <2>2, <3>2 DEF Channel!Lose, Shortened, Pending
  <2> QED BY <2>3, <2>4
<1>7. CASE Worker
  <2>1. stop' = stop
    BY <1>1, <1>7, WorkerPending
  <2>2. CASE UNCHANGED <<queue, Pending, consumed>>
    BY <2>1, <2>2 DEF Channel!vars, Pending
  <2>3. CASE /\ Pending # << >> /\ Pending' = Tail(Pending)
             /\ consumed' = Append(consumed, Head(Pending))
    BY <2>1, <2>3 DEF Channel!Receive, Pending
  <2> QED BY <1>1, <1>7, <2>2, <2>3, WorkerPending
<1>8. ASSUME NEW c \in Closers, CloseBegins(c) \/ Close(c)
      PROVE  [Channel!Next]_(Channel!vars)
  <2>1. UNCHANGED <<pipe, held, consumed>>
    BY <1>1, <1>8, CloserPending
  <2>2. CASE UNCHANGED <<queue, stop>>
    BY <2>1, <2>2 DEF Channel!vars
  <2>3. CASE queue' = queue /\ stop' = TRUE
    BY <2>1, <2>3 DEF Channel!Close
  <2>4. CASE stop = TRUE /\ stop' = TRUE /\ queue' = Append(queue, End)
    <3>1. Extended(Pending, End, Append(queue, End) \o (held \o pipe))
      <4>1. /\ queue \in Seq(Item) /\ held \o pipe \in Seq(Item)
            /\ Pending = queue \o (held \o pipe)
        BY <1>1, PendingTypes
      <4> DEFINE ahead == held \o pipe
      <4>2. ahead \in Seq(Item)
        BY <4>1
      <4> HIDE DEF ahead
      <4>3. Extended(queue \o ahead, End, Append(queue, End) \o ahead)
        BY <4>1, <4>2, PutBehind
      <4> QED BY <4>1, <4>3 DEF ahead
    <3>2. (Append(queue, End) \o held) \o pipe = Append(queue, End) \o (held \o pipe)
      <4> DEFINE more == Append(queue, End)
      <4>1. more \in Seq(Item) /\ held \in Seq(Item) /\ pipe \in Seq(Item)
        BY <1>1, PendingTypes, Frames, AppendProperties
      <4> HIDE DEF more
      <4>2. (more \o held) \o pipe = more \o (held \o pipe)
        BY <4>1, ConcatAssociative
      <4> QED BY <4>2 DEF more
    <3>3. Pending' = Append(queue, End) \o (held \o pipe)
      BY <2>1, <2>4, <3>2 DEF Pending
    <3> QED BY <2>1, <2>4, <3>1, <3>3 DEF Channel!Interrupt, Extended, Pending
  <2>5. CASE stop = TRUE /\ stop' = TRUE /\ queue # << >> /\ queue' = Tail(queue)
    <3>1. Pending # << >> /\ Pending' = Tail(Pending)
      BY <1>1, <2>1, <2>5, TailPending
    <3>2. Shortened(Pending, Tail(Pending))
      BY <1>1, <3>1, LoseFirst
    <3> QED BY <2>1, <2>5, <3>1, <3>2 DEF Channel!Lose, Shortened, Pending
  <2> QED BY <1>1, <1>8, <2>2, <2>3, <2>4, <2>5, CloserPending
<1> QED BY <1>2, <1>3, <1>4, <1>5, <1>6, <1>7, <1>8 DEF Next, Reader

-----------------------------------------------------------------------------
(* Either transport: the theorems.                                         *)

Asking == [cursor : Cursors \cup {Nothing}, session : Sessions \cup {Nothing}]
Giving == [tools : Seq(Tools), next : Cursors \cup {Nothing, Invalid},
           session : Sessions \cup {Nothing, Invalid}]

HttpTypes ==
    /\ session \in Sessions \cup {Nothing}
    /\ seen \subseteq Cursors
    /\ cursor \in seen \cup {Nothing}
    /\ found \in Seq(Tools)
    /\ asked \in Seq(Asking)
    /\ given \in Seq(Giving)

(* A listing goes on within the limit, at a cursor it has not asked for,   *)
(* every page asked for has been given.                                    *)
GoesOn ==
    /\ Len(asked) <= MaxPages
    /\ Len(given) <= Len(asked) /\ Len(asked) <= Len(given) + 1
    /\ step = "listing" => Len(asked) < MaxPages /\ Len(given) = Len(asked)

NeverTwice ==
    /\ \A i \in DOMAIN asked : asked[i].cursor \in seen \cup {Nothing}
    /\ \A i, j \in DOMAIN asked : asked[i].cursor = asked[j].cursor => i = j
    /\ step = "listing" => \A i \in DOMAIN asked : asked[i].cursor # cursor

(* A page asked for with c and s is where the answer before it led.        *)
Follows(c, s, before, answer) ==
    /\ c = answer.next
    /\ s = IF answer.session = Nothing THEN before.session ELSE answer.session

Linked ==
    /\ \A i \in DOMAIN asked \ {1} :
           Follows(asked[i].cursor, asked[i].session, asked[i - 1], given[i - 1])
    /\ step = "listing" /\ asked # << >> =>
           Follows(cursor, session, asked[Len(asked)], given[Len(given)])

(* f is what the tools of the pages make, one after another.  The function *)
(* FlattenSeq computes it with, and that there is just one, come along     *)
(* page by page: a listing is its own induction.                           *)
Flattens(pages, g) ==
    g = [i \in 1 .. Len(pages) |-> IF i = 1 THEN pages[i].tools
                                   ELSE g[i - 1] \o pages[i].tools]

IsFlat(pages, f) ==
    /\ \E g : Flattens(pages, g)
    /\ \A g : Flattens(pages, g) /\ Len(pages) > 0 => g[Len(pages)] = f
    /\ Len(pages) = 0 => f = << >>

Collects == step \in {"listing", "listed"} => IsFlat(given, found)

Arrives ==
    step = "listed" =>
        Http!Last(given).next = Nothing \/ wanted \in Http!ToSet(Http!Last(given).tools)

Walk == HttpTypes /\ GoesOn /\ NeverTwice /\ Linked /\ Collects /\ Arrives

-----------------------------------------------------------------------------
(* Flattening.                                                             *)

LEMMA FlatEmpty == IsFlat(<< >>, << >>)
<1>1. Len(<< >>) = 0 /\ 1 .. 0 = {}
  BY EmptySeq
<1>2. \E g : Flattens(<< >>, g)
  <2> DEFINE g == [i \in {} |-> << >>]
  <2>1. Flattens(<< >>, g)
    BY <1>1 DEF Flattens
  <2> QED BY <2>1
<1> QED BY <1>1, <1>2 DEF IsFlat

(* One more page: the function is extended, and any such function gives,   *)
(* cut down to the pages before, one for those.                            *)
LEMMA FlatAppend ==
    ASSUME NEW pages \in Seq(Giving), NEW page \in Giving, NEW f \in Seq(Tools),
           IsFlat(pages, f)
    PROVE  IsFlat(Append(pages, page), f \o page.tools)
<1> DEFINE n    == Len(pages)
           more == Append(pages, page)
<1>1. /\ n \in Nat /\ more \in Seq(Giving) /\ Len(more) = n + 1
      /\ more[n + 1] = page /\ \A i \in 1 .. n : more[i] = pages[i]
  BY AppendProperties, LenProperties
<1> HIDE DEF n, more
<1>2. << >> \o page.tools = page.tools
  BY ConcatEmptySeq DEF Giving
<1>3. \E g : Flattens(more, g)
  <2>1. PICK g : Flattens(pages, g)
    BY DEF IsFlat
  <2>2. \A i \in 1 .. n : g[i] = IF i = 1 THEN pages[i].tools
                                ELSE g[i - 1] \o pages[i].tools
    BY <2>1 DEF Flattens, n
  <2> DEFINE h == [i \in 1 .. n + 1 |->
                       IF i # n + 1 THEN g[i]
                       ELSE IF i = 1 THEN page.tools ELSE g[n] \o page.tools]
  <2>3. ASSUME NEW i \in 1 .. n + 1
        PROVE  h[i] = IF i = 1 THEN more[i].tools ELSE h[i - 1] \o more[i].tools
    <3>1. CASE i # n + 1
      <4>1. i \in 1 .. n /\ i - 1 # n + 1 /\ (i # 1 => i - 1 \in 1 .. n + 1)
        BY <1>1, <3>1
      <4> QED BY <1>1, <2>2, <3>1, <4>1
    <3>2. CASE i = n + 1
      <4>1. i # 1 => i - 1 = n /\ n \in 1 .. n + 1 /\ n # n + 1
        BY <1>1, <3>2
      <4> QED BY <1>1, <3>2, <4>1
    <3> QED BY <3>1, <3>2
  <2>4. h = [i \in 1 .. n + 1 |-> IF i = 1 THEN more[i].tools
                                 ELSE h[i - 1] \o more[i].tools]
    BY <2>3
  <2> HIDE DEF h
  <2> QED BY <1>1, <2>4 DEF Flattens
<1>4. ASSUME NEW h, Flattens(more, h) PROVE h[n + 1] = f \o page.tools
  <2>1. \A i \in 1 .. n + 1 : h[i] = IF i = 1 THEN more[i].tools
                                    ELSE h[i - 1] \o more[i].tools
    BY <1>1, <1>4 DEF Flattens
  <2>2. CASE n = 0
    <3>1. h[n + 1] = page.tools
      BY <1>1, <2>1, <2>2
    <3>2. f = << >>
      BY <2>2 DEF IsFlat, n
    <3> QED BY <1>2, <3>1, <3>2
  <2>3. CASE n > 0
    <3> DEFINE g == [i \in 1 .. n |-> h[i]]
    <3>1. ASSUME NEW i \in 1 .. n
          PROVE  g[i] = IF i = 1 THEN pages[i].tools ELSE g[i - 1] \o pages[i].tools
      <4>1. i \in 1 .. n + 1 /\ (i # 1 => i - 1 \in 1 .. n)
        BY <1>1
      <4> QED BY <1>1, <2>1, <4>1
    <3>2. g = [i \in 1 .. n |-> IF i = 1 THEN pages[i].tools
                                ELSE g[i - 1] \o pages[i].tools]
      BY <3>1
    <3>3. g[n] = h[n]
      BY <1>1, <2>3
    <3> HIDE DEF g
    <3>4. Flattens(pages, g)
      BY <3>2 DEF Flattens, n
    <3>5. g[n] = f
      BY <2>3, <3>4 DEF IsFlat, n
    <3>6. n + 1 \in 1 .. n + 1 /\ n + 1 # 1 /\ (n + 1) - 1 = n
      BY <1>1, <2>3
    <3> QED BY <1>1, <2>1, <3>3, <3>5, <3>6
  <2> QED BY <1>1, <2>2, <2>3
<1>5. IsFlat(more, f \o page.tools)
  BY <1>1, <1>3, <1>4 DEF IsFlat
<1> QED BY <1>5 DEF more

(* FlattenSeq chooses such a function.                                     *)
LEMMA FlatIsFlattenSeq ==
    ASSUME NEW pages \in Seq(Giving), NEW f, IsFlat(pages, f)
    PROVE  f = Http!FlattenSeq([i \in DOMAIN pages |-> pages[i].tools])
<1> DEFINE n  == Len(pages)
           ts == [i \in DOMAIN pages |-> pages[i].tools]
<1>1. /\ n \in Nat /\ DOMAIN pages = 1 .. n
      /\ \A i \in 1 .. n : pages[i] \in Giving
  BY LenProperties, ElementOfSeq
<1>2. ts \in [1 .. n -> Seq(Tools)]
  BY <1>1 DEF Giving
<1>3. ts \in Seq(Seq(Tools)) /\ Len(ts) = n
  <2>1. ts \in Seq(Seq(Tools))
    BY <1>1, <1>2, SeqDef
  <2>2. DOMAIN ts = 1 .. Len(ts) /\ Len(ts) \in Nat
    BY <2>1, LenProperties
  <2> QED BY <1>1, <1>2, <2>1, <2>2
<1>4. \A i \in 1 .. n : ts[i] = pages[i].tools
  BY <1>1
<1> HIDE DEF ts
<1>5. CASE n = 0
  <2>1. ts = << >> /\ f = << >>
    BY <1>3, <1>5, EmptySeq DEF IsFlat
  <2> QED BY <1>3, <1>5, <2>1 DEF Http!FlattenSeq, ts
<1>6. CASE n > 0
  <2> DEFINE flatten == CHOOSE g : g = [i \in 1 .. Len(ts) |->
                            IF i = 1 THEN ts[i] ELSE g[i - 1] \o ts[i]]
  <2>1. \A g : Flattens(pages, g) <=> g = [i \in 1 .. Len(ts) |->
                            IF i = 1 THEN ts[i] ELSE g[i - 1] \o ts[i]]
    BY <1>3, <1>4 DEF Flattens
  <2>2. Flattens(pages, flatten)
    BY <2>1 DEF IsFlat
  <2>3. flatten[n] = f
    BY <1>6, <2>2 DEF IsFlat
  <2>4. Http!FlattenSeq(ts) = flatten[n]
    BY <1>3, <1>6 DEF Http!FlattenSeq
  <2> QED BY <2>3, <2>4 DEF ts
<1> QED BY <1>1, <1>5, <1>6
-----------------------------------------------------------------------------
(* The walk.                                                               *)

(* Before a listing, and when one begins.                                  *)
LEMMA EmptyWalk ==
    ASSUME cursor = Nothing, seen = {}, found = << >>, asked = << >>, given = << >>,
           session \in Sessions \cup {Nothing}, step # "listed"
    PROVE  Walk
<1>1. /\ << >> \in Seq(Asking) /\ << >> \in Seq(Giving) /\ << >> \in Seq(Tools)
      /\ Len(<< >>) = 0 /\ DOMAIN << >> = {}
  BY EmptySeq
<1>2. MaxPages \in Nat \ {0}
  BY PagesAssumption DEF Http!ListingAssumption
<1>3. HttpTypes
  BY <1>1 DEF HttpTypes
<1>4. GoesOn
  BY <1>1, <1>2 DEF GoesOn
<1>5. NeverTwice /\ Linked
  BY <1>1 DEF NeverTwice, Linked
<1>6. Collects /\ Arrives
  BY FlatEmpty DEF Collects, Arrives
<1> QED BY <1>3, <1>4, <1>5, <1>6 DEF Walk

LEMMA InitWalk == NoSession \/ Http!Init => Walk
BY EmptyWalk DEF NoSession, Http!Init

(* The session after an answer with a result is the one it carries, if it  *)
(* carries one.                                                            *)
LEMMA KeptSession ==
    ASSUME HttpTypes, NEW a \in Http!Answers, Http!Keep(a)
    PROVE  /\ session' \in Sessions \cup {Nothing}
           /\ Http!Result(a) => session' = IF a.session = Nothing THEN session
                                           ELSE a.session
BY DEF HttpTypes, Http!Answers, Http!Keep, Http!Result, Http!Arrived

(* Steps that leave the listing alone.                                     *)
LEMMA QuietWalk ==
    ASSUME Walk, UNCHANGED Http!listing, session' \in Sessions \cup {Nothing},
           step' # "listing", step' # "listed"
    PROVE  Walk'
BY DEF Walk, HttpTypes, GoesOn, NeverTwice, Linked, Collects, Arrives, Http!listing

LEMMA OtherSteps ==
    ASSUME Walk,
           \/ Http!Initialize \/ Http!Notify \/ Http!UseListing
           \/ Http!CallTool \/ Http!Close
    PROVE  Walk'
<1>1. UNCHANGED Http!listing
  BY DEF Http!Initialize, Http!Notify, Http!UseListing, Http!CallTool, Http!Close
<1>2. step' # "listing" /\ step' # "listed"
  BY DEF Http!Initialize, Http!Notify, Http!UseListing, Http!CallTool, Http!Close, Http!Go
<1>3. session' = session \/ \E a \in Http!Answers : Http!Keep(a)
  BY DEF Http!Initialize, Http!Notify, Http!UseListing, Http!CallTool, Http!Close
<1>4. session' \in Sessions \cup {Nothing}
  BY <1>3, KeptSession DEF Walk, HttpTypes
<1> QED BY <1>1, <1>2, <1>4, QuietWalk

LEMMA BeginWalk == ASSUME Walk, Http!BeginListing PROVE Walk'
<1>1. /\ cursor' = Nothing /\ seen' = {} /\ found' = << >> /\ asked' = << >>
      /\ given' = << >> /\ session' \in Sessions \cup {Nothing} /\ step' = "listing"
  BY DEF Http!BeginListing, Http!Go, Walk, HttpTypes
<1>2. /\ << >> \in Seq(Asking) /\ << >> \in Seq(Giving) /\ << >> \in Seq(Tools)
      /\ Len(<< >>) = 0 /\ DOMAIN << >> = {}
  BY EmptySeq
<1>3. MaxPages \in Nat \ {0}
  BY PagesAssumption DEF Http!ListingAssumption
<1>4. HttpTypes'
  BY <1>1, <1>2 DEF HttpTypes
<1>5. GoesOn'
  BY <1>1, <1>2, <1>3 DEF GoesOn
<1>6. NeverTwice' /\ Linked'
  BY <1>1, <1>2 DEF NeverTwice, Linked
<1>7. Collects' /\ Arrives'
  BY <1>1, FlatEmpty DEF Collects, Arrives
<1> QED BY <1>4, <1>5, <1>6, <1>7 DEF Walk

(* A page is asked for where the walk stands, and nothing before it        *)
(* changes.                                                                *)
LEMMA AskStep ==
    ASSUME Walk, step = "listing", Http!Ask, seen \subseteq seen'
    PROVE  /\ asked' \in Seq(Asking) /\ Len(asked') = Len(asked) + 1
           /\ Len(asked) \in Nat /\ Len(asked) < MaxPages /\ Len(given) = Len(asked)
           /\ asked'[Len(asked) + 1] = [cursor |-> cursor, session |-> session]
           /\ \A i \in 1 .. Len(asked) : asked'[i] = asked[i]
           /\ \A i \in DOMAIN asked' : asked'[i].cursor \in seen \cup {Nothing}
           /\ \A i, j \in DOMAIN asked' : asked'[i].cursor = asked'[j].cursor => i = j
           /\ \A i \in DOMAIN asked' \ {1} :
                  Follows(asked'[i].cursor, asked'[i].session,
                          asked'[i - 1], given[i - 1])
<1> DEFINE n == Len(asked)
           ask == [cursor |-> cursor, session |-> session]
<1>1. /\ ask \in Asking /\ ask.cursor = cursor /\ ask.session = session
      /\ cursor \in seen \cup {Nothing}
  BY DEF Walk, HttpTypes, Asking
<1>2. asked' = Append(asked, ask)
  BY DEF Http!Ask
<1>3. asked \in Seq(Asking)
  BY DEF Walk, HttpTypes
<1> HIDE DEF ask
<1>4. /\ asked' \in Seq(Asking) /\ Len(asked') = n + 1 /\ n \in Nat
      /\ asked'[n + 1] = ask /\ \A i \in 1 .. n : asked'[i] = asked[i]
  BY <1>1, <1>2, <1>3, AppendProperties, LenProperties
<1>5. DOMAIN asked = 1 .. n /\ DOMAIN asked' = 1 .. n + 1
  BY <1>3, <1>4, LenProperties
<1>6. n < MaxPages /\ Len(given) = n
  BY DEF Walk, GoesOn
<1> HIDE DEF n
<1>7. \A i \in 1 .. n + 1 : i = n + 1 \/ i \in 1 .. n
  BY <1>4
<1>8. \A i \in 1 .. n : /\ asked[i].cursor \in seen \cup {Nothing}
                        /\ asked[i].cursor # cursor
  BY <1>5 DEF Walk, NeverTwice
<1>9. \A i \in DOMAIN asked' : asked'[i].cursor \in seen \cup {Nothing}
  BY <1>1, <1>4, <1>5, <1>7, <1>8
<1>10. \A i, j \in DOMAIN asked' : asked'[i].cursor = asked'[j].cursor => i = j
  <2> SUFFICES ASSUME NEW i \in 1 .. n + 1, NEW j \in 1 .. n + 1,
                      asked'[i].cursor = asked'[j].cursor
               PROVE  i = j
    BY <1>5
  <2>1. CASE i \in 1 .. n /\ j \in 1 .. n
    BY <1>4, <1>5, <2>1 DEF Walk, NeverTwice
  <2>2. CASE i = n + 1 /\ j \in 1 .. n
    BY <1>1, <1>4, <1>8, <2>2
  <2>3. CASE i \in 1 .. n /\ j = n + 1
    BY <1>1, <1>4, <1>8, <2>3
  <2> QED BY <1>7, <2>1, <2>2, <2>3
<1>11. ASSUME NEW i \in DOMAIN asked' \ {1}
       PROVE  Follows(asked'[i].cursor, asked'[i].session, asked'[i - 1], given[i - 1])
  <2>1. i \in 1 .. n + 1 /\ i # 1 /\ i - 1 \in 1 .. n
    BY <1>4, <1>5
  <2>2. CASE i = n + 1
    <3>1. i - 1 = n /\ asked # << >>
      BY <1>3, <1>4, <2>1, <2>2, EmptySeq DEF n
    <3>2. Follows(cursor, session, asked[n], given[n])
      BY <1>6, <3>1 DEF Walk, Linked, n
    <3> QED BY <1>1, <1>4, <2>1, <2>2, <3>1, <3>2
  <2>3. CASE i \in 1 .. n
    <3>1. Follows(asked[i].cursor, asked[i].session, asked[i - 1], given[i - 1])
      BY <1>5, <2>1, <2>3 DEF Walk, Linked
    <3> QED BY <1>4, <2>1, <2>3, <3>1
  <2> QED BY <1>7, <2>1, <2>2, <2>3
<1> QED BY <1>4, <1>6, <1>9, <1>10, <1>11 DEF n, ask

LEMMA FailWalk == ASSUME Walk, Http!ListFails PROVE Walk'
<1>1. /\ step = "listing" /\ step' = "failed" /\ Http!Ask
      /\ UNCHANGED <<wanted, cursor, seen, found, given>>
      /\ \E a \in Http!Answers : Http!Keep(a)
  BY DEF Http!ListFails, Http!Go
<1>2. session' \in Sessions \cup {Nothing}
  BY <1>1, KeptSession DEF Walk
<1>3. /\ asked' \in Seq(Asking) /\ Len(asked') = Len(asked) + 1
      /\ Len(asked) \in Nat /\ Len(asked) < MaxPages /\ Len(given) = Len(asked)
      /\ \A i \in DOMAIN asked' : asked'[i].cursor \in seen \cup {Nothing}
      /\ \A i, j \in DOMAIN asked' : asked'[i].cursor = asked'[j].cursor => i = j
      /\ \A i \in DOMAIN asked' \ {1} :
             Follows(asked'[i].cursor, asked'[i].session, asked'[i - 1], given[i - 1])
  BY <1>1, AskStep
<1>4. MaxPages \in Nat
  BY PagesAssumption DEF Http!ListingAssumption
<1>5. HttpTypes'
  BY <1>1, <1>2, <1>3 DEF Walk, HttpTypes
<1>6. GoesOn'
  BY <1>1, <1>3, <1>4 DEF GoesOn
<1>7. NeverTwice'
  BY <1>1, <1>3 DEF NeverTwice
<1>8. Linked'
  BY <1>1, <1>3 DEF Linked
<1>9. Collects' /\ Arrives'
  BY <1>1 DEF Collects, Arrives
<1> QED BY <1>5, <1>6, <1>7, <1>8, <1>9 DEF Walk
(* Where the walk stands after a page: it follows a cursor not seen        *)
(* before, has found enough, or failed.                                    *)
LEMMA PageWalk == ASSUME Walk, Http!ListPage PROVE Walk'
<1>1. PICK a \in Http!Answers, page \in Http!Pages :
         /\ Http!Result(a) /\ Http!Keep(a)
         /\ found' = found \o page.tools
         /\ given' = Append(given, [tools |-> page.tools, next |-> page.next,
                                    session |-> a.session])
         /\ Http!Return(page)
            \/ (~Http!Enough(page) /\ (Http!Follow(page) \/ Http!Reject(page)))
  BY DEF Http!ListPage
<1>2. step = "listing" /\ Http!Ask /\ wanted' = wanted
  BY DEF Http!ListPage
<1> DEFINE n    == Len(asked)
           give == [tools |-> page.tools, next |-> page.next, session |-> a.session]
<1>3. /\ page.tools \in Seq(Tools)
      /\ page.next \in Cursors \cup {Nothing, Invalid}
      /\ a.session \in Sessions \cup {Nothing, Invalid}
  <2>1. \A t \in Tools : <<t>> \in Seq(Tools)
    OBVIOUS
  <2>2. << >> \in Seq(Tools)
    BY EmptySeq
  <2> QED BY <2>1, <2>2 DEF Http!Pages, Http!Answers
<1>4. /\ give \in Giving /\ give.tools = page.tools /\ give.next = page.next
      /\ give.session = a.session /\ given' = Append(given, give)
  BY <1>1, <1>3 DEF Giving
<1> HIDE DEF give
<1>5. /\ given \in Seq(Giving) /\ found \in Seq(Tools) /\ seen \subseteq Cursors
      /\ cursor \in seen \cup {Nothing}
  BY DEF Walk, HttpTypes
<1>6. /\ session' \in Sessions \cup {Nothing}
      /\ session' = IF give.session = Nothing THEN session ELSE give.session
  BY <1>1, <1>4, KeptSession DEF Walk
<1>7. /\ seen \subseteq seen' /\ seen' \subseteq Cursors
      /\ cursor' \in seen' \cup {Nothing}
      /\ step' \in {"listing", "listed", "failed"}
      /\ step' = "listing" => /\ page.next \in Cursors \ seen /\ cursor' = page.next
                              /\ n + 1 < MaxPages
      /\ step' = "listed" => Http!Enough(page)
  BY <1>1, <1>5 DEF Http!Return, Http!Follow, Http!Reject, Http!Go
<1>8. /\ asked' \in Seq(Asking) /\ Len(asked') = n + 1
      /\ n \in Nat /\ n < MaxPages /\ Len(given) = n
      /\ asked'[n + 1] = [cursor |-> cursor, session |-> session]
      /\ \A i \in DOMAIN asked' : asked'[i].cursor \in seen \cup {Nothing}
      /\ \A i, j \in DOMAIN asked' : asked'[i].cursor = asked'[j].cursor => i = j
      /\ \A i \in DOMAIN asked' \ {1} :
             Follows(asked'[i].cursor, asked'[i].session, asked'[i - 1], given[i - 1])
  BY <1>2, <1>7, AskStep
<1> HIDE DEF n
<1>9. /\ given' \in Seq(Giving) /\ Len(given') = n + 1 /\ given'[n + 1] = give
      /\ \A i \in 1 .. n : given'[i] = given[i]
  BY <1>4, <1>5, <1>8, AppendProperties
<1>10. MaxPages \in Nat /\ Nothing \notin Cursors
  BY PagesAssumption DEF Http!ListingAssumption
<1>11. DOMAIN asked' = 1 .. n + 1
  BY <1>8, LenProperties
<1>12. HttpTypes'
  <2>1. found' \in Seq(Tools)
    BY <1>1, <1>3, <1>5, ConcatProperties
  <2> QED BY <1>6, <1>7, <1>8, <1>9, <2>1 DEF HttpTypes
<1>13. GoesOn'
  BY <1>7, <1>8, <1>9, <1>10 DEF GoesOn
<1>14. NeverTwice'
  <2>1. \A i \in DOMAIN asked' : asked'[i].cursor \in seen' \cup {Nothing}
    BY <1>7, <1>8
  <2>2. step' = "listing" => \A i \in DOMAIN asked' : asked'[i].cursor # cursor'
    BY <1>7, <1>8, <1>10
  <2> QED BY <1>8, <2>1, <2>2 DEF NeverTwice
<1>15. Linked'
  <2>1. ASSUME NEW i \in DOMAIN asked' \ {1}
        PROVE  Follows(asked'[i].cursor, asked'[i].session, asked'[i - 1], given'[i - 1])
    <3>1. i - 1 \in 1 .. n
      BY <1>8, <1>11
    <3> QED BY <1>8, <1>9, <2>1, <3>1
  <2>2. step' = "listing" =>
            Follows(cursor', session', asked'[Len(asked')], given'[Len(given')])
    BY <1>4, <1>6, <1>7, <1>8, <1>9 DEF Follows
  <2> QED BY <2>1, <2>2 DEF Linked
<1>16. Collects'
  <2>1. IsFlat(given, found)
    BY <1>2 DEF Walk, Collects
  <2>2. IsFlat(Append(given, give), found \o give.tools)
    BY <1>4, <1>5, <2>1, FlatAppend
  <2> QED BY <1>1, <1>4, <2>2 DEF Collects
<1>17. Arrives'
  <2>1. Http!Last(given') = give
    BY <1>9 DEF Http!Last
  <2> QED BY <1>2, <1>4, <1>7, <2>1 DEF Arrives, Http!Enough
<1> QED BY <1>12, <1>13, <1>14, <1>15, <1>16, <1>17 DEF Walk

LEMMA NextWalk == Walk /\ [Http!Next]_httpVars => Walk'
<1> SUFFICES ASSUME Walk, [Http!Next]_httpVars PROVE Walk'
  OBVIOUS
<1>1. CASE UNCHANGED httpVars
  BY <1>1 DEF httpVars, Walk, HttpTypes, GoesOn, NeverTwice, Linked, Collects, Arrives
<1>2. CASE Http!Next
  BY <1>2, OtherSteps, BeginWalk, FailWalk, PageWalk DEF Http!Next
<1> QED BY <1>1, <1>2

LEMMA WalkIsWhole == Walk => ListingIsWhole
<1> SUFFICES ASSUME Walk PROVE Http!ListingIsWhole
  BY DEF ListingIsWhole
<1>1. Len(asked) <= MaxPages
  BY DEF Walk, GoesOn
<1>2. \A i, j \in DOMAIN asked : asked[i].cursor = asked[j].cursor => i = j
  BY DEF Walk, NeverTwice
<1>3. \A i \in DOMAIN asked \ {1} :
          /\ asked[i].cursor = given[i - 1].next
          /\ asked[i].session = IF given[i - 1].session = Nothing
                                THEN asked[i - 1].session ELSE given[i - 1].session
  BY DEF Walk, Linked, Follows
<1>4. step = "listed" => found = Http!FlattenSeq([i \in DOMAIN given |-> given[i].tools])
  BY FlatIsFlattenSeq DEF Walk, Collects, HttpTypes
<1>5. step = "listed" => \/ Http!Last(given).next = Nothing
                         \/ wanted \in Http!ToSet(Http!Last(given).tools)
  BY DEF Walk, Arrives
<1> QED BY <1>1, <1>2, <1>3, <1>4, <1>5 DEF Http!ListingIsWhole

-----------------------------------------------------------------------------
(* The two transports together.                                            *)

(* A client without a child is one whose child's channel is closed.        *)
LEMMA NoChildInductive == NoChild => Inductive
<1> SUFFICES ASSUME NoChild PROVE Inductive
  OBVIOUS
<1>1. /\ << >> \in Seq(Frame) /\ << >> \in Seq(Item) /\ Len(<< >>) = 0
      /\ << >> # <<End>>
  BY EmptySeq, OneEnd
<1>2. TypeOK
  <2>1. MaxQueue \in Nat /\ MaxRequests \in Nat
    BY ClientAssumption
  <2>2. /\ Len(queue) <= MaxQueue
        /\ next \in 1 .. MaxRequests + 1
    BY <1>1, <2>1 DEF NoChild
  <2>3. {closed, stop} \subseteq BOOLEAN
    BY DEF NoChild
  <2>4. /\ pipe \in Seq(Frame) /\ written \in Seq(Frame)
        /\ held \in Seq(Item) /\ queue \in Seq(Item) /\ consumed \in Seq(Item)
    BY <1>1 DEF NoChild
  <2> QED BY <2>2, <2>3, <2>4 DEF NoChild, TypeOK, Item
<1>3. Pending = << >> /\ consumed \o Pending = << >>
  BY <1>1, ConcatEmptySeq DEF NoChild, Pending
<1> QED BY <1>1, <1>2, <1>3 DEF NoChild, Inductive, ReaderHolds, RequestLeft,
                               ClosersStop, Whole

(* Steps of one transport leave the invariant of the other alone.          *)
LEMMA ClientInvariant == ClientSpec => [](Inductive /\ Walk)
<1>1. ClientInit => Inductive /\ Walk
  BY InitInductive, NoChildInductive, InitWalk DEF ClientInit
<1>2. Inductive /\ Walk /\ [ClientNext]_<<vars, httpVars>> => Inductive' /\ Walk'
  <2>1. [ClientNext]_<<vars, httpVars>> => [Next]_vars /\ [Http!Next]_httpVars
    BY DEF ClientNext
  <2> QED BY <2>1, NextInductive, NextWalk
<1> QED BY <1>1, <1>2, PTL DEF ClientSpec

(* The reader, the worker and both closers of a client with a child        *)
(* process never meet in a state the code does not know: the queue stays   *)
(* within its bound and the reader puts only what it holds.                *)
THEOREM ClientTypes == ClientSpec => []TypeOK
<1>1. Inductive => TypeOK
  BY DEF Inductive
<1> QED BY <1>1, ClientInvariant, PTL

(* Unless the client is being closed, the worker hears that the server     *)
(* closed only after every frame the child wrote, however they lie between *)
(* the pipe, the reader and the queue (_drain_stdout, _receive_response).  *)
THEOREM NothingAfterEnd == ClientSpec => EndAfterEverything
<1>1. Inductive /\ [ClientNext]_<<vars, httpVars>> =>
          [TakeEnd /\ ~stop => child = "exited" /\ consumed = written]_vars
  BY EndIsLast
<1> QED BY <1>1, ClientInvariant, PTL DEF ClientSpec, EndAfterEverything

(* The queue, the reader thread and the pipe are a first-in first-out      *)
(* channel, whatever the size of the queue and whoever closes the client.  *)
THEOREM ChannelImplemented == ClientSpec => FramesDelivered
<1>1. ClientInit => Channel!Init
  <2>1. << >> \o << >> = << >>
    BY EmptySeq, ConcatEmptySeq
  <2> QED BY <2>1 DEF ClientInit, Init, NoChild, Channel!Init
<1>2. Inductive /\ [ClientNext]_<<vars, httpVars>> => [Channel!Next]_(Channel!vars)
  <2> SUFFICES ASSUME Inductive, [ClientNext]_<<vars, httpVars>>
               PROVE  [Channel!Next]_(Channel!vars)
    OBVIOUS
  <2>1. CASE Next
    BY <2>1, ChannelStep
  <2>2. CASE UNCHANGED vars
    BY <2>2 DEF vars, Channel!vars
  <2> QED BY <2>1, <2>2 DEF ClientNext
<1> QED BY <1>1, <1>2, ClientInvariant, PTL DEF ClientSpec, FramesDelivered, Channel!Spec

(* A listing over HTTP is one walk along at most MaxPages pages, none      *)
(* asked for twice, each with the cursor and session the one before it     *)
(* gave, and it returns every tool it met (HttpClient.list_tools).         *)
THEOREM ListingWhole == ClientSpec => []ListingIsWhole
BY WalkIsWhole, ClientInvariant, PTL
===============================================================================
