----------------------------- MODULE AnswerProofs -----------------------------
(***************************************************************************)
(* Proofs about the way of an answer: the connections of the HTTP front    *)
(* and the streams they show (Front), the rounds that decode its tokens    *)
(* (DecodeRounds), the text the client is shown of them (TextStream), and  *)
(* the odds of tokens that are sampled (Sampler).                          *)
(***************************************************************************)
EXTENDS Front, DecodeRounds, TextStream, Sampler, DataLemmas, FiniteSetTheorems

-----------------------------------------------------------------------------
(***************************************************************************)
(* Front.  A ping is the first frame of a stream or none; every other      *)
(* frame is a token that was made and not shown yet.  A thread that does   *)
(* not stream has no frames.                                               *)
(***************************************************************************)
ThreadType ==
    [at : {"closed", "read", "send", "await", "stream", "tail"}, peer : BOOLEAN,
     frames : Seq({"tok", "ping"}), result : {"none", "tokens", "error", "closed"},
     made : Nat, shown : Nat, ended : BOOLEAN]

PingFirst(q) == \A i \in 1 .. Len(q) : q[i] = "ping" => i = 1

Unshown(q) == IF Len(q) > 0 /\ q[1] = "ping" THEN Len(q) - 1 ELSE Len(q)

StreamInv(t) ==
    /\ t.at \in {"closed", "read", "send", "await"} =>
          t.frames = <<>> /\ t.made = 0 /\ t.shown = 0 /\ ~t.ended
    /\ t.at = "stream" =>
          ~t.ended /\ PingFirst(t.frames) /\ t.made = t.shown + Unshown(t.frames)
    /\ t.at = "tail" => t.shown <= t.made /\ (~t.ended => t.shown = t.made)

FrontInv ==
    /\ th \in [Conn -> ThreadType]
    /\ \A c \in Conn : StreamInv(th[c])
    /\ refusing \in BOOLEAN
    /\ jobs \in Seq(Conn) /\ Len(jobs) <= QMax /\ taken \subseteq Conn
    /\ engine \in {"up", "unwinding", "dead"}
    /\ engine # "up" => jobs = <<>> /\ taken = {}
    /\ ConnsCounted

\* A thread goes on to t.
GoesOn(c, t) == t \in ThreadType /\ StreamInv(t) /\ t.at # "closed" /\ th' = [th EXCEPT ![c] = t]

LEMMA ReaderIs ==
  /\ Reader \in ThreadType /\ Closed \in ThreadType /\ StreamInv(Reader) /\ StreamInv(Closed)
  /\ Reader.at = "read" /\ Closed.at = "closed"
  /\ \A b \in BOOLEAN : /\ [Reader EXCEPT !.peer = b] \in ThreadType
                        /\ StreamInv([Reader EXCEPT !.peer = b])
                        /\ [Reader EXCEPT !.peer = b].at = "read"
  <1>1. <<>> \in Seq({"tok", "ping"})
    BY EmptySeq
  <1>2. Reader \in ThreadType /\ Reader.at = "read" /\ StreamInv(Reader)
    BY <1>1 DEF Reader, ThreadType, StreamInv
  <1>3. Closed \in ThreadType /\ Closed.at = "closed" /\ StreamInv(Closed)
    BY <1>1 DEF Closed, Reader, ThreadType, StreamInv
  <1>4. ASSUME NEW b \in BOOLEAN
        PROVE  /\ [Reader EXCEPT !.peer = b] \in ThreadType
               /\ StreamInv([Reader EXCEPT !.peer = b])
               /\ [Reader EXCEPT !.peer = b].at = "read"
    BY <1>1 DEF Reader, ThreadType, StreamInv
  <1> QED
    BY <1>2, <1>3, <1>4

(***************************************************************************)
(* The tokens among the frames, as one is read and one is sent.            *)
(***************************************************************************)
LEMMA NoFrames == <<>> \in Seq({"tok", "ping"}) /\ PingFirst(<<>>) /\ Unshown(<<>>) = 0
  <1>1. <<>> \in Seq({"tok", "ping"}) /\ Len(<<>>) = 0
    BY EmptySeq
  <1> QED
    BY <1>1 DEF PingFirst, Unshown

LEMMA OnePing ==
  <<"ping">> \in Seq({"tok", "ping"}) /\ PingFirst(<<"ping">>) /\ Unshown(<<"ping">>) = 0
  BY DEF PingFirst, Unshown

LEMMA FrameRead ==
  ASSUME NEW q \in Seq({"tok", "ping"}), q # <<>>, PingFirst(q)
  PROVE  /\ Tail(q) \in Seq({"tok", "ping"}) /\ PingFirst(Tail(q)) /\ Unshown(Tail(q)) \in Nat
         /\ Unshown(q) = Unshown(Tail(q)) + (IF Head(q) = "ping" THEN 0 ELSE 1)
  <1>1. Len(q) \in Nat /\ Len(q) > 0 /\ Head(q) = q[1]
    OBVIOUS
  <1>2. /\ Tail(q) \in Seq({"tok", "ping"}) /\ Len(Tail(q)) = Len(q) - 1
        /\ \A i \in 1 .. Len(Tail(q)) : Tail(q)[i] = q[i + 1]
    BY HeadTailProperties
  <1>3. \A i \in 1 .. Len(Tail(q)) : Tail(q)[i] # "ping"
    BY <1>1, <1>2 DEF PingFirst
  <1>4. Unshown(Tail(q)) = Len(q) - 1
    <2>1. ~(Len(Tail(q)) > 0 /\ Tail(q)[1] = "ping")
      BY <1>1, <1>2, <1>3
    <2> QED  BY <1>1, <1>2, <2>1 DEF Unshown
  <1>5. PingFirst(Tail(q))
    BY <1>3 DEF PingFirst
  <1>6. Unshown(q) = Len(q) - (IF Head(q) = "ping" THEN 1 ELSE 0)
    BY <1>1 DEF Unshown
  <1> QED
    BY <1>1, <1>2, <1>4, <1>5, <1>6

LEMMA FrameSent ==
  ASSUME NEW q \in Seq({"tok", "ping"}), PingFirst(q)
  PROVE  /\ Append(q, "tok") \in Seq({"tok", "ping"}) /\ PingFirst(Append(q, "tok"))
         /\ Unshown(Append(q, "tok")) = Unshown(q) + 1
  <1>1. Len(q) \in Nat
    OBVIOUS
  <1>2. /\ Append(q, "tok") \in Seq({"tok", "ping"}) /\ Len(Append(q, "tok")) = Len(q) + 1
        /\ \A i \in 1 .. Len(q) : Append(q, "tok")[i] = q[i]
        /\ Append(q, "tok")[Len(q) + 1] = "tok"
    BY AppendProperties
  <1>3. PingFirst(Append(q, "tok"))
    BY <1>1, <1>2 DEF PingFirst
  <1>4. CASE Len(q) = 0
    <2>1. Append(q, "tok")[1] = "tok" /\ Len(Append(q, "tok")) = 1
      BY <1>2, <1>4
    <2> QED  BY <1>2, <1>3, <1>4, <2>1 DEF Unshown
  <1>5. CASE Len(q) > 0
    <2>1. Append(q, "tok")[1] = q[1] /\ Len(Append(q, "tok")) = Len(q) + 1
      BY <1>1, <1>2, <1>5
    <2> QED  BY <1>1, <1>2, <1>3, <1>5, <2>1 DEF Unshown
  <1> QED
    BY <1>1, <1>2, <1>3, <1>4, <1>5

\* While a thread goes on, nothing changes in the count.
LEMMA GoesOnKeeps ==
  ASSUME th \in [Conn -> ThreadType], \A c \in Conn : StreamInv(th[c]), ConnsCounted,
         NEW c \in Conn, NEW t, GoesOn(c, t), th[c].at # "closed", UNCHANGED <<conns, refusing>>
  PROVE  /\ th' \in [Conn -> ThreadType]
         /\ \A d \in Conn : StreamInv(th'[d])
         /\ ConnsCounted'
  <1>1. th' \in [Conn -> ThreadType] /\ \A d \in Conn : th'[d] = IF d = c THEN t ELSE th[d]
    BY DEF GoesOn
  <1>2. \A d \in Conn : StreamInv(th'[d])
    BY <1>1 DEF GoesOn
  <1>3. Threads' = Threads
    BY <1>1 DEF Threads, GoesOn
  <1> QED
    BY <1>1, <1>2, <1>3 DEF ConnsCounted

\* The steps of a thread: each goes on to a thread that is in order.
LEMMA ThreadGoesOn ==
  ASSUME FrontInv, NEW c \in Conn, Request(c) \/ Thread(c) \/ SendFrame(c) \/ PeerLeaves(c)
  PROVE  /\ (\E t : GoesOn(c, t)) \/ th' = th
         /\ th[c].at # "closed" /\ UNCHANGED <<conns, refusing, engine, taken>>
  <1> DEFINE t0 == th[c]
  <1>0. t0 \in ThreadType /\ StreamInv(t0) /\ th \in [Conn -> ThreadType]
    BY DEF FrontInv
  <1>1. ASSUME Return(c), th[c].at # "closed"
        PROVE  \E t : GoesOn(c, t)
    <2>1. th[c].peer \in BOOLEAN
      BY <1>0 DEF ThreadType
    <2> QED  BY <1>1, <2>1, ReaderIs DEF Return, Becomes, GoesOn
  <1>2. ASSUME NEW place \in {"read", "send", "await"}, Goes(c, place),
               th[c].at \in {"read", "send"}
        PROVE  \E t : GoesOn(c, t)
    <2> DEFINE t == [th[c] EXCEPT !.at = place]
    <2>1. t \in ThreadType /\ StreamInv(t) /\ t.at # "closed"
      BY <1>0, <1>2 DEF ThreadType, StreamInv
    <2>2. th' = [th EXCEPT ![c] = t]
      BY <1>0, <1>2 DEF Goes
    <2> QED  BY <2>1, <2>2 DEF GoesOn
  <1>3. ASSUME Goes(c, "stream"), th[c].at = "send"
        PROVE  \E t : GoesOn(c, t)
    <2> DEFINE t == [th[c] EXCEPT !.at = "stream"]
    <2>1. t \in ThreadType /\ t.at = "stream" /\ ~t.ended /\ t.frames = <<>> /\ t.made = 0 /\ t.shown = 0
      BY <1>0, <1>3 DEF ThreadType, StreamInv
    <2>2. StreamInv(t)
      <3> HIDE DEF t
      <3> QED  BY <2>1, NoFrames DEF StreamInv
    <2>3. th' = [th EXCEPT ![c] = t]
      BY <1>0, <1>3 DEF Goes
    <2> QED  BY <2>1, <2>2, <2>3 DEF GoesOn
  <1>4. CASE Request(c)
    BY <1>2, <1>4 DEF Request
  <1>5. CASE Enqueue(c)
    BY <1>2, <1>3, <1>5 DEF Enqueue
  <1>6. CASE EnqueueErr(c)
    BY <1>2, <1>6 DEF EnqueueErr
  <1>7. CASE Await(c) \/ GiveUp(c) \/ StreamDone(c)
    BY <1>1, <1>7 DEF Await, GiveUp, StreamDone
  <1>8. CASE Frame(c)
    <2> DEFINE q == th[c].frames
               t == [th[c] EXCEPT !.frames = Tail(@)]
               show == [t EXCEPT !.shown = @ + 1]
               last == [show EXCEPT !.ended = TRUE, !.at = "tail"]
               cut == [t EXCEPT !.ended = TRUE, !.at = "tail"]
    <2>1. /\ th[c].at = "stream" /\ q # <<>> /\ q \in Seq({"tok", "ping"}) /\ PingFirst(q)
          /\ ~th[c].ended /\ th[c].made = th[c].shown + Unshown(q)
          /\ th[c].made \in Nat /\ th[c].shown \in Nat
      BY <1>0, <1>8 DEF Frame, ThreadType, StreamInv
    <2>2. /\ Tail(q) \in Seq({"tok", "ping"}) /\ PingFirst(Tail(q)) /\ Unshown(Tail(q)) \in Nat
          /\ Unshown(q) = Unshown(Tail(q)) + (IF Head(q) = "ping" THEN 0 ELSE 1)
      BY <2>1, FrameRead
    <2>3. /\ t \in ThreadType /\ t.at = "stream" /\ ~t.ended /\ t.frames = Tail(q)
          /\ t.made = th[c].made /\ t.shown = th[c].shown
      BY <1>0, <2>1, <2>2 DEF ThreadType
    <2>4. /\ show \in ThreadType /\ show.at = "stream" /\ ~show.ended /\ show.frames = Tail(q)
          /\ show.made = th[c].made /\ show.shown = th[c].shown + 1
      <3> HIDE DEF t, q
      <3>1. t.shown + 1 \in Nat
        BY <2>1, <2>3
      <3> QED  BY <2>3, <3>1 DEF ThreadType
    <2>5. /\ last \in ThreadType /\ last.at = "tail" /\ last.ended
          /\ last.made = th[c].made /\ last.shown = th[c].shown + 1
      BY <2>1, <2>4 DEF ThreadType
    <2>6. /\ cut \in ThreadType /\ cut.at = "tail" /\ cut.ended
          /\ cut.made = th[c].made /\ cut.shown = th[c].shown
      BY <2>1, <2>3 DEF ThreadType
    <2>7. CASE Head(q) = "ping"
      <3>1. th' = [th EXCEPT ![c] = t]
        BY <1>8, <2>7 DEF Frame, Becomes
      <3>2. StreamInv(t)
        <4> HIDE DEF t, q
        <4> QED  BY <2>1, <2>2, <2>3, <2>7 DEF StreamInv
      <3> QED  BY <1>8, <2>1, <2>3, <3>1, <3>2 DEF GoesOn, Frame
    <2>8. CASE Head(q) # "ping"
      <3>1. \/ th' = [th EXCEPT ![c] = show]
            \/ th' = [th EXCEPT ![c] = last]
            \/ th' = [th EXCEPT ![c] = cut]
        BY <1>8, <2>8 DEF Frame, Becomes
      <3>2. StreamInv(show) /\ StreamInv(last) /\ StreamInv(cut)
        <4> HIDE DEF t, q, show, last, cut
        <4>1. th[c].made = th[c].shown + 1 + Unshown(Tail(q)) /\ th[c].shown \in Nat
          BY <2>1, <2>2, <2>8
        <4>2. StreamInv(show)
          BY <2>2, <2>4, <4>1 DEF StreamInv
        <4>3. StreamInv(last)
          BY <2>2, <2>5, <4>1 DEF StreamInv
        <4>4. StreamInv(cut)
          BY <2>2, <2>6, <4>1 DEF StreamInv
        <4> QED  BY <4>2, <4>3, <4>4
      <3>3. \E u : GoesOn(c, u)
        <4> HIDE DEF t, q, show, last, cut
        <4> QED  BY <2>4, <2>5, <2>6, <3>1, <3>2 DEF GoesOn
      <3> QED  BY <1>8, <2>1, <3>3 DEF Frame
    <2> QED  BY <2>7, <2>8
  <1>9. CASE StreamEnd(c)
    <2> DEFINE t == [th[c] EXCEPT !.at = "tail"]
    <2>1. /\ th[c].at = "stream" /\ ~th[c].ended /\ th[c].frames = <<>>
          /\ th[c].made = th[c].shown + Unshown(<<>>) /\ th[c].shown \in Nat
      BY <1>0, <1>9 DEF StreamEnd, ThreadType, StreamInv
    <2>2. t \in ThreadType /\ t.at = "tail" /\ t.shown = t.made
      <3>1. th[c].shown = th[c].made
        BY <2>1, NoFrames
      <3> QED  BY <1>0, <3>1 DEF ThreadType
    <2>3. StreamInv(t) /\ th' = [th EXCEPT ![c] = t]
      <3>1. t.shown \in Nat
        BY <1>0 DEF ThreadType
      <3> QED  BY <1>0, <1>9, <2>2, <3>1 DEF StreamInv, StreamEnd, Goes
    <2> QED  BY <1>9, <2>1, <2>2, <2>3 DEF GoesOn, StreamEnd
  <1>10. CASE SendFrame(c)
    <2> DEFINE q == th[c].frames
               t == [th[c] EXCEPT !.frames = Append(@, "tok"), !.made = @ + 1]
               p == [th[c] EXCEPT !.frames = <<"ping">>]
    <2>1. /\ th[c].at = "stream" /\ q \in Seq({"tok", "ping"}) /\ PingFirst(q)
          /\ ~th[c].ended /\ th[c].made = th[c].shown + Unshown(q)
          /\ th[c].made \in Nat /\ th[c].shown \in Nat
      BY <1>0, <1>10 DEF SendFrame, ThreadType, StreamInv
    <2>2. CASE th' = [th EXCEPT ![c].frames = Append(@, "tok"), ![c].made = @ + 1]
      <3>1. th' = [th EXCEPT ![c] = t]
        BY <1>0, <2>2
      <3>2. /\ Append(q, "tok") \in Seq({"tok", "ping"}) /\ PingFirst(Append(q, "tok"))
            /\ Unshown(Append(q, "tok")) = Unshown(q) + 1
        BY <2>1, FrameSent
      <3>3. /\ t \in ThreadType /\ t.at = "stream" /\ ~t.ended /\ t.frames = Append(q, "tok")
            /\ t.made = th[c].made + 1 /\ t.shown = th[c].shown
        <4>1. th[c].made + 1 \in Nat
          BY <2>1
        <4> QED  BY <1>0, <2>1, <3>2, <4>1 DEF ThreadType
      <3>4. StreamInv(t)
        <4>1. Unshown(q) \in Int
          BY <2>1 DEF Unshown
        <4> HIDE DEF t, q
        <4> QED  BY <2>1, <3>2, <3>3, <4>1 DEF StreamInv
      <3> QED  BY <1>10, <2>1, <3>1, <3>3, <3>4 DEF GoesOn, SendFrame
    <2>3. CASE th[c].made = 0 /\ th[c].frames = <<>> /\ th' = [th EXCEPT ![c].frames = <<"ping">>]
      <3>1. th' = [th EXCEPT ![c] = p]
        BY <1>0, <2>3
      <3>2. /\ p \in ThreadType /\ p.at = "stream" /\ ~p.ended /\ p.frames = <<"ping">>
            /\ p.made = th[c].made /\ p.shown = th[c].shown
        BY <1>0, <2>1, OnePing DEF ThreadType
      <3>3. StreamInv(p)
        <4> HIDE DEF p
        <4> QED  BY <2>1, <2>3, <3>2, NoFrames, OnePing DEF StreamInv
      <3> QED  BY <1>10, <2>1, <3>1, <3>2, <3>3 DEF GoesOn, SendFrame
    <2> QED  BY <1>10, <2>2, <2>3 DEF SendFrame
  <1>11. CASE PeerLeaves(c)
    <2> DEFINE t == [th[c] EXCEPT !.peer = FALSE]
    <2>1. t \in ThreadType /\ StreamInv(t) /\ t.at = th[c].at
      BY <1>0 DEF ThreadType, StreamInv
    <2>2. th' = [th EXCEPT ![c] = t] /\ th[c].at # "closed"
      BY <1>0, <1>11 DEF PeerLeaves, Threads
    <2> QED  BY <1>11, <2>1, <2>2 DEF GoesOn, PeerLeaves
  <1> QED
    BY <1>4, <1>5, <1>6, <1>7, <1>8, <1>9, <1>10, <1>11 DEF Thread

\* The counter, as a thread starts and as one ends.
LEMMA OneMore ==
  ASSUME NEW c, NEW S, IsFiniteSet(S), c \notin S
  PROVE  Cardinality(S \union {c}) = Cardinality(S) + 1
  BY FS_AddElement

LEMMA OneLess ==
  ASSUME NEW S, IsFiniteSet(S), NEW c \in S
  PROVE  Cardinality(S \ {c}) = Cardinality(S) - 1
  BY FS_RemoveElement

LEMMA ThreadsFinite ==
  /\ IsFiniteSet(Threads) /\ Cardinality(Threads) \in Nat
  /\ IsFiniteSet(Threads') /\ Cardinality(Threads') \in Nat
  <1>1. IsFiniteSet(Conn)
    BY FrontAssumption
  <1>2. Threads \subseteq Conn /\ Threads' \subseteq Conn
    BY DEF Threads
  <1> QED
    BY <1>1, <1>2, FS_Subset, FS_CardinalityType

\* A step that leaves every thread where it is keeps the count.
LEMMA SameThreads ==
  ASSUME ConnsCounted, UNCHANGED <<conns, refusing>>,
         \A c \in Conn : th'[c].at = th[c].at
  PROVE  ConnsCounted'
  <1>1. Threads' = Threads
    BY DEF Threads
  <1> QED
    BY <1>1 DEF ConnsCounted

LEMMA FrontInvInit ==
  ASSUME FrontInit
  PROVE  FrontInv
  <1>1. th \in [Conn -> ThreadType] /\ \A c \in Conn : StreamInv(th[c]) /\ th[c].at = "closed"
    BY ReaderIs DEF FrontInit
  <1>2. Threads = {}
    BY <1>1 DEF Threads
  <1>3. Cardinality(Threads) = 0
    BY <1>2, FS_EmptySet
  <1>4. ConnsCounted
    BY <1>3, FrontAssumption DEF FrontInit, ConnsCounted
  <1>5. jobs \in Seq(Conn) /\ Len(jobs) <= QMax
    BY FrontAssumption DEF FrontInit
  <1> QED
    BY <1>1, <1>4, <1>5 DEF FrontInit, FrontInv

LEMMA FrontInvStep ==
  ASSUME FrontInv, [FrontNext]_frontVars
  PROVE  FrontInv'
  <1> DEFINE Queued == /\ jobs \in Seq(Conn) /\ Len(jobs) <= QMax /\ taken \subseteq Conn
                       /\ engine \in {"up", "unwinding", "dead"}
                       /\ engine # "up" => jobs = <<>> /\ taken = {}
             InOrder == th \in [Conn -> ThreadType] /\ \A c \in Conn : StreamInv(th[c])
  <1>0. InOrder /\ Queued /\ refusing \in BOOLEAN /\ ConnsCounted
    BY DEF FrontInv
  <1>01. ASSUME InOrder', Queued', refusing' \in BOOLEAN, ConnsCounted'
         PROVE  FrontInv'
    BY <1>01 DEF FrontInv
  <1>1. CASE AcceptOver
    <2>1. InOrder' /\ Queued' /\ refusing' = TRUE
      BY <1>0, <1>1 DEF AcceptOver
    <2>2. ConnsCounted'
      <3>1. Threads' = Threads
        BY <1>1 DEF AcceptOver, Threads
      <3> QED  BY <1>0, <1>1, <3>1, ThreadsFinite DEF AcceptOver, ConnsCounted
    <2> QED  BY <1>01, <2>1, <2>2
  <1>2. CASE Refuse
    <2>1. InOrder' /\ Queued' /\ refusing' = FALSE
      BY <1>0, <1>2 DEF Refuse
    <2>2. ConnsCounted'
      <3>1. Threads' = Threads
        BY <1>2 DEF Refuse, Threads
      <3> QED  BY <1>0, <1>2, <3>1, ThreadsFinite DEF Refuse, ConnsCounted
    <2> QED  BY <1>01, <2>1, <2>2
  <1>3. CASE Take
    <2>1. Head(jobs) \in Conn /\ Tail(jobs) \in Seq(Conn) /\ Len(Tail(jobs)) = Len(jobs) - 1
      BY <1>0, <1>3, HeadTailProperties DEF Take
    <2>2. Len(jobs) \in Nat
      BY <1>0
    <2>3. Queued'
      BY <1>0, <1>3, <2>1, <2>2, FrontAssumption DEF Take
    <2>4. InOrder' /\ refusing' \in BOOLEAN
      BY <1>0, <1>3 DEF Take
    <2>5. ConnsCounted'
      BY <1>0, <1>3, SameThreads DEF Take
    <2> QED  BY <1>01, <2>3, <2>4, <2>5
  <1>4. CASE Panic
    <2>1. Queued'
      BY <1>4, FrontAssumption DEF Panic
    <2>2. ASSUME NEW c \in Conn
          PROVE  /\ th'[c] \in ThreadType /\ StreamInv(th'[c])
                 /\ th'[c].at = th[c].at
      <3> DEFINE t == [th[c] EXCEPT !.result = "closed"]
      <3>1. th[c] \in ThreadType /\ StreamInv(th[c])
        BY <1>0
      <3>2. t \in ThreadType /\ StreamInv(t) /\ t.at = th[c].at
        BY <3>1 DEF ThreadType, StreamInv
      <3>3. th'[c] = t \/ th'[c] = th[c]
        BY <1>4 DEF Panic
      <3> QED  BY <3>1, <3>2, <3>3
    <2>3. th' \in [Conn -> ThreadType]
      <3>1. DOMAIN th' = Conn /\ th' = [c \in Conn |-> th'[c]]
        BY <1>4 DEF Panic
      <3> QED  BY <2>2, <3>1
    <2>4. ConnsCounted'
      BY <1>0, <1>4, <2>2, SameThreads DEF Panic
    <2>5. refusing' \in BOOLEAN
      BY <1>0, <1>4 DEF Panic
    <2> QED  BY <1>01, <2>1, <2>2, <2>3, <2>4, <2>5
  <1>5. CASE Unwound
    <2>1. InOrder' /\ Queued' /\ refusing' \in BOOLEAN
      BY <1>0, <1>5 DEF Unwound
    <2>2. ConnsCounted'
      BY <1>0, <1>5, SameThreads DEF Unwound
    <2> QED  BY <1>01, <2>1, <2>2
  <1>6. ASSUME NEW c \in Conn, Accept(c)
        PROVE  FrontInv'
    <2>1. /\ th' \in [Conn -> ThreadType]
          /\ \A d \in Conn : th'[d] = IF d = c THEN Reader ELSE th[d]
      BY <1>0, <1>6, ReaderIs DEF Accept, Becomes
    <2>2. InOrder' /\ Queued' /\ refusing' \in BOOLEAN
      BY <1>0, <1>6, <2>1, ReaderIs DEF Accept
    <2>3. Threads' = Threads \union {c} /\ c \notin Threads
      BY <1>6, <2>1, ReaderIs DEF Accept, Threads
    <2>4. Cardinality(Threads') = Cardinality(Threads) + 1
      BY <2>3, ThreadsFinite, OneMore
    <2>5. ConnsCounted'
      BY <1>0, <1>6, <2>4, ThreadsFinite, FrontAssumption DEF Accept, ConnsCounted
    <2> QED  BY <1>01, <2>2, <2>5
  <1>7. ASSUME NEW c \in Conn, Close(c)
        PROVE  FrontInv'
    <2>1. /\ th' \in [Conn -> ThreadType]
          /\ \A d \in Conn : th'[d] = IF d = c THEN Closed ELSE th[d]
      BY <1>0, <1>7, ReaderIs DEF Close, Becomes
    <2>2. InOrder' /\ Queued' /\ refusing' \in BOOLEAN
      BY <1>0, <1>7, <2>1, ReaderIs DEF Close
    <2>3. Threads' = Threads \ {c} /\ c \in Threads
      BY <1>7, <2>1, ReaderIs DEF Close, Threads
    <2>4. Cardinality(Threads') = Cardinality(Threads) - 1
      BY <2>3, ThreadsFinite, OneLess
    <2>5. ConnsCounted'
      BY <1>0, <1>7, <2>4, ThreadsFinite, FrontAssumption DEF Close, ConnsCounted
    <2> QED  BY <1>01, <2>2, <2>5
  <1>8. ASSUME NEW c \in Conn, Request(c) \/ Thread(c) \/ SendFrame(c) \/ PeerLeaves(c)
        PROVE  FrontInv'
    <2>1. /\ (\E t : GoesOn(c, t)) \/ th' = th
          /\ th[c].at # "closed" /\ UNCHANGED <<conns, refusing, engine, taken>>
      BY <1>8, ThreadGoesOn
    <2>2. InOrder' /\ ConnsCounted'
      <3>1. CASE th' = th
        BY <1>0, <2>1, <3>1, SameThreads
      <3>2. CASE \E t : GoesOn(c, t)
        <4>1. PICK t : GoesOn(c, t)
          BY <3>2
        <4> QED  BY <1>0, <2>1, <4>1, GoesOnKeeps
      <3> QED  BY <2>1, <3>1, <3>2
    <2>3. \/ jobs' = jobs
          \/ engine = "up" /\ Len(jobs) < QMax /\ jobs' = Append(jobs, c)
      BY <1>8 DEF Request, Thread, SendFrame, PeerLeaves, Enqueue, EnqueueErr, Await, GiveUp,
                  Frame, StreamEnd, StreamDone
    <2>4. Queued'
      <3>1. Append(jobs, c) \in Seq(Conn) /\ Len(Append(jobs, c)) = Len(jobs) + 1 /\ Len(jobs) \in Nat
        BY <1>0, AppendProperties
      <3> QED  BY <1>0, <2>1, <2>3, <3>1, FrontAssumption
    <2> QED  BY <1>0, <1>01, <2>1, <2>2, <2>4
  <1>9. ASSUME NEW c \in Conn, FinishJob(c)
        PROVE  FrontInv'
    <2>1. Queued' /\ refusing' \in BOOLEAN
      BY <1>0, <1>9 DEF FinishJob
    <2>2. PICK r \in {"tokens", "error"} : th' = [th EXCEPT ![c].result = r] \/ th' = th
      BY <1>9 DEF FinishJob
    <2>3. CASE th' = th
      BY <1>0, <1>01, <1>9, <2>1, <2>3, SameThreads DEF FinishJob
    <2>4. CASE th' = [th EXCEPT ![c].result = r]
      <3> DEFINE t == [th[c] EXCEPT !.result = r]
      <3>1. t \in ThreadType /\ StreamInv(t) /\ t.at = th[c].at
        BY <1>0 DEF ThreadType, StreamInv
      <3>2. /\ th' \in [Conn -> ThreadType]
            /\ \A d \in Conn : th'[d] = IF d = c THEN t ELSE th[d]
        BY <1>0, <2>4, <3>1
      <3>3. InOrder' /\ \A d \in Conn : th'[d].at = th[d].at
        <4> HIDE DEF t
        <4> QED  BY <1>0, <3>1, <3>2
      <3>4. ConnsCounted'
        BY <1>0, <1>9, <3>3, SameThreads DEF FinishJob
      <3> QED  BY <1>01, <2>1, <3>3, <3>4
    <2> QED  BY <2>2, <2>3, <2>4
  <1>10. CASE UNCHANGED frontVars
    <2>1. InOrder' /\ Queued' /\ refusing' \in BOOLEAN
      BY <1>0, <1>10 DEF frontVars
    <2>2. ConnsCounted'
      BY <1>0, <1>10, SameThreads DEF frontVars
    <2> QED  BY <1>01, <2>1, <2>2
  <1> QED
    BY <1>1, <1>2, <1>3, <1>4, <1>5, <1>6, <1>7, <1>8, <1>9, <1>10 DEF FrontNext

LEMMA FrontInvariant == FrontSpec => []FrontInv
  BY FrontInvInit, FrontInvStep, PTL DEF FrontSpec

(***************************************************************************)
(* The counter of connections is the number of live threads (and the one   *)
(* being refused), whatever order requests, answers, panics of the engine  *)
(* and departures of clients come in: serve never refuses everybody for    *)
(* good (http.rs, ConnGuard).                                              *)
(***************************************************************************)
THEOREM ConnectionsCounted == FrontSpec => []ConnsCounted
  <1>1. FrontInv => ConnsCounted
    BY DEF FrontInv
  <1> QED
    BY <1>1, FrontInvariant, PTL

(***************************************************************************)
(* A stream that ends well showed every token of the answer, for answers   *)
(* and channels of any length: the result, which comes over a channel of   *)
(* its own, overtakes no frame (run_and_emit of oai).                      *)
(***************************************************************************)
THEOREM StreamsWhole == FrontSpec => []StreamWhole
  <1>1. FrontInv => StreamWhole
    BY DEF FrontInv, StreamInv, StreamWhole
  <1> QED
    BY <1>1, FrontInvariant, PTL

-----------------------------------------------------------------------------
(***************************************************************************)
(* DecodeRounds.  Agreeing with the greedy continuation, token by token.   *)
(***************************************************************************)
Agrees(q) == Len(q) <= TruthLen /\ \A i \in 1 .. Len(q) : q[i] = truth[i]

TruthIs == truth \in [1 .. TruthLen -> Token] /\ predict \in 0 .. PredictMax

LEMMA BoundsAre == PredictMax \in Nat \ {0} /\ KMax \in Nat /\ DraftMax \in Nat /\ TruthLen \in Nat
  BY RoundsAssumption DEF TruthLen

LEMMA PrefixAgrees ==
  ASSUME TruthIs, NEW q \in Seq(Token)
  PROVE  IsPrefix(q, truth) <=> Agrees(q)
  <1>1. TruthLen \in Nat /\ truth \in Seq(Token) /\ Len(truth) = TruthLen
    BY BoundsAre DEF TruthIs
  <1>2. Len(q) \in Nat /\ SubSeq(q, 1, Len(q)) = q
    BY SubSeqFull
  <1>3. CASE Len(q) <= TruthLen
    <2>1. /\ SubSeq(truth, 1, Len(q)) \in Seq(Token) /\ Len(SubSeq(truth, 1, Len(q))) = Len(q)
          /\ \A i \in 1 .. Len(q) : SubSeq(truth, 1, Len(q))[i] = truth[i]
      BY <1>1, <1>2, <1>3, FirstOnes
    <2>2. ASSUME Agrees(q)
          PROVE  q = SubSeq(truth, 1, Len(q))
      BY <2>1, <2>2, SeqEqual DEF Agrees
    <2>3. ASSUME q = SubSeq(truth, 1, Len(q))
          PROVE  Agrees(q)
      BY <1>3, <2>1, <2>3 DEF Agrees
    <2> QED  BY <1>1, <1>2, <1>3, <2>2, <2>3 DEF IsPrefix
  <1>4. CASE ~(Len(q) <= TruthLen)
    BY <1>1, <1>4 DEF IsPrefix, Agrees
  <1> QED
    BY <1>3, <1>4

\* Says never says what is no token, and continues the truth when it is greedy.
LEMMA SaysTokens ==
  ASSUME TruthIs, NEW rows \in Seq(Token), NEW x \in Says(rows)
  PROVE  /\ x \in Token
         /\ ~sampled /\ Agrees(rows) /\ Len(rows) < TruthLen => x = truth[Len(rows) + 1]
  <1>1. Len(rows) \in Nat
    OBVIOUS
  <1>2. IsPrefix(rows, truth) <=> Agrees(rows)
    BY PrefixAgrees
  <1>3. CASE ~sampled /\ IsPrefix(rows, truth) /\ Len(rows) < TruthLen
    <2>1. x = truth[Len(rows) + 1]
      BY <1>3 DEF Says
    <2>2. Len(rows) + 1 \in 1 .. TruthLen
      BY <1>1, <1>3, BoundsAre
    <2> QED  BY <2>1, <2>2 DEF TruthIs
  <1>4. CASE ~(~sampled /\ IsPrefix(rows, truth) /\ Len(rows) < TruthLen)
    BY <1>2, <1>4 DEF Says
  <1> QED
    BY <1>3, <1>4

(***************************************************************************)
(* What is said after each of the tokens said before it follows the truth. *)
(***************************************************************************)
LEMMA FollowsTruth ==
  ASSUME TruthIs, ~sampled, NEW e \in Seq(Token), Agrees(e), NEW ts \in Seq(Token),
         Len(e) + Len(ts) <= TruthLen,
         \A i \in 1 .. Len(ts) : ts[i] \in Says(e \o SubSeq(ts, 1, i - 1))
  PROVE  IsPrefix(e \o ts, truth)
  <1>1. Len(e) \in Nat /\ Len(ts) \in Nat /\ TruthLen \in Nat
    BY BoundsAre
  <1>2. \A i \in 1 .. Len(ts) : ts[i] = truth[Len(e) + i]
    <2> DEFINE Wrong == {i \in 1 .. Len(ts) : ts[i] # truth[Len(e) + i]}
    <2> SUFFICES ASSUME Wrong # {} PROVE FALSE
      OBVIOUS
    <2>1. Wrong \in SUBSET Nat
      OBVIOUS
    <2>2. PICK i \in Wrong : \A j \in Wrong : i <= j
      <3> HIDE DEF Wrong
      <3> QED  BY <2>1, MinOfNats
    <2>3. i \in 1 .. Len(ts) /\ i \in Nat /\ i - 1 \in 0 .. Len(ts)
      BY <1>1
    <2> DEFINE f == SubSeq(ts, 1, i - 1)
               r == e \o f
    <2>4. f \in Seq(Token) /\ Len(f) = i - 1 /\ \A j \in 1 .. i - 1 : f[j] = ts[j]
      BY <2>3, FirstOnes
    <2>5. \A j \in 1 .. i - 1 : f[j] = truth[Len(e) + j]
      <3>1. \A j \in 1 .. i - 1 : j \in 1 .. Len(ts) /\ ~(i <= j)
        BY <1>1, <2>3
      <3>2. \A j \in 1 .. i - 1 : j \notin Wrong
        BY <2>2, <3>1
      <3> QED  BY <2>4, <3>1, <3>2
    <2> HIDE DEF f
    <2>6. /\ r \in Seq(Token) /\ Len(r) = Len(e) + Len(f)
          /\ \A j \in 1 .. Len(e) + Len(f) : r[j] = IF j <= Len(e) THEN e[j] ELSE f[j - Len(e)]
      BY <2>4, ConcatProperties
    <2> HIDE DEF r
    <2>7. Len(r) = Len(e) + i - 1 /\ Len(r) < TruthLen
      BY <1>1, <2>3, <2>4, <2>6
    <2>8. ASSUME NEW j \in 1 .. Len(r)
          PROVE  r[j] = truth[j]
      <3>1. CASE j <= Len(e)
        BY <1>1, <2>4, <2>6, <2>7, <3>1 DEF Agrees
      <3>2. CASE ~(j <= Len(e))
        <4>1. j - Len(e) \in 1 .. i - 1 /\ Len(e) + (j - Len(e)) = j
          BY <1>1, <2>3, <2>7, <3>2
        <4>2. r[j] = f[j - Len(e)]
          BY <2>6, <3>2
        <4> QED  BY <2>5, <4>1, <4>2
      <3> QED  BY <3>1, <3>2
    <2>9. Agrees(r)
      BY <2>7, <2>8, <1>1 DEF Agrees
    <2>10. ts[i] = truth[Len(r) + 1]
      <3>1. ts[i] \in Says(r)
        BY <2>3 DEF r, f
      <3> QED  BY <2>6, <2>7, <2>9, <3>1, SaysTokens
    <2>11. Len(r) + 1 = Len(e) + i
      BY <1>1, <2>3, <2>7
    <2> QED  BY <2>2, <2>10, <2>11
  <1>3. /\ e \o ts \in Seq(Token) /\ Len(e \o ts) = Len(e) + Len(ts)
        /\ \A i \in 1 .. Len(e) + Len(ts) : (e \o ts)[i] = IF i <= Len(e) THEN e[i] ELSE ts[i - Len(e)]
    BY ConcatProperties
  <1>4. ASSUME NEW i \in 1 .. Len(e) + Len(ts)
        PROVE  (e \o ts)[i] = truth[i]
    <2>1. CASE i <= Len(e)
      BY <1>1, <1>3, <2>1 DEF Agrees
    <2>2. CASE ~(i <= Len(e))
      <3>1. i - Len(e) \in 1 .. Len(ts) /\ Len(e) + (i - Len(e)) = i
        BY <1>1, <2>2
      <3> QED  BY <1>2, <1>3, <2>2, <3>1
    <2> QED  BY <2>1, <2>2
  <1>5. Agrees(e \o ts)
    BY <1>3, <1>4 DEF Agrees
  <1> QED
    BY <1>3, <1>5, PrefixAgrees

(***************************************************************************)
(* The rounds.  Whatever the round, it emits tokens that continue the      *)
(* conversation and leaves the rows of all of them but the last.           *)
(***************************************************************************)
Halting == Stops \cup {Eos}

Free(q) == \A i \in 1 .. Len(q) : q[i] \notin Halting

(***************************************************************************)
(* No round emits a stop token and goes on in the same breath: drafts hold *)
(* none, and k-steps, which end at Eos only, have no other to meet.        *)
(***************************************************************************)
StopsSeen == DraftTokens \cap Halting = {} /\ (KMax < 2 \/ Stops \subseteq {Eos})

RoundsInv ==
    /\ TruthIs
    /\ fed \in Seq(Token) /\ emitted \in Seq(Token)
    /\ phase = "prefill" => fed = <<>> /\ emitted = <<>>
    /\ phase \in {"decode", "done"} => emitted # <<>> /\ fed = Front(emitted)
    /\ Lossless
    /\ StopsSeen /\ ~sampled /\ phase = "decode" => Free(emitted)
    /\ StopsSeen /\ ~sampled /\ phase = "done" =>
          Free(Front(emitted)) /\ Done(emitted) /\ answer = AnswerOf(emitted)

Round(ts) ==
    /\ ts \in Seq(Token) /\ ts # <<>>
    /\ fed' = Front(emitted \o ts)
    /\ Emit(ts)
    /\ ~sampled => IsPrefix(emitted \o ts, truth)
    /\ StopsSeen /\ ~sampled => Free(Front(ts))
    /\ UNCHANGED request

LEMMA DecodingIs ==
  ASSUME RoundsInv, Decoding
  PROVE  /\ emitted \in Seq(Token) /\ emitted # <<>> /\ fed \in Seq(Token)
         /\ fed = Front(emitted) /\ fed \o Next1 = emitted
         /\ Next1 \in Seq(Token) /\ Len(emitted) + 1 <= TruthLen /\ Len(emitted) \in Nat \ {0}
         /\ ~sampled => Agrees(emitted)
         /\ TruthIs
  <1>1. emitted \in Seq(Token) /\ emitted # <<>> /\ fed = Front(emitted) /\ TruthIs
    BY DEF RoundsInv, Decoding
  <1>2. Next1 \in Seq(Token) /\ Len(emitted) \in Nat \ {0}
    BY <1>1, FrontIs DEF Next1
  <1>3. \E ts \in Seq(Token) : ts # <<>>
    BY <1>1
  <1>4. fed \o Next1 = emitted
    BY <1>1, <1>3, EmitsRows DEF Next1
  <1>5. ~sampled => Agrees(emitted)
    BY <1>1, PrefixAgrees DEF RoundsInv, Lossless
  <1> QED
    BY <1>1, <1>2, <1>4, <1>5 DEF RoundsInv, Decoding, Room

\* What was emitted is followed by the tokens of a round.
LEMMA RoundIs ==
  ASSUME RoundsInv, Decoding, NEW ts \in Seq(Token), ts # <<>>,
         fed' = fed \o (Next1 \o Front(ts)), Emit(ts), UNCHANGED request,
         ~sampled => /\ Len(emitted) + Len(ts) <= TruthLen
                     /\ \A i \in 1 .. Len(ts) : ts[i] \in Says(emitted \o SubSeq(ts, 1, i - 1)),
         StopsSeen /\ ~sampled => Free(Front(ts))
  PROVE  Round(ts)
  <1>1. emitted \in Seq(Token) /\ emitted # <<>> /\ fed = Front(emitted) /\ TruthIs
    BY DecodingIs
  <1>2. fed' = Front(emitted \o ts)
    BY <1>1, EmitsRows DEF Next1
  <1>3. ~sampled => IsPrefix(emitted \o ts, truth)
    BY <1>1, DecodingIs, FollowsTruth
  <1> QED
    BY <1>2, <1>3 DEF Round

\* A round of one token.
LEMMA OneToken ==
  ASSUME NEW x \in Token
  PROVE  /\ <<x>> \in Seq(Token) /\ <<x>> # <<>> /\ Len(<<x>>) = 1 /\ <<x>>[1] = x
         /\ Front(<<x>>) = <<>> /\ Free(Front(<<x>>))
         /\ \A S : \A q \in Seq(S) : q \o <<>> = q
         /\ SubSeq(<<x>>, 1, 0) = <<>>
  <1>1. <<x>> \in Seq(Token) /\ <<x>> # <<>> /\ Len(<<x>>) = 1 /\ <<x>>[1] = x
    OBVIOUS
  <1>2. SubSeq(<<x>>, 1, 0) = <<>>
    BY SubSeqEmpty
  <1>3. Front(<<x>>) = <<>>
    BY <1>1, <1>2 DEF Front
  <1>4. Free(<<>>)
    <2>1. Len(<<>>) = 0
      OBVIOUS
    <2> QED  BY <2>1 DEF Free
  <1> QED
    BY <1>1, <1>2, <1>3, <1>4, ConcatEmptySeq

LEMMA PrefillRounds ==
  ASSUME RoundsInv, Prefill
  PROVE  \E ts : Round(ts)
  <1>1. TruthIs /\ emitted = <<>> /\ fed = <<>> /\ fed' = <<>> /\ UNCHANGED request
    BY DEF RoundsInv, Prefill
  <1>2. PICK x \in Says(<<>>) : Emit(<<x>>)
    BY DEF Prefill
  <1>3. <<>> \in Seq(Token) /\ Len(<<>>) = 0
    OBVIOUS
  <1>4. x \in Token
    BY <1>1, <1>3, SaysTokens
  <1>5. <<>> \o <<x>> = <<x>>
    BY <1>4, OneToken, ConcatEmptySeq
  <1>6. ~sampled => IsPrefix(<<x>>, truth)
    <2> SUFFICES ASSUME ~sampled PROVE IsPrefix(<<x>>, truth)
      OBVIOUS
    <2>1. Agrees(<<>>) /\ 0 < TruthLen /\ 0 + 1 = 1
      BY <1>3, RoundsAssumption DEF Agrees, TruthLen
    <2>2. x = truth[1]
      BY <1>1, <1>3, <2>1, SaysTokens
    <2>3. Agrees(<<x>>)
      BY <1>4, <2>1, <2>2, OneToken, BoundsAre DEF Agrees
    <2> QED  BY <1>1, <1>4, <2>3, OneToken, PrefixAgrees
  <1> QED
    BY <1>1, <1>2, <1>4, <1>5, <1>6, OneToken DEF Round

LEMMA SingleRounds ==
  ASSUME RoundsInv, Single
  PROVE  \E ts : Round(ts)
  <1>1. Decoding /\ fed' = fed \o Next1 /\ UNCHANGED request
    BY DEF Single
  <1>2. PICK x \in Says(emitted) : Emit(<<x>>)
    BY <1>1, DecodingIs DEF Single
  <1>3. x \in Token
    BY <1>1, <1>2, DecodingIs, SaysTokens
  <1>4. fed' = fed \o (Next1 \o Front(<<x>>))
    BY <1>1, <1>3, OneToken, DecodingIs
  <1>5. \A i \in 1 .. Len(<<x>>) : <<x>>[i] \in Says(emitted \o SubSeq(<<x>>, 1, i - 1))
    <2> SUFFICES ASSUME NEW i \in 1 .. Len(<<x>>)
                 PROVE  <<x>>[i] \in Says(emitted \o SubSeq(<<x>>, 1, i - 1))
      OBVIOUS
    <2>1. i = 1 /\ i - 1 = 0
      BY <1>3, OneToken
    <2>2. emitted \o SubSeq(<<x>>, 1, 0) = emitted
      BY <1>1, <1>3, OneToken, DecodingIs
    <2> QED  BY <1>2, <2>1, <2>2
  <1>6. Len(emitted) + Len(<<x>>) <= TruthLen
    BY <1>1, <1>3, OneToken, DecodingIs
  <1>7. <<x>> \in Seq(Token) /\ <<x>> # <<>> /\ Free(Front(<<x>>))
    BY <1>3, OneToken
  <1>8. Round(<<x>>)
    BY <1>1, <1>2, <1>4, <1>5, <1>6, <1>7, RoundIs
  <1> QED
    BY <1>8

\* Where the steps of a k-step stop.
LEMMA UptoIs ==
  ASSUME NEW xs \in Seq(Token), xs # <<>>
  PROVE  /\ Upto(xs) \in 1 .. Len(xs)
         /\ \A i \in 1 .. Upto(xs) - 1 : xs[i] # Eos
  <1>1. Len(xs) \in Nat \ {0} /\ DOMAIN xs = 1 .. Len(xs)
    BY EmptySeq, LenProperties
  <1>2. CASE Eos \in ToSet(xs)
    <2> DEFINE E == {i \in DOMAIN xs : xs[i] = Eos}
    <2>1. E \in SUBSET Nat /\ E # {} /\ E \subseteq 1 .. Len(xs)
      BY <1>1, <1>2 DEF ToSet
    <2>2. Min(E) \in E /\ \A y \in E : Min(E) <= y
      <3> HIDE DEF E
      <3> QED  BY <2>1, MinOfNats
    <2>3. Upto(xs) = Min(E)
      BY <1>2 DEF Upto
    <2>4. ASSUME NEW i \in 1 .. Upto(xs) - 1
          PROVE  xs[i] # Eos
      <3>1. Upto(xs) \in 1 .. Len(xs)
        BY <2>1, <2>2, <2>3
      <3>2. i \in DOMAIN xs /\ ~(Upto(xs) <= i)
        BY <1>1, <3>1
      <3> QED  BY <2>2, <2>3, <3>2
    <2> QED  BY <2>1, <2>2, <2>3, <2>4
  <1>3. CASE Eos \notin ToSet(xs)
    <2>1. Upto(xs) = Len(xs)
      BY <1>3 DEF Upto
    <2>2. \A i \in 1 .. Len(xs) : xs[i] # Eos
      BY <1>1, <1>3 DEF ToSet
    <2> QED  BY <1>1, <2>1, <2>2
  <1> QED
    BY <1>2, <1>3

LEMMA KStepRounds ==
  ASSUME RoundsInv, NEW xs \in BoundedSeq(Token, KMax), KStep(xs)
  PROVE  \E ts : Round(ts)
  <1>1. Decoding /\ ~sampled /\ Len(xs) \in 2 .. KSteps /\ UNCHANGED request
    BY DEF KStep
  <1>2. PICK n \in 0 .. KMax : xs \in [1 .. n -> Token]
    BY BoundsAre DEF BoundedSeq, SeqOf
  <1>3. xs \in Seq(Token) /\ Len(xs) = n /\ Len(xs) \in Nat
    BY <1>2, BoundsAre
  <1>4. emitted \in Seq(Token) /\ fed \o Next1 = emitted /\ Len(emitted) \in Nat /\ TruthIs
    BY <1>1, DecodingIs
  <1>5. Len(xs) >= 2 /\ Len(xs) <= KMax /\ Len(xs) <= predict - Len(emitted)
    <2>1. predict \in Int /\ KMax \in Int
      BY <1>4, BoundsAre DEF TruthIs
    <2>2. KSteps = IF KMax <= predict - Len(emitted) THEN KMax ELSE predict - Len(emitted)
      BY <1>4, <2>1, MinOfTwo DEF KSteps
    <2>3. KSteps \in Int /\ KSteps <= KMax /\ KSteps <= predict - Len(emitted)
      BY <1>4, <2>1, <2>2
    <2> QED  BY <1>1, <1>3, <2>1, <2>3
  <1> DEFINE u == Upto(xs)
             ts == SubSeq(xs, 1, u)
  <1>6. u \in 1 .. Len(xs) /\ \A i \in 1 .. u - 1 : xs[i] # Eos
    <2>1. xs # <<>>
      BY <1>3, <1>5
    <2> QED  BY <1>3, <2>1, UptoIs
  <1> HIDE DEF u
  <1>7. /\ ts \in Seq(Token) /\ Len(ts) = u /\ ts # <<>> /\ Front(ts) = SubSeq(xs, 1, u - 1)
        /\ \A i \in 1 .. u : ts[i] = xs[i]
    BY <1>3, <1>6, FirstOnes, FrontOfFirst
  <1>8. fed' = fed \o (Next1 \o Front(ts))
    <2>1. fed' = fed \o Next1 \o Front(ts)
      BY <1>7 DEF KStep, u
    <2>2. Front(ts) \in Seq(Token)
      BY <1>7, FrontIs
    <2>3. fed \in Seq(Token) /\ Next1 \in Seq(Token)
      BY <1>1, DecodingIs
    <2> DEFINE g == Front(ts)
    <2> HIDE DEF g
    <2>4. (fed \o Next1) \o g = fed \o (Next1 \o g)
      BY <2>2, <2>3, ConcatAssociative DEF g
    <2> QED  BY <2>1, <2>4 DEF g
  <1>9. Len(emitted) + Len(ts) <= TruthLen
    <2>1. predict <= TruthLen /\ predict \in Nat
      BY <1>4, BoundsAre DEF TruthIs, TruthLen
    <2> QED  BY <1>3, <1>4, <1>5, <1>6, <1>7, <2>1, BoundsAre
  <1>10. ASSUME NEW i \in 1 .. Len(ts)
         PROVE  ts[i] \in Says(emitted \o SubSeq(ts, 1, i - 1))
    <2>1. i \in 1 .. u /\ i \in DOMAIN xs /\ i - 1 \in 0 .. u
      BY <1>3, <1>6, <1>7
    <2>2. xs[i] \in Says(emitted \o SubSeq(xs, 1, i - 1))
      BY <1>4, <2>1 DEF KStep
    <2>3. SubSeq(ts, 1, i - 1) = SubSeq(xs, 1, i - 1)
      <3>1. u \in 0 .. Len(xs)
        BY <1>6
      <3> QED  BY <1>3, <2>1, <3>1, FirstOfFirst
    <2> QED  BY <1>7, <2>1, <2>2, <2>3
  <1>11. ASSUME StopsSeen
         PROVE  Free(Front(ts))
    <2>1. Stops \subseteq {Eos}
      BY <1>3, <1>5, <1>11, BoundsAre DEF StopsSeen
    <2>2. Len(Front(ts)) = u - 1 /\ \A i \in 1 .. u - 1 : Front(ts)[i] = xs[i]
      BY <1>6, <1>7, FrontIs
    <2> QED  BY <1>6, <2>1, <2>2 DEF Free, Halting
  <1>12. Emit(ts)
    BY DEF KStep, u
  <1> HIDE DEF ts
  <1>13. Round(ts)
    BY <1>1, <1>7, <1>8, <1>9, <1>10, <1>11, <1>12, RoundIs
  <1> QED
    BY <1>13

\* How far a draft is accepted.
LEMMA AcceptedIs ==
  ASSUME NEW draft \in Seq(Token), NEW spoken
  PROVE  /\ Accepted(draft, spoken) \in 0 .. Len(draft)
         /\ \A i \in 1 .. Accepted(draft, spoken) : spoken[i] = draft[i]
  <1> DEFINE A == {a \in 0 .. Len(draft) : \A i \in 1 .. a : spoken[i] = draft[i]}
  <1>1. Len(draft) \in Nat
    OBVIOUS
  <1>2. A \in SUBSET (0 .. Len(draft)) /\ 0 \in A
    BY <1>1
  <1>3. Max(A) \in A
    <2> HIDE DEF A
    <2> QED  BY <1>1, <1>2, MaxUpTo
  <1> QED
    BY <1>3 DEF Accepted

\* A draft, and how much of it there is.
LEMMA DraftIs ==
  ASSUME NEW draft \in BoundedSeq(DraftTokens, DraftMax)
  PROVE  /\ draft \in Seq(Token) /\ Len(draft) \in Nat
         /\ \A i \in 1 .. Len(draft) : draft[i] \in DraftTokens
  <1>1. PICK n \in 0 .. DraftMax : draft \in [1 .. n -> DraftTokens]
    BY BoundsAre DEF BoundedSeq, SeqOf
  <1>2. draft \in Seq(DraftTokens) /\ Len(draft) = n
    BY <1>1, BoundsAre
  <1>3. draft \in Seq(Token)
    BY <1>2, RoundsAssumption, SeqMonotonic
  <1> QED
    BY <1>1, <1>2, <1>3, BoundsAre

LEMMA VerifyRounds ==
  ASSUME RoundsInv, NEW draft \in BoundedSeq(DraftTokens, DraftMax),
         NEW spoken \in [1 .. 1 + Len(draft) -> Token], Verify(draft, spoken)
  PROVE  \E ts : Round(ts)
  <1> DEFINE agreed == Accepted(draft, spoken)
             kept == SubSeq(draft, 1, agreed)
             x == spoken[agreed + 1]
             ts == Append(kept, x)
  <1>1. /\ Decoding /\ ~sampled /\ UNCHANGED request /\ Room(Len(spoken)) /\ Len(spoken) = 1 + Len(draft)
        /\ \A i \in DOMAIN spoken : spoken[i] \in Says(fed \o Next1 \o SubSeq(draft, 1, i - 1))
        /\ fed' = fed \o (Next1 \o kept) /\ Emit(ts)
    BY DEF Verify, Kept
  <1>2. draft \in Seq(Token) /\ Len(draft) \in Nat /\ \A i \in 1 .. Len(draft) : draft[i] \in DraftTokens
    BY DraftIs
  <1>3. agreed \in 0 .. Len(draft) /\ \A i \in 1 .. agreed : spoken[i] = draft[i]
    BY <1>2, AcceptedIs
  <1>4. emitted \in Seq(Token) /\ fed \o Next1 = emitted /\ Len(emitted) \in Nat
    BY <1>1, DecodingIs
  <1> HIDE DEF agreed
  <1>5. kept \in Seq(Token) /\ Len(kept) = agreed /\ \A i \in 1 .. agreed : kept[i] = draft[i]
    BY <1>2, <1>3, FirstOnes
  <1>6. x \in Token /\ agreed + 1 \in DOMAIN spoken /\ DOMAIN spoken = 1 .. 1 + Len(draft)
    BY <1>2, <1>3
  <1>7. ASSUME NEW n \in 0 .. agreed
        PROVE  SubSeq(kept, 1, n) = SubSeq(draft, 1, n)
    BY <1>2, <1>3, FirstOfFirst
  <1> HIDE DEF kept, x
  <1>8. /\ ts \in Seq(Token) /\ ts # <<>> /\ Front(ts) = kept /\ Len(ts) = agreed + 1 /\ ts[agreed + 1] = x
        /\ \A i \in 1 .. agreed : ts[i] = kept[i]
        /\ \A n \in 0 .. agreed : SubSeq(ts, 1, n) = SubSeq(kept, 1, n)
    BY <1>5, <1>6, FrontOfAppend
  <1> HIDE DEF ts
  <1>9. Len(emitted) + Len(ts) <= TruthLen
    BY <1>1, <1>2, <1>3, <1>4, <1>8, BoundsAre DEF Room
  <1>10. ASSUME NEW i \in 1 .. Len(ts)
         PROVE  ts[i] \in Says(emitted \o SubSeq(ts, 1, i - 1))
    <2>1. i \in 1 .. agreed + 1 /\ i - 1 \in 0 .. agreed /\ i \in DOMAIN spoken
      BY <1>2, <1>3, <1>6, <1>8
    <2>2. ts[i] = spoken[i]
      <3>1. CASE i = agreed + 1
        BY <1>8, <3>1 DEF x
      <3>2. CASE i \in 1 .. agreed
        BY <1>3, <1>5, <1>8, <3>2
      <3> QED  BY <1>3, <2>1, <3>1, <3>2
    <2>3. SubSeq(ts, 1, i - 1) = SubSeq(draft, 1, i - 1)
      BY <1>7, <1>8, <2>1
    <2> QED  BY <1>1, <1>4, <2>1, <2>2, <2>3
  <1>11. ASSUME StopsSeen
         PROVE  Free(Front(ts))
    <2>1. ASSUME NEW i \in 1 .. agreed
          PROVE  kept[i] \notin Halting
      <3>1. i \in 1 .. Len(draft) /\ kept[i] = draft[i]
        BY <1>2, <1>3, <1>5
      <3> QED  BY <1>2, <1>11, <3>1 DEF StopsSeen
    <2> QED  BY <1>5, <1>8, <2>1 DEF Free
  <1>12. fed' = fed \o (Next1 \o Front(ts)) /\ Emit(ts)
    BY <1>1, <1>8
  <1>13. Round(ts)
    BY <1>1, <1>8, <1>9, <1>10, <1>11, <1>12, RoundIs
  <1> QED
    BY <1>13

LEMMA SampledRounds ==
  ASSUME RoundsInv, NEW draft \in BoundedSeq(DraftTokens, DraftMax),
         NEW agreed \in 0 .. Len(draft), SampledVerify(draft, agreed) \/ SampledErr(draft, agreed)
  PROVE  \E ts : Round(ts)
  <1> DEFINE kept == SubSeq(draft, 1, agreed)
  <1>1. Decoding /\ sampled /\ UNCHANGED request
    BY DEF SampledVerify, SampledErr
  <1>2. draft \in Seq(Token) /\ Len(draft) \in Nat /\ agreed \in Nat
    BY DraftIs
  <1>3. kept \in Seq(Token) /\ Len(kept) = agreed
    BY <1>2, FirstOnes
  <1>4. CASE SampledVerify(draft, agreed)
    <2>1. PICK x \in Token : Emit(Append(kept, x))
      BY <1>4 DEF SampledVerify
    <2> DEFINE ts == Append(kept, x)
    <2>2. ts \in Seq(Token) /\ ts # <<>> /\ Front(ts) = kept
      <3> HIDE DEF kept
      <3> QED  BY <1>3, FrontOfAppend
    <2>3. fed' = fed \o (Next1 \o Front(ts)) /\ Emit(ts)
      BY <1>4, <2>1, <2>2 DEF SampledVerify, Kept
    <2> HIDE DEF ts
    <2>4. Round(ts)
      BY <1>1, <2>2, <2>3, RoundIs
    <2> QED  BY <2>4
  <1>5. CASE SampledErr(draft, agreed)
    <2>1. agreed \in 1 .. Len(draft)
      BY <1>2, <1>5 DEF SampledErr
    <2>2. kept # <<>> /\ Front(kept) = SubSeq(draft, 1, agreed - 1)
      BY <1>2, <2>1, FrontOfFirst
    <2>3. SubSeq(Next1 \o kept, 1, agreed) = Next1 \o Front(kept)
      <3>1. Next1 \in Seq(Token) /\ Len(Next1) = 1
        BY <1>1, DecodingIs DEF Next1
      <3> HIDE DEF kept
      <3>2. Next1 \o Front(kept) = Front(Next1 \o kept)
        <4>1. Next1 # <<>>
          BY DEF Next1
        <4> QED  BY <1>3, <2>2, <3>1, <4>1, EmitsRows
      <3>3. Len(Next1 \o kept) = agreed + 1
        <4>1. Len(Next1 \o kept) = Len(Next1) + Len(kept)
          BY <1>3, <3>1, ConcatProperties
        <4> QED  BY <1>2, <1>3, <3>1, <4>1
      <3>4. agreed + 1 - 1 = agreed
        BY <1>2
      <3> QED  BY <3>2, <3>3, <3>4 DEF Front
    <2>4. fed' = fed \o (Next1 \o Front(kept)) /\ Emit(kept)
      BY <1>5, <2>3 DEF SampledErr, Kept
    <2> HIDE DEF kept
    <2>5. Round(kept)
      BY <1>1, <1>3, <2>2, <2>4, RoundIs
    <2> QED  BY <2>5
  <1> QED
    BY <1>4, <1>5

\* What is free of stop tokens but for its last, after a round.
LEMMA FreeAfter ==
  ASSUME NEW e \in Seq(Token), NEW ts \in Seq(Token), ts # <<>>, Free(e), Free(Front(ts))
  PROVE  /\ Free(Front(e \o ts))
         /\ Last(e \o ts) \notin Halting => Free(e \o ts)
  <1>1. /\ e \o ts \in Seq(Token) /\ Len(e \o ts) = Len(e) + Len(ts)
        /\ \A i \in 1 .. Len(e) + Len(ts) : (e \o ts)[i] = IF i <= Len(e) THEN e[i] ELSE ts[i - Len(e)]
    BY ConcatProperties
  <1>2. /\ Len(Front(ts)) = Len(ts) - 1 /\ Len(ts) \in Nat \ {0} /\ Len(e) \in Nat
        /\ \A i \in 1 .. Len(ts) - 1 : Front(ts)[i] = ts[i]
    BY FrontIs
  <1>3. ASSUME NEW i \in 1 .. Len(e) + Len(ts) - 1
        PROVE  (e \o ts)[i] \notin Halting
    <2>1. CASE i <= Len(e)
      BY <1>1, <1>2, <2>1 DEF Free
    <2>2. CASE ~(i <= Len(e))
      <3>1. i - Len(e) \in 1 .. Len(ts) - 1 /\ i \in 1 .. Len(e) + Len(ts)
        BY <1>2, <2>2
      <3>2. Front(ts)[i - Len(e)] \notin Halting
        BY <1>2, <3>1 DEF Free
      <3> QED  BY <1>1, <1>2, <2>2, <3>1, <3>2
    <2> QED  BY <2>1, <2>2
  <1> DEFINE c == e \o ts
  <1>4. c \in Seq(Token) /\ Len(c) = Len(e) + Len(ts) /\ c # <<>>
    BY <1>1, <1>2
  <1>5. \A i \in 1 .. Len(c) - 1 : c[i] \notin Halting
    BY <1>1, <1>3
  <1> HIDE DEF c
  <1>6. /\ Len(Front(c)) = Len(c) - 1 /\ Len(c) \in Nat \ {0}
        /\ \A i \in 1 .. Len(c) - 1 : Front(c)[i] = c[i]
        /\ Last(c) = c[Len(c)]
    BY <1>4, FrontIs
  <1>7. Free(Front(c))
    BY <1>5, <1>6 DEF Free
  <1>8. ASSUME Last(c) \notin Halting
        PROVE  Free(c)
    <2>1. \A i \in 1 .. Len(c) : i = Len(c) \/ i \in 1 .. Len(c) - 1
      BY <1>6
    <2> QED  BY <1>5, <1>6, <1>8, <2>1 DEF Free
  <1> QED
    BY <1>7, <1>8 DEF c

LEMMA RoundKeeps ==
  ASSUME RoundsInv, phase \in {"prefill", "decode"}, NEW ts, Round(ts)
  PROVE  RoundsInv'
  <1> DEFINE e == emitted \o ts
  <1>1. ts \in Seq(Token) /\ ts # <<>> /\ emitted \in Seq(Token) /\ fed' = Front(e)
    BY DEF Round, RoundsInv
  <1>2. e \in Seq(Token) /\ e # <<>> /\ emitted' = e
    BY <1>1, ConcatEqualIffEmpty, ConcatProperties DEF Round, Emit
  <1>3. Front(e) \in Seq(Token)
    BY <1>2, FrontIs
  <1>4. UNCHANGED <<truth, predict, sampled>>
    BY DEF Round, request
  <1>5. (~sampled => IsPrefix(e, truth)) /\ (StopsSeen /\ ~sampled => Free(Front(ts)))
    BY DEF Round
  <1>6. phase' = (IF Done(e) THEN "done" ELSE "decode") /\ (Done(e) => answer' = AnswerOf(e))
    BY DEF Round, Emit
  <1>7. ASSUME StopsSeen, ~sampled
        PROVE  Free(Front(e)) /\ (Last(e) \notin Halting => Free(e))
    <2>1. Free(emitted)
      <3>1. CASE phase = "prefill"
        BY <3>1 DEF RoundsInv, Free
      <3>2. CASE phase = "decode"
        BY <1>7, <3>2 DEF RoundsInv
      <3> QED  BY <3>1, <3>2
    <2> QED  BY <1>1, <1>5, <1>7, <2>1, FreeAfter
  <1> HIDE DEF e
  <1>8. (Done(emitted)' <=> Done(e)) /\ AnswerOf(emitted)' = AnswerOf(e)
    BY <1>2, <1>4 DEF Done, AnswerOf, Unstopped
  <1>9. (TruthIs /\ Lossless)'
    BY <1>2, <1>4, <1>5 DEF RoundsInv, TruthIs, Lossless
  <1>10. Free(emitted)' = Free(e) /\ Free(Front(emitted))' = Free(Front(e)) /\ StopsSeen' = StopsSeen
    BY <1>2 DEF Free
  <1>11. CASE Done(e)
    <2>1. phase' = "done" /\ answer' = AnswerOf(e)
      BY <1>6, <1>11
    <2> QED  BY <1>1, <1>2, <1>3, <1>4, <1>7, <1>8, <1>9, <1>10, <1>11, <2>1 DEF RoundsInv
  <1>12. CASE ~Done(e)
    <2>1. phase' = "decode" /\ Last(e) \notin Halting
      BY <1>6, <1>12 DEF Done, Halting
    <2> QED  BY <1>1, <1>2, <1>3, <1>4, <1>7, <1>8, <1>9, <1>10, <2>1 DEF RoundsInv
  <1> QED
    BY <1>11, <1>12

LEMMA RoundsInvInit ==
  ASSUME RoundsInit
  PROVE  RoundsInv
  <1>1. TruthIs /\ fed = <<>> /\ emitted = <<>> /\ phase = "prefill"
    BY DEF RoundsInit, TruthIs
  <1>2. <<>> \in Seq(Token) /\ Agrees(<<>>)
    BY BoundsAre DEF Agrees
  <1>3. Lossless
    BY <1>1, <1>2, PrefixAgrees DEF Lossless
  <1> QED
    BY <1>1, <1>2, <1>3 DEF RoundsInv

LEMMA RoundsInvStep ==
  ASSUME RoundsInv, [RoundsNext]_roundsVars
  PROVE  RoundsInv'
  <1>1. ASSUME phase \in {"prefill", "decode"}, \E ts : Round(ts)
        PROVE  RoundsInv'
    BY <1>1, RoundKeeps
  <1>2. CASE Prefill
    <2>1. phase \in {"prefill", "decode"}
      BY <1>2 DEF Prefill
    <2> QED  BY <1>1, <1>2, <2>1, PrefillRounds
  <1>3. CASE Single
    <2>1. phase \in {"prefill", "decode"}
      BY <1>3 DEF Single, Decoding
    <2> QED  BY <1>1, <1>3, <2>1, SingleRounds
  <1>4. ASSUME NEW xs \in BoundedSeq(Token, KMax), KStep(xs)
        PROVE  RoundsInv'
    <2>1. phase \in {"prefill", "decode"}
      BY <1>4 DEF KStep, Decoding
    <2> QED  BY <1>1, <1>4, <2>1, KStepRounds
  <1>5. ASSUME NEW draft \in BoundedSeq(DraftTokens, DraftMax),
               NEW spoken \in [1 .. 1 + Len(draft) -> Token], Verify(draft, spoken)
        PROVE  RoundsInv'
    <2>1. phase \in {"prefill", "decode"}
      BY <1>5 DEF Verify, Decoding
    <2> QED  BY <1>1, <1>5, <2>1, VerifyRounds
  <1>6. ASSUME NEW draft \in BoundedSeq(DraftTokens, DraftMax), NEW agreed \in 0 .. Len(draft),
               SampledVerify(draft, agreed) \/ SampledErr(draft, agreed)
        PROVE  RoundsInv'
    <2>1. phase \in {"prefill", "decode"}
      BY <1>6 DEF SampledVerify, SampledErr, Decoding
    <2> QED  BY <1>1, <1>6, <2>1, SampledRounds
  <1>7. ASSUME UNCHANGED <<request, fed, emitted>>,
               (phase' = phase /\ answer' = answer) \/ phase' \in {"failed", "astray"}
        PROVE  RoundsInv'
    <2>1. UNCHANGED <<truth, predict, sampled>> /\ emitted' = emitted /\ fed' = fed
      BY <1>7 DEF request
    <2>2. (Done(emitted)' <=> Done(emitted)) /\ AnswerOf(emitted)' = AnswerOf(emitted)
      BY <2>1 DEF Done, AnswerOf, Unstopped
    <2>3. (TruthIs /\ Lossless)'
      BY <2>1 DEF RoundsInv, TruthIs, Lossless
    <2>4. /\ Free(emitted)' = Free(emitted) /\ Free(Front(emitted))' = Free(Front(emitted))
          /\ StopsSeen' = StopsSeen /\ Front(emitted)' = Front(emitted)
      BY <2>1 DEF Free
    <2> QED  BY <1>7, <2>1, <2>2, <2>3, <2>4 DEF RoundsInv
  <1>8. CASE PassErr
    BY <1>7, <1>8 DEF PassErr, Fail
  <1>9. CASE Astray
    BY <1>7, <1>9 DEF Astray
  <1>10. CASE UNCHANGED roundsVars
    BY <1>7, <1>10 DEF roundsVars, request
  <1> QED
    BY <1>2, <1>3, <1>4, <1>5, <1>6, <1>8, <1>9, <1>10 DEF RoundsNext

LEMMA RoundsInvariant == RoundsSpec => []RoundsInv
  BY RoundsInvInit, RoundsInvStep, PTL DEF RoundsSpec

(***************************************************************************)
(* The rows the caches hold are those of the conversation but for its last *)
(* token, after single steps, k-steps and verified drafts of any length,   *)
(* after passes that failed before they moved anything and were tried      *)
(* again, and in what is kept for the next request (q35_decode,            *)
(* spec_round).                                                            *)
(***************************************************************************)
THEOREM RowsAreTheConversation == RoundsSpec => []RowsOfConversation
  <1>1. RoundsInv => RowsOfConversation
    BY DEF RoundsInv, RowsOfConversation
  <1> QED
    BY <1>1, RoundsInvariant, PTL

(***************************************************************************)
(* Speculation and k-steps are lossless: whatever drafts were guessed and  *)
(* wherever the rounds ended, the tokens emitted for a greedy request are  *)
(* those that single steps would emit (spec_round, decode_greedy_k).       *)
(***************************************************************************)
THEOREM SpeculationLossless == RoundsSpec => []Lossless
  <1>1. RoundsInv => Lossless
    BY DEF RoundsInv
  <1> QED
    BY <1>1, RoundsInvariant, PTL

\* What is cut off the end of an answer: the last token, when it stops.
LEMMA UnstoppedIs ==
  ASSUME NEW e \in Seq(Token), e # <<>>, Free(Front(e))
  PROVE  Unstopped(e) = SubSeq(e, 1, IF Last(e) \in Halting THEN Len(e) - 1 ELSE Len(e))
  <1> DEFINE T == {0} \cup {i \in DOMAIN e : e[i] \notin Halting}
             n == IF Last(e) \in Halting THEN Len(e) - 1 ELSE Len(e)
  <1>1. /\ Len(e) \in Nat \ {0} /\ DOMAIN e = 1 .. Len(e) /\ Last(e) = e[Len(e)]
        /\ Len(Front(e)) = Len(e) - 1 /\ \A i \in 1 .. Len(e) - 1 : Front(e)[i] = e[i]
    BY FrontIs, LenProperties
  <1>2. \A i \in 1 .. Len(e) - 1 : e[i] \notin Halting
    BY <1>1 DEF Free
  <1>3. T \in SUBSET (0 .. Len(e)) /\ T # {}
    BY <1>1
  <1>4. Max(T) \in T /\ \A y \in T : y <= Max(T)
    <2> HIDE DEF T
    <2> QED  BY <1>1, <1>3, MaxUpTo
  <1>5. n \in T
    <2>1. CASE Last(e) \in Halting
      BY <1>1, <1>2, <2>1
    <2>2. CASE Last(e) \notin Halting
      BY <1>1, <2>2
    <2> QED  BY <2>1, <2>2
  <1>6. \A y \in T : y <= n
    <2>1. CASE Last(e) \in Halting
      <3>1. Len(e) \notin T
        BY <1>1, <2>1
      <3> QED  BY <1>1, <1>3, <2>1, <3>1
    <2>2. CASE Last(e) \notin Halting
      BY <1>1, <1>3, <2>2
    <2> QED  BY <2>1, <2>2
  <1>7. Max(T) = n
    <2>1. n \in Int /\ \A y \in T : y \in Int
      BY <1>1, <1>3
    <2> DEFINE m == Max(T)
    <2>2. m \in T /\ \A y \in T : y <= m
      BY <1>4
    <2> HIDE DEF m, T, n
    <2>3. m = n
      BY <1>5, <1>6, <2>1, <2>2
    <2> QED  BY <2>3 DEF m
  <1> QED
    BY <1>7 DEF Unstopped, Halting

\* The first stop token of the truth, when it is n, or comes after n.
LEMMA FirstStopIs ==
  ASSUME TruthIs, NEW n \in 0 .. TruthLen, \A i \in 1 .. n : truth[i] \notin Halting
  PROVE  /\ FirstStop \in Nat /\ FirstStop >= n + 1
         /\ n + 1 <= TruthLen /\ truth[n + 1] \in Halting => FirstStop = n + 1
  <1> DEFINE T == {TruthLen + 1} \cup {i \in 1 .. TruthLen : truth[i] \in Halting}
  <1>1. T \in SUBSET Nat /\ T # {} /\ TruthLen \in Nat /\ n \in Nat
    BY BoundsAre
  <1>2. Min(T) \in T /\ \A y \in T : Min(T) <= y
    <2> HIDE DEF T
    <2> QED  BY <1>1, MinOfNats
  <1>3. \A y \in T : y >= n + 1
    <2> SUFFICES ASSUME NEW y \in T PROVE y >= n + 1
      OBVIOUS
    <2>1. CASE y = TruthLen + 1
      BY <1>1, <2>1
    <2>2. CASE y \in 1 .. TruthLen /\ truth[y] \in Halting
      <3>1. y \notin 1 .. n
        BY <2>2
      <3> QED  BY <1>1, <2>2, <3>1
    <2> QED  BY <2>1, <2>2
  <1>4. n + 1 <= TruthLen /\ truth[n + 1] \in Halting => n + 1 \in T
    BY <1>1
  <1>5. FirstStop = Min(T)
    BY DEF FirstStop, Halting
  <1> HIDE DEF T
  <1>6. Min(T) \in Nat
    BY <1>1, <1>2
  <1> QED
    BY <1>1, <1>2, <1>3, <1>4, <1>5, <1>6

LEMMA GreedyAnswer ==
  ASSUME StopsSeen, RoundsInv
  PROVE  AnswerIsGreedy
  <1> SUFFICES ASSUME phase = "done", ~sampled
               PROVE  answer = SubSeq(truth, 1, Min({predict, FirstStop - 1}))
    BY DEF AnswerIsGreedy
  <1> DEFINE e == emitted
             n == IF Last(e) \in Halting THEN Len(e) - 1 ELSE Len(e)
             k == IF predict <= n THEN predict ELSE n
  <1>1. /\ e \in Seq(Token) /\ e # <<>> /\ Free(Front(e)) /\ Done(e) /\ answer = AnswerOf(e)
        /\ TruthIs /\ predict \in Nat /\ truth \in Seq(Token) /\ Len(truth) = TruthLen
    BY BoundsAre DEF RoundsInv, TruthIs
  <1>2. Agrees(e)
    BY <1>1, PrefixAgrees DEF RoundsInv, Lossless
  <1>3. /\ Len(e) \in Nat \ {0} /\ Last(e) = e[Len(e)]
        /\ \A i \in 1 .. Len(e) - 1 : e[i] \notin Halting
    BY <1>1, FrontIs DEF Free
  <1>4. n \in 0 .. Len(e) /\ n \in 0 .. TruthLen /\ n \in Nat
    BY <1>2, <1>3, BoundsAre DEF Agrees
  <1>5. \A i \in 1 .. n : e[i] \notin Halting
    <2>1. ASSUME NEW i \in 1 .. n
          PROVE  i \in 1 .. Len(e) - 1 \/ (i = Len(e) /\ Last(e) \notin Halting)
      <3>1. CASE Last(e) \in Halting
        <4>1. n = Len(e) - 1
          BY <3>1
        <4> HIDE DEF n
        <4> QED  BY <1>3, <4>1
      <3>2. CASE Last(e) \notin Halting
        <4>1. n = Len(e)
          BY <3>2
        <4> HIDE DEF n
        <4> QED  BY <1>3, <3>2, <4>1
      <3> QED  BY <3>1, <3>2
    <2> QED  BY <1>3, <2>1
  <1>6. \A i \in 1 .. n : truth[i] \notin Halting
    BY <1>2, <1>4, <1>5 DEF Agrees
  <1>7. FirstStop \in Nat /\ FirstStop >= n + 1
    BY <1>1, <1>4, <1>6, FirstStopIs
  <1>8. Unstopped(e) = SubSeq(e, 1, n)
    BY <1>1, UnstoppedIs
  <1>9. Last(e) \in Halting => FirstStop = n + 1
    <2>1. Last(e) \in Halting => n + 1 = Len(e) /\ Len(e) <= TruthLen /\ truth[Len(e)] = Last(e)
      BY <1>2, <1>3 DEF Agrees
    <2> QED  BY <1>1, <1>4, <1>6, <2>1, FirstStopIs
  <1>10. Last(e) \notin Halting => predict <= n
    <2>1. Last(e) \notin Halting => Len(e) >= Max({predict, 1})
      BY <1>1 DEF Done, Halting
    <2>2. Max({predict, 1}) \in Int /\ Max({predict, 1}) >= predict
      BY <1>1, MaxOfTwo
    <2> QED  BY <1>1, <1>3, <2>1, <2>2
  <1> HIDE DEF n, e
  <1>11. Min({predict, FirstStop - 1}) = k
    <2>1. Min({predict, FirstStop - 1}) = IF predict <= FirstStop - 1 THEN predict ELSE FirstStop - 1
      BY <1>1, <1>7, MinOfTwo
    <2> QED  BY <1>1, <1>4, <1>7, <1>9, <1>10, <2>1
  <1>12. k \in 0 .. n /\ k \in 0 .. TruthLen /\ k \in 0 .. Len(e)
    BY <1>1, <1>3, <1>4, BoundsAre
  <1>13. answer = SubSeq(e, 1, k)
    <2>1. Len(SubSeq(e, 1, n)) = n
      BY <1>1, <1>4, FirstOnes
    <2>2. Min({predict, n}) = k
      BY <1>1, <1>4, MinOfTwo
    <2>3. answer = SubSeq(SubSeq(e, 1, n), 1, k)
      BY <1>1, <1>8, <2>1, <2>2 DEF AnswerOf
    <2> QED  BY <1>1, <1>4, <1>12, <2>3, FirstOfFirst
  <1>14. SubSeq(e, 1, k) = SubSeq(truth, 1, k)
    <2> HIDE DEF k
    <2>1. SubSeq(e, 1, k) \in Seq(Token) /\ Len(SubSeq(e, 1, k)) = k /\ \A i \in 1 .. k : SubSeq(e, 1, k)[i] = e[i]
      BY <1>1, <1>12, FirstOnes
    <2>2. /\ SubSeq(truth, 1, k) \in Seq(Token) /\ Len(SubSeq(truth, 1, k)) = k
          /\ \A i \in 1 .. k : SubSeq(truth, 1, k)[i] = truth[i]
      BY <1>1, <1>12, FirstOnes
    <2>3. \A i \in 1 .. k : e[i] = truth[i]
      BY <1>2, <1>3, <1>12 DEF Agrees
    <2> QED  BY <2>1, <2>2, <2>3, SeqEqual
  <1> QED
    BY <1>11, <1>13, <1>14

(***************************************************************************)
(* A finished greedy request is answered with what decoding one token at a *)
(* time would answer: the greedy continuation to its first stop token and  *)
(* to n_predict, in whatever round these limits were met (finish_slot).    *)
(* It is the answer where no round emits a stop token before its end:      *)
(* StopsSeen.  Without it the code keeps stop tokens inside answers, which *)
(* TLC shows for drafts that were copied with one.                         *)
(***************************************************************************)
THEOREM AnswersAreGreedy ==
  ASSUME StopsSeen
  PROVE  RoundsSpec => []AnswerIsGreedy
  <1>1. RoundsInv => AnswerIsGreedy
    BY GreedyAnswer
  <1> QED
    BY <1>1, RoundsInvariant, PTL

-----------------------------------------------------------------------------
(***************************************************************************)
(* TextStream.  The text and the stop strings are sequences of bytes, and  *)
(* what is held back is as long as any stop string but for a byte.         *)
(***************************************************************************)
LEMMA StopsAre ==
    /\ DOMAIN StopStrings = 1 .. Len(StopStrings) /\ Len(StopStrings) \in Nat
    /\ \A k \in DOMAIN StopStrings : /\ StopStrings[k] \in Seq(TextByte) /\ Len(StopStrings[k]) \in Nat
                                     /\ StopStrings[k] # <<>> => Len(StopStrings[k]) \in Nat \ {0}
                                     /\ WellFormed(StopStrings[k])
<1>1. StopStrings \in Seq(Seq(TextByte))
    BY TextAssumption
<1>2. DOMAIN StopStrings = 1 .. Len(StopStrings) /\ Len(StopStrings) \in Nat
    BY <1>1
<1>3. ASSUME NEW k \in DOMAIN StopStrings
      PROVE  /\ StopStrings[k] \in Seq(TextByte) /\ Len(StopStrings[k]) \in Nat
             /\ StopStrings[k] # <<>> => Len(StopStrings[k]) \in Nat \ {0}
             /\ WellFormed(StopStrings[k])
  <2> DEFINE s == StopStrings[k]
  <2>1. s \in Seq(TextByte)
      BY <1>1, <1>2, <1>3, ElementOfSeq
  <2>2. WellFormed(s)
      BY StopAssumption DEF ToSet
  <2> HIDE DEF s
  <2>3. Len(s) \in Nat /\ (s # <<>> => Len(s) \in Nat \ {0})
      BY <2>1, EmptySeq
  <2>4. QED BY <2>1, <2>2, <2>3 DEF s
<1>4. QED BY <1>2, <1>3

LEMMA LengthsBounded == \E b \in Nat : \A k \in DOMAIN StopStrings : Len(StopStrings[k]) <= b
<1> DEFINE n == Len(StopStrings)
           Below(m) == \E b \in Nat : \A k \in 1 .. m : Len(StopStrings[k]) <= b
           Bad == {m \in 0 .. n : ~Below(m)}
<1>1. n \in Nat /\ DOMAIN StopStrings = 1 .. n /\ \A k \in 1 .. n : Len(StopStrings[k]) \in Nat
    BY StopsAre
<1> HIDE DEF n
<1>2. Bad = {}
  <2> SUFFICES ASSUME Bad # {} PROVE FALSE
      OBVIOUS
  <2>1. Bad \in SUBSET Nat
      BY <1>1
  <2>2. PICK m \in Bad : \A j \in Bad : m <= j
    <3> HIDE DEF Bad
    <3>1. QED BY <2>1, MinOfNats
  <2>3. m \in 0 .. n /\ ~Below(m)
      BY <2>2
  <2>4. m # 0
    <3>1. \A k \in 1 .. 0 : Len(StopStrings[k]) <= 0
        OBVIOUS
    <3>2. Below(0)
        BY <3>1
    <3>3. QED BY <2>3, <3>2
  <2>5. m - 1 \in 0 .. n /\ m - 1 < m /\ m \in 1 .. n
      BY <1>1, <2>3, <2>4
  <2>6. Below(m - 1)
    <3>1. m - 1 \notin Bad
      <4> HIDE DEF Bad
      <4>1. QED BY <1>1, <2>1, <2>2, <2>5
    <3>2. QED BY <2>5, <3>1
  <2>7. PICK b \in Nat : \A k \in 1 .. m - 1 : Len(StopStrings[k]) <= b
      BY <2>6
  <2>8. PICK l \in Nat : l = Len(StopStrings[m])
      BY <1>1, <2>5
  <2> HIDE DEF Bad
  <2>9. \A k \in 1 .. m : k \in 1 .. m - 1 \/ k = m
      BY <2>5
  <2>10. b + l \in Nat /\ \A k \in 1 .. m : Len(StopStrings[k]) <= b + l
    <3> SUFFICES ASSUME NEW k \in 1 .. m PROVE Len(StopStrings[k]) <= b + l
        OBVIOUS
    <3>1. CASE k = m
      <4>1. Len(StopStrings[k]) = l
          BY <2>8, <3>1
      <4>2. l <= b + l
          BY <2>7, <2>8
      <4>3. QED BY <4>1, <4>2
    <3>2. CASE k \in 1 .. m - 1
      <4>1. Len(StopStrings[k]) <= b
          BY <2>7, <3>2
      <4>2. Len(StopStrings[k]) \in Nat
        <5>1. k \in 1 .. n
            BY <1>1, <2>5
        <5>2. QED BY <1>1, <5>1
      <4>3. QED BY <2>7, <2>8, <4>1, <4>2
    <3>3. QED BY <2>9, <3>1, <3>2
  <2>11. QED BY <2>3, <2>10
<1>3. Below(n)
  <2>1. n \in 0 .. n
      BY <1>1
  <2>2. QED BY <1>2, <2>1
<1>4. QED BY <1>1, <1>3

LEMMA HoldbackIs == Holdback \in Nat /\ \A k \in DOMAIN StopStrings : Len(StopStrings[k]) <= Holdback + 1
<1> DEFINE S == {IF StopStrings[k] = <<>> THEN 0 ELSE Len(StopStrings[k]) - 1 : k \in DOMAIN StopStrings}
<1>1. CASE StopStrings = <<>>
  <2>1. DOMAIN StopStrings = {}
      BY <1>1
  <2>2. QED BY <1>1, <2>1 DEF Holdback
<1>2. CASE StopStrings # <<>>
  <2>1. PICK b \in Nat : \A k \in DOMAIN StopStrings : Len(StopStrings[k]) <= b
      BY LengthsBounded
  <2>2. S \in SUBSET (0 .. b)
    <3> SUFFICES ASSUME NEW k \in DOMAIN StopStrings
                 PROVE  (IF StopStrings[k] = <<>> THEN 0 ELSE Len(StopStrings[k]) - 1) \in 0 .. b
        OBVIOUS
    <3>1. Len(StopStrings[k]) <= b /\ Len(StopStrings[k]) \in Nat
          /\ (StopStrings[k] # <<>> => Len(StopStrings[k]) \in Nat \ {0})
        BY <2>1, StopsAre
    <3>2. QED BY <3>1
  <2>3. S # {}
    <3>1. Len(StopStrings) \in Nat \ {0}
      <4>1. StopStrings \in Seq(Seq(TextByte))
          BY TextAssumption
      <4>2. QED BY <1>2, <4>1, EmptySeq
    <3>2. 1 \in DOMAIN StopStrings
        BY <3>1, StopsAre
    <3>3. QED BY <3>2
  <2>4. Holdback = Max(S)
      BY <1>2 DEF Holdback
  <2> HIDE DEF S
  <2>5. Max(S) \in S /\ \A y \in S : y <= Max(S)
      BY <2>2, <2>3, MaxUpTo
  <2>6. Holdback \in Nat
    <3>1. Max(S) \in 0 .. b
        BY <2>2, <2>5
    <3>2. QED BY <2>1, <2>4, <3>1
  <2>7. ASSUME NEW k \in DOMAIN StopStrings
        PROVE  Len(StopStrings[k]) <= Holdback + 1
    <3>1. CASE StopStrings[k] = <<>>
        BY <2>6, <3>1
    <3>2. CASE StopStrings[k] # <<>>
      <4>1. Len(StopStrings[k]) - 1 \in S
          BY <3>2 DEF S
      <4>2. Len(StopStrings[k]) - 1 <= Holdback /\ Len(StopStrings[k]) \in Nat
          BY <2>4, <2>5, <4>1, StopsAre
      <4>3. QED BY <2>6, <4>2
    <3>3. QED BY <3>1, <3>2
  <2>8. QED BY <2>6, <2>7
<1>3. QED BY <1>1, <1>2

\* Some elements of a sequence, from behind the first p.
LEMMA NextOnes ==
    ASSUME NEW S, NEW q \in Seq(S), NEW p \in Nat, NEW l \in Nat, p + l <= Len(q)
    PROVE  /\ SubSeq(q, p + 1, p + l) \in Seq(S) /\ Len(SubSeq(q, p + 1, p + l)) = l
           /\ \A i \in 1 .. l : SubSeq(q, p + 1, p + l)[i] = q[p + i]
<1> DEFINE m == p + 1
           n == p + l
<1>1. m \in Int /\ n \in Int /\ \A i \in m .. n : q[i] \in S
  <2>1. m \in Int /\ n \in Int /\ Len(q) \in Nat
      OBVIOUS
  <2>2. \A i \in m .. n : i \in 1 .. Len(q)
      BY <2>1
  <2>3. QED BY <2>1, <2>2, ElementOfSeq
<1>2. /\ n - m + 1 = l /\ (IF m <= n THEN n - m + 1 ELSE 0) = l
      /\ \A i \in 1 .. l : i \in 1 .. n - m + 1 /\ m + i - 1 = p + i
    OBVIOUS
<1> HIDE DEF m, n
<1>3. /\ SubSeq(q, m, n) \in Seq(S)
      /\ Len(SubSeq(q, m, n)) = IF m <= n THEN n - m + 1 ELSE 0
      /\ \A i \in 1 .. n - m + 1 : SubSeq(q, m, n)[i] = q[m + i - 1]
    BY <1>1, SubSeqProperties
<1>4. QED BY <1>2, <1>3 DEF m, n

LEMMA FloorIs ==
    ASSUME NEW t \in Seq(TextByte), NEW i \in 0 .. Len(t)
    PROVE  FloorChar(t, i) \in 0 .. i /\ Boundary(t, FloorChar(t, i)) /\ FloorChar(t, i) \in Nat
<1> DEFINE S == {j \in 0 .. i : Boundary(t, j)}
<1>1. 0 \in S /\ i \in Nat /\ S \in SUBSET (0 .. i)
    BY DEF Boundary
<1>2. FloorChar(t, i) = Max(S)
    BY DEF FloorChar
<1>3. Max(S) \in S
  <2> HIDE DEF S
  <2>1. QED BY <1>1, MaxUpTo
<1>4. QED BY <1>1, <1>2, <1>3

(***************************************************************************)
(* Where stop strings are.  With none in the text so far, one that is in   *)
(* the text and what comes behind it ends in what comes behind, so that it *)
(* begins after all that is not held back, and a search from there or from *)
(* before finds the same.                                                  *)
(***************************************************************************)
LEMMA AtIs ==
    ASSUME NEW t \in Seq(TextByte), NEW k \in DOMAIN StopStrings, NEW f \in Nat
    PROVE  /\ At(t, StopStrings[k], f) \in SUBSET Nat
           /\ At(t, StopStrings[k], f) = {p \in At(t, StopStrings[k], 0) : p >= f}
           /\ \A p \in At(t, StopStrings[k], f) : p + Len(StopStrings[k]) <= Len(t)
<1> DEFINE s == StopStrings[k]
           n == Len(t) - Len(s)
<1>1. Len(s) \in Nat /\ Len(t) \in Nat /\ n \in Int
    BY StopsAre
<1>2. \A p \in f .. n : p \in Nat /\ p \in 0 .. n /\ p + Len(s) <= Len(t)
    BY <1>1
<1>3. \A p \in 0 .. n : p >= f => p \in f .. n
    BY <1>1
<1>4. \A p \in f .. n : p >= f
    BY <1>1
<1> HIDE DEF n
<1>5. At(t, s, f) = {p \in f .. n : SubSeq(t, p + 1, p + Len(s)) = s}
    BY DEF At, n
<1>6. At(t, s, 0) = {p \in 0 .. n : SubSeq(t, p + 1, p + Len(s)) = s}
    BY DEF At, n
<1>7. QED BY <1>2, <1>3, <1>4, <1>5, <1>6

LEMMA FoundEarlier ==
    ASSUME NEW a \in Seq(TextByte), NEW x \in Seq(TextByte), NEW k \in DOMAIN StopStrings,
           NEW p \in At(a \o x, StopStrings[k], 0), p + Len(StopStrings[k]) <= Len(a)
    PROVE  p \in At(a, StopStrings[k], 0)
<1> DEFINE s == StopStrings[k]
           l == Len(s)
           c == a \o x
           u == SubSeq(c, p + 1, p + l)
           v == SubSeq(a, p + 1, p + l)
<1>1. /\ c \in Seq(TextByte) /\ Len(c) = Len(a) + Len(x)
      /\ \A i \in 1 .. Len(a) + Len(x) : c[i] = IF i <= Len(a) THEN a[i] ELSE x[i - Len(a)]
    BY ConcatProperties
<1>2. Len(a) \in Nat /\ Len(x) \in Nat /\ l \in Nat /\ p + l <= Len(a)
    BY StopsAre
<1> HIDE DEF c
<1>3. p \in Nat /\ u = s
    BY <1>1, AtIs DEF At, c
<1> HIDE DEF l, s
<1>4. u \in Seq(TextByte) /\ Len(u) = l /\ \A i \in 1 .. l : u[i] = c[p + i]
  <2>1. p + l <= Len(c)
      BY <1>1, <1>2, <1>3
  <2>2. QED BY <1>1, <1>2, <1>3, <2>1, NextOnes
<1>5. v \in Seq(TextByte) /\ Len(v) = l /\ \A i \in 1 .. l : v[i] = a[p + i]
    BY <1>2, <1>3, NextOnes
<1> HIDE DEF u, v
<1>6. \A i \in 1 .. l : p + i \in 1 .. Len(a) + Len(x) /\ p + i <= Len(a)
    BY <1>2, <1>3
<1>7. \A i \in 1 .. l : u[i] = v[i]
    BY <1>1, <1>4, <1>5, <1>6
<1>8. u = v
    BY <1>4, <1>5, <1>7, SeqEqual
<1>9. p \in 0 .. Len(a) - l
    BY <1>2, <1>3
<1>10. QED BY <1>3, <1>8, <1>9 DEF At, l, s, v

Behind(a) == ToZero(Len(a) - Holdback)     \* where what is held back begins

LEMMA BehindIs ==
    ASSUME NEW a \in Seq(TextByte)
    PROVE  /\ Behind(a) \in 0 .. Len(a) /\ Behind(a) \in Nat /\ Len(a) \in Nat
           /\ Behind(a) = 0 \/ Behind(a) = Len(a) - Holdback
           /\ \A b \in Seq(TextByte) : Len(a) <= Len(b) => Behind(a) <= Behind(b)
<1>1. Holdback \in Nat /\ Len(a) \in Nat
    BY HoldbackIs
<1>2. \A b \in Seq(TextByte) : Len(b) \in Nat
    OBVIOUS
<1>3. QED BY <1>1, <1>2 DEF Behind, ToZero

LEMMA NewOnes ==
    ASSUME NEW a \in Seq(TextByte), NEW x \in Seq(TextByte), Found(a, 0) = {},
           NEW k \in DOMAIN StopStrings, StopStrings[k] # <<>>,
           NEW p \in At(a \o x, StopStrings[k], 0)
    PROVE  p \in Nat /\ p >= Behind(a)
<1> DEFINE l == Len(StopStrings[k])
<1>1. p \notin At(a, StopStrings[k], 0)
    BY DEF Found
<1>2. ~(p + l <= Len(a))
    BY <1>1, FoundEarlier
<1>3. a \o x \in Seq(TextByte)
    OBVIOUS
<1>4. p \in Nat
    BY <1>3, AtIs
<1>5. l \in Nat /\ l <= Holdback + 1 /\ Holdback \in Nat
    BY HoldbackIs, StopsAre
<1>6. Behind(a) \in Nat /\ Len(a) \in Nat /\ (Behind(a) = 0 \/ Behind(a) = Len(a) - Holdback)
    BY BehindIs
<1> HIDE DEF l
<1>7. QED BY <1>2, <1>4, <1>5, <1>6

LEMMA FirstIs ==
    ASSUME NEW t \in Seq(TextByte), NEW f \in Nat, NEW k \in Found(t, f)
    PROVE  /\ k \in DOMAIN StopStrings /\ StopStrings[k] # <<>>
           /\ FirstAt(t, k, f) \in At(t, StopStrings[k], f) /\ FirstAt(t, k, f) \in Nat
           /\ FirstAt(t, k, f) + Len(StopStrings[k]) <= Len(t)
<1>1. k \in DOMAIN StopStrings /\ StopStrings[k] # <<>> /\ At(t, StopStrings[k], f) # {}
    BY DEF Found
<1>2. At(t, StopStrings[k], f) \in SUBSET Nat
    BY <1>1, AtIs
<1>3. FirstAt(t, k, f) \in At(t, StopStrings[k], f)
  <2> DEFINE S == At(t, StopStrings[k], f)
  <2>1. S \in SUBSET Nat /\ S # {}
      BY <1>1, <1>2
  <2> HIDE DEF S
  <2>2. Min(S) \in S
      BY <2>1, MinOfNats
  <2>3. QED BY <2>2 DEF FirstAt, S
<1>4. QED BY <1>1, <1>2, <1>3, AtIs

LEMMA SearchSkips ==
    ASSUME NEW a \in Seq(TextByte), NEW x \in Seq(TextByte), Found(a, 0) = {},
           NEW b \in Nat, b <= Behind(a)
    PROVE  /\ Found(a \o x, b) = Found(a \o x, 0)
           /\ \A k \in Found(a \o x, 0) : FirstAt(a \o x, k, b) = FirstAt(a \o x, k, 0)
<1> DEFINE c == a \o x
<1>1. c \in Seq(TextByte)
    OBVIOUS
<1>2. ASSUME NEW k \in DOMAIN StopStrings, StopStrings[k] # <<>>
      PROVE  At(c, StopStrings[k], b) = At(c, StopStrings[k], 0)
  <2>1. \A p \in At(c, StopStrings[k], 0) : p \in Nat /\ p >= Behind(a)
      BY <1>2, NewOnes
  <2>2. Behind(a) \in Nat
      BY BehindIs
  <2>3. \A p \in At(c, StopStrings[k], 0) : p >= b
      BY <2>1, <2>2
  <2>4. At(c, StopStrings[k], b) = {p \in At(c, StopStrings[k], 0) : p >= b}
      BY <1>1, AtIs
  <2>5. QED BY <2>3, <2>4
<1> HIDE DEF c
<1>3. Found(c, b) = Found(c, 0)
    BY <1>2 DEF Found
<1>4. \A k \in Found(c, 0) : FirstAt(c, k, b) = FirstAt(c, k, 0)
    BY <1>2 DEF Found, FirstAt
<1>5. QED BY <1>3, <1>4 DEF c

\* The stop string that is found first, of those at one place the first listed.
Leads(t, f, k) ==
    /\ k \in Found(t, f)
    /\ \A j \in Found(t, f) : FirstAt(t, k, f) < FirstAt(t, j, f) \/ (FirstAt(t, k, f) = FirstAt(t, j, f) /\ k <= j)

LEMMA OneLeads ==
    ASSUME NEW t \in Seq(TextByte), NEW f \in Nat, NEW k, NEW j, Leads(t, f, k), Leads(t, f, j)
    PROVE  k = j
<1>1. k \in Found(t, f) /\ j \in Found(t, f)
    BY DEF Leads
<1>2. FirstAt(t, k, f) \in Nat /\ FirstAt(t, j, f) \in Nat /\ k \in DOMAIN StopStrings /\ j \in DOMAIN StopStrings
    BY <1>1, FirstIs
<1>3. k \in Nat /\ j \in Nat
    BY <1>2, StopsAre
<1>4. QED BY <1>1, <1>2, <1>3 DEF Leads

LEMMA EarliestLeads ==
    ASSUME NEW t \in Seq(TextByte), NEW from \in Nat, NEW f \in Nat,
           f = FloorChar(t, Min({from, Len(t)})), Found(t, f) # {}
    PROVE  Leads(t, f, Earliest(t, from))
<1> DEFINE P == {FirstAt(t, k, f) : k \in Found(t, f)}
<1>1. P \in SUBSET Nat /\ P # {}
    BY FirstIs
<1>2. PICK p \in P : \A q \in P : p <= q
  <2> HIDE DEF P
  <2>1. QED BY <1>1, MinOfNats
<1> DEFINE K == {k \in Found(t, f) : FirstAt(t, k, f) = p}
<1>3. K \in SUBSET Nat /\ K # {}
  <2>1. \A k \in Found(t, f) : k \in Nat
    <3>1. \A k \in Found(t, f) : k \in DOMAIN StopStrings
        BY DEF Found
    <3>2. \A k \in DOMAIN StopStrings : k \in Nat
      <4>1. \A k \in 1 .. Len(StopStrings) : k \in Nat
          BY StopsAre
      <4>2. QED BY <4>1, StopsAre
    <3>3. QED BY <3>1, <3>2
  <2>2. QED BY <1>2, <2>1
<1>4. PICK k \in K : \A j \in K : k <= j
  <2> HIDE DEF K
  <2>1. QED BY <1>3, MinOfNats
<1>5. ASSUME NEW j \in Found(t, f)
      PROVE  FirstAt(t, k, f) < FirstAt(t, j, f) \/ (FirstAt(t, k, f) = FirstAt(t, j, f) /\ k <= j)
  <2>1. FirstAt(t, j, f) \in P /\ FirstAt(t, k, f) = p
      BY <1>4
  <2>2. p <= FirstAt(t, j, f) /\ p \in Nat /\ FirstAt(t, j, f) \in Nat
      BY <1>1, <1>2, <2>1
  <2>3. CASE FirstAt(t, j, f) = p
      BY <1>4, <2>1, <2>3
  <2>4. CASE FirstAt(t, j, f) # p
      BY <2>1, <2>2, <2>4
  <2>5. QED BY <2>3, <2>4
<1>6. Leads(t, f, k)
    BY <1>4, <1>5 DEF Leads
<1>7. Earliest(t, from) = CHOOSE e \in Found(t, f) : \A j \in Found(t, f) :
          FirstAt(t, e, f) < FirstAt(t, j, f) \/ (FirstAt(t, e, f) = FirstAt(t, j, f) /\ e <= j)
    BY DEF Earliest
<1>8. \E e \in Found(t, f) : \A j \in Found(t, f) :
          FirstAt(t, e, f) < FirstAt(t, j, f) \/ (FirstAt(t, e, f) = FirstAt(t, j, f) /\ e <= j)
    BY <1>6 DEF Leads
<1>9. QED BY <1>7, <1>8 DEF Leads

(***************************************************************************)
(* Whole characters: behind whole characters, bytes are whole characters   *)
(* exactly when they are by themselves, and text cut at the edge of a      *)
(* character, or at either edge of a stop string, is whole characters.     *)
(***************************************************************************)
LEMMA WholeBehindWhole ==
    ASSUME NEW a \in Seq(TextByte), NEW x \in Seq(TextByte), WellFormed(a)
    PROVE  WellFormed(a \o x) <=> WellFormed(x)
<1> DEFINE c == a \o x
           m == Len(a)
           n == Len(x)
<1>1. /\ c \in Seq(TextByte) /\ Len(c) = m + n
      /\ \A i \in 1 .. m + n : c[i] = IF i <= m THEN a[i] ELSE x[i - m]
    BY ConcatProperties
<1>2. m \in Nat /\ n \in Nat /\ DOMAIN c = 1 .. m + n /\ DOMAIN a = 1 .. m /\ DOMAIN x = 1 .. n
  <2>1. m \in Nat /\ n \in Nat /\ DOMAIN a = 1 .. m /\ DOMAIN x = 1 .. n
      OBVIOUS
  <2> HIDE DEF c, m, n
  <2>2. QED BY <1>1, <2>1
<1> HIDE DEF c, m, n
<1>3. Lead # Cont
    BY TextAssumption
<1>4. \A i \in 1 .. m : /\ a[i] = Lead => i < m /\ a[i + 1] = Cont
                        /\ a[i] = Cont => i > 1 /\ a[i - 1] = Lead
    BY <1>2 DEF WellFormed, m
<1>5. ASSUME NEW i \in 1 .. n
      PROVE  /\ m + i \in 1 .. m + n /\ ~(m + i <= m) /\ c[m + i] = x[i]
             /\ i < n => c[m + i + 1] = x[i + 1]
             /\ i > 1 => c[m + i - 1] = x[i - 1]
  <2>1. ASSUME NEW j \in 1 .. n
        PROVE  c[m + j] = x[j]
    <3> DEFINE h == m + j
    <3>1. h \in 1 .. m + n /\ ~(h <= m) /\ h - m = j
        BY <1>2
    <3> HIDE DEF h
    <3>2. c[h] = x[h - m]
        BY <1>1, <3>1
    <3>3. QED BY <3>1, <3>2 DEF h
  <2>2. i < n => i + 1 \in 1 .. n /\ m + i + 1 = m + (i + 1)
      BY <1>2
  <2>3. i > 1 => i - 1 \in 1 .. n /\ m + i - 1 = m + (i - 1)
      BY <1>2
  <2>4. m + i \in 1 .. m + n /\ ~(m + i <= m)
      BY <1>2
  <2>5. QED BY <2>1, <2>2, <2>3, <2>4
<1>6. n >= 1 /\ m >= 1 => c[m + 1 - 1] = a[m] /\ a[m] # Lead
  <2>1. m >= 1 => m \in 1 .. m /\ m \in 1 .. m + n /\ m + 1 - 1 = m /\ m <= m
      BY <1>2
  <2>2. QED BY <1>1, <1>2, <1>4, <2>1
<1>7. ASSUME WellFormed(x)
      PROVE  WellFormed(c)
  <2> SUFFICES ASSUME NEW i \in 1 .. m + n
               PROVE  /\ c[i] = Lead => i < m + n /\ c[i + 1] = Cont
                      /\ c[i] = Cont => i > 1 /\ c[i - 1] = Lead
      BY <1>1, <1>2 DEF WellFormed
  <2>1. CASE i <= m
    <3>1. i \in 1 .. m /\ c[i] = a[i]
        BY <1>1, <1>2, <2>1
    <3>2. a[i] = Lead => i < m /\ a[i + 1] = Cont
        BY <1>4, <3>1
    <3>3. i < m => i + 1 \in 1 .. m + n /\ c[i + 1] = a[i + 1] /\ i < m + n
      <4>1. i < m => i + 1 \in 1 .. m + n /\ i + 1 <= m /\ i < m + n
          BY <1>2
      <4>2. QED BY <1>1, <4>1
    <3>4. a[i] = Cont => i > 1 /\ a[i - 1] = Lead
        BY <1>4, <3>1
    <3>5. i > 1 => c[i - 1] = a[i - 1]
      <4>1. i > 1 => i - 1 \in 1 .. m + n /\ i - 1 <= m
          BY <1>2, <2>1
      <4>2. QED BY <1>1, <4>1
    <3>6. QED BY <3>1, <3>2, <3>3, <3>4, <3>5
  <2>2. CASE ~(i <= m)
    <3> DEFINE j == i - m
    <3>1. j \in 1 .. n /\ i = m + j
        BY <1>2, <2>2
    <3> HIDE DEF j
    <3>2. /\ x[j] = Lead => j < n /\ x[j + 1] = Cont
          /\ x[j] = Cont => j > 1 /\ x[j - 1] = Lead
        BY <1>2, <1>7, <3>1 DEF WellFormed, n
    <3>3. /\ c[m + j] = x[j] /\ (j < n => c[m + j + 1] = x[j + 1]) /\ (j > 1 => c[m + j - 1] = x[j - 1])
        BY <1>5, <3>1
    <3>4. (j < n => m + j < m + n) /\ (j > 1 => m + j > 1)
        BY <1>2, <3>1
    <3>5. /\ c[m + j] = Lead => m + j < m + n /\ c[m + j + 1] = Cont
          /\ c[m + j] = Cont => m + j > 1 /\ c[m + j - 1] = Lead
        BY <3>2, <3>3, <3>4
    <3>6. i = m + j /\ i + 1 = m + j + 1 /\ i - 1 = m + j - 1
        BY <1>2, <3>1
    <3>7. QED BY <3>5, <3>6
  <2>3. QED BY <2>1, <2>2
<1>8. ASSUME WellFormed(c)
      PROVE  WellFormed(x)
  <2>1. \A i \in 1 .. m + n : /\ c[i] = Lead => i < m + n /\ c[i + 1] = Cont
                              /\ c[i] = Cont => i > 1 /\ c[i - 1] = Lead
      BY <1>1, <1>2, <1>8 DEF WellFormed
  <2> SUFFICES ASSUME NEW i \in 1 .. n
               PROVE  /\ x[i] = Lead => i < n /\ x[i + 1] = Cont
                      /\ x[i] = Cont => i > 1 /\ x[i - 1] = Lead
      BY <1>2 DEF WellFormed, n
  <2>2. /\ m + i \in 1 .. m + n /\ c[m + i] = x[i]
        /\ i < n => c[m + i + 1] = x[i + 1]
        /\ i > 1 => c[m + i - 1] = x[i - 1]
      BY <1>5
  <2>3. /\ c[m + i] = Lead => m + i < m + n /\ c[m + i + 1] = Cont
        /\ c[m + i] = Cont => m + i > 1 /\ c[m + i - 1] = Lead
    <3> DEFINE h == m + i
    <3>1. h \in 1 .. m + n
        BY <2>2
    <3> HIDE DEF h
    <3>2. /\ c[h] = Lead => h < m + n /\ c[h + 1] = Cont
          /\ c[h] = Cont => h > 1 /\ c[h - 1] = Lead
        BY <2>1, <3>1
    <3>3. h = m + i /\ h + 1 = m + i + 1 /\ h - 1 = m + i - 1
        BY <1>2 DEF h
    <3>4. QED BY <3>2, <3>3
  <2>4. (m + i < m + n => i < n) /\ (~(i > 1) => i = 1)
      BY <1>2
  <2>5. x[i] = Cont => i > 1
    <3> SUFFICES ASSUME x[i] = Cont, i = 1 PROVE FALSE
        BY <2>4
    <3>1. m + 1 > 1 /\ c[m + 1 - 1] = Lead
        BY <2>2, <2>3
    <3>2. n >= 1 /\ m >= 1
        BY <1>2, <3>1
    <3>3. QED BY <1>6, <3>1, <3>2
  <2>6. QED BY <2>2, <2>3, <2>4, <2>5
<1>9. QED BY <1>7, <1>8 DEF c

LEMMA FirstOfLonger ==
    ASSUME NEW S, NEW a \in Seq(S), NEW x \in Seq(S), NEW v \in 0 .. Len(x)
    PROVE  SubSeq(a \o x, 1, Len(a) + v) = a \o SubSeq(x, 1, v)
<1> DEFINE c == a \o x
           m == Len(a)
           f == SubSeq(x, 1, v)
           g == SubSeq(c, 1, m + v)
           h == a \o f
<1>1. /\ c \in Seq(S) /\ Len(c) = m + Len(x)
      /\ \A i \in 1 .. m + Len(x) : c[i] = IF i <= m THEN a[i] ELSE x[i - m]
    BY ConcatProperties
<1>2. f \in Seq(S) /\ Len(f) = v /\ \A i \in 1 .. v : f[i] = x[i]
    BY FirstOnes
<1>3. m \in Nat /\ Len(x) \in Nat /\ v \in Nat /\ v <= Len(x)
    OBVIOUS
<1> HIDE DEF c, f, m
<1>4. m + v \in 0 .. Len(c)
    BY <1>1, <1>3
<1>5. g \in Seq(S) /\ Len(g) = m + v /\ \A i \in 1 .. m + v : g[i] = c[i]
    BY <1>1, <1>4, FirstOnes
<1>6. /\ h \in Seq(S) /\ Len(h) = m + v
      /\ \A i \in 1 .. m + v : h[i] = IF i <= m THEN a[i] ELSE f[i - m]
  <2>1. /\ h \in Seq(S) /\ Len(h) = m + Len(f)
        /\ \A i \in 1 .. m + Len(f) : h[i] = IF i <= m THEN a[i] ELSE f[i - m]
      BY <1>2, ConcatProperties DEF m
  <2> HIDE DEF h
  <2>2. QED BY <1>2, <2>1
<1> HIDE DEF g, h
<1>7. ASSUME NEW i \in 1 .. m + v
      PROVE  g[i] = h[i]
  <2>1. i \in 1 .. m + Len(x) /\ (~(i <= m) => i - m \in 1 .. v)
      BY <1>3
  <2>2. QED BY <1>1, <1>2, <1>5, <1>6, <2>1
<1>8. g = h
    BY <1>5, <1>6, <1>7, SeqEqual
<1>9. QED BY <1>8 DEF c, f, g, h, m

LEMMA CompleteIs ==
    ASSUME NEW x \in Seq(TextByte)
    PROVE  /\ CompletePrefix(x) \in 0 .. Len(x) /\ WellFormed(SubSeq(x, 1, CompletePrefix(x)))
           /\ \A v \in 0 .. Len(x) : WellFormed(SubSeq(x, 1, v)) => v <= CompletePrefix(x)
<1> DEFINE S == {v \in 0 .. Len(x) : WellFormed(SubSeq(x, 1, v))}
<1>1. Len(x) \in Nat
    OBVIOUS
<1>2. 0 \in S
  <2>1. SubSeq(x, 1, 0) = <<>>
      BY SubSeqEmpty
  <2>2. WellFormed(<<>>)
      BY DEF WellFormed
  <2>3. 0 \in 0 .. Len(x) /\ WellFormed(SubSeq(x, 1, 0))
    <3>1. 0 \in 0 .. Len(x)
        BY <1>1
    <3>2. QED BY <2>1, <2>2, <3>1, Zenon
  <2>4. QED BY <2>3
<1>3. S \in SUBSET (0 .. Len(x)) /\ S # {}
    BY <1>2
<1>4. Max(S) \in S /\ \A v \in S : v <= Max(S)
  <2> HIDE DEF S
  <2>1. QED BY <1>1, <1>3, MaxUpTo
<1>5. QED BY <1>4 DEF CompletePrefix

LEMMA CompleteBehind ==
    ASSUME NEW a \in Seq(TextByte), NEW x \in Seq(TextByte), WellFormed(a)
    PROVE  CompletePrefix(a \o x) = Len(a) + CompletePrefix(x)
<1> DEFINE c == a \o x
           m == Len(a)
           w == CompletePrefix(c)
           v == CompletePrefix(x)
<1>1. c \in Seq(TextByte) /\ Len(c) = m + Len(x) /\ m \in Nat /\ Len(x) \in Nat
    BY ConcatProperties
<1>2. ASSUME NEW u \in 0 .. Len(x)
      PROVE  WellFormed(SubSeq(c, 1, m + u)) <=> WellFormed(SubSeq(x, 1, u))
  <2>1. SubSeq(x, 1, u) \in Seq(TextByte)
      BY FirstOnes
  <2>2. SubSeq(c, 1, m + u) = a \o SubSeq(x, 1, u)
      BY FirstOfLonger
  <2>3. QED BY <2>1, <2>2, WholeBehindWhole
<1>3. /\ v \in 0 .. Len(x) /\ WellFormed(SubSeq(x, 1, v))
      /\ \A u \in 0 .. Len(x) : WellFormed(SubSeq(x, 1, u)) => u <= v
    BY CompleteIs
<1> HIDE DEF c
<1>4. /\ w \in 0 .. Len(c) /\ WellFormed(SubSeq(c, 1, w))
      /\ \A u \in 0 .. Len(c) : WellFormed(SubSeq(c, 1, u)) => u <= w
    BY <1>1, CompleteIs
<1> HIDE DEF m, v, w
<1>5. m + v \in 0 .. Len(c) /\ m + v <= w
  <2>1. m + v \in 0 .. Len(c)
      BY <1>1, <1>3
  <2>2. QED BY <1>2, <1>3, <1>4, <2>1
<1>6. PICK u \in 0 .. Len(x) : w = m + u
  <2>1. w - m \in 0 .. Len(x) /\ w = m + (w - m)
      BY <1>1, <1>3, <1>4, <1>5
  <2>2. QED BY <2>1
<1>7. u <= v
    BY <1>2, <1>3, <1>4, <1>6
<1>8. w = m + v
    BY <1>1, <1>3, <1>5, <1>6, <1>7
<1>9. QED BY <1>8 DEF c, m, v, w

LEMMA CutIsWhole ==
    ASSUME NEW t \in Seq(TextByte), WellFormed(t), NEW i \in 0 .. Len(t), Boundary(t, i)
    PROVE  WellFormed(SubSeq(t, 1, i))
<1> DEFINE f == SubSeq(t, 1, i)
<1>1. f \in Seq(TextByte) /\ Len(f) = i /\ \A j \in 1 .. i : f[j] = t[j]
    BY FirstOnes
<1>2. Len(t) \in Nat /\ DOMAIN t = 1 .. Len(t) /\ i \in Nat /\ i <= Len(t)
    OBVIOUS
<1> HIDE DEF f
<1>3. DOMAIN f = 1 .. i
    BY <1>1
<1> SUFFICES ASSUME NEW j \in 1 .. i
             PROVE  /\ f[j] = Lead => j < i /\ f[j + 1] = Cont
                    /\ f[j] = Cont => j > 1 /\ f[j - 1] = Lead
    BY <1>1, <1>3 DEF WellFormed, f
<1>4. j \in 1 .. Len(t) /\ j \in Nat
    BY <1>2
<1>5. /\ t[j] = Lead => j < Len(t) /\ t[j + 1] = Cont
      /\ t[j] = Cont => j > 1 /\ t[j - 1] = Lead
    BY <1>2, <1>4 DEF WellFormed
<1>6. t[j] = Lead => j < i
  <2> SUFFICES ASSUME t[j] = Lead, ~(j < i) PROVE FALSE
      OBVIOUS
  <2>1. j = i
      BY <1>2, <1>4
  <2>2. j < Len(t) /\ t[j + 1] = Cont
      BY <1>5
  <2>3. i # 0 /\ i # Len(t) /\ t[i + 1] = Cont
    <3>1. i # 0 /\ t[i + 1] = Cont
        BY <1>4, <2>1, <2>2
    <3>2. i < Len(t) /\ i \in Nat /\ Len(t) \in Nat
        BY <1>2, <2>1, <2>2
    <3>3. QED BY <3>1, <3>2
  <2>4. QED BY <2>3 DEF Boundary
<1>7. (j < i => j + 1 \in 1 .. i) /\ (j > 1 => j - 1 \in 1 .. i)
    BY <1>2
<1>8. QED BY <1>1, <1>5, <1>6, <1>7

LEMMA StopIsWhole ==
    ASSUME NEW t \in Seq(TextByte), WellFormed(t), NEW f \in Nat, NEW k \in Found(t, f)
    PROVE  CutAt(t, k, f) \in 0 .. Len(t) /\ Boundary(t, CutAt(t, k, f))
<1> DEFINE s == StopStrings[k]
           l == Len(s)
           p == FirstAt(t, k, f)
<1>1. /\ k \in DOMAIN StopStrings /\ s # <<>> /\ p \in At(t, s, f) /\ p \in Nat /\ p + l <= Len(t)
    BY FirstIs
<1>2. s \in Seq(TextByte) /\ l \in Nat \ {0} /\ WellFormed(s) /\ DOMAIN s = 1 .. l
    BY <1>1, StopsAre
<1>3. SubSeq(t, p + 1, p + l) = s
    BY <1>1 DEF At
<1> HIDE DEF p
<1>4. \A i \in 1 .. l : /\ s[i] = Lead => i < l
                        /\ s[i] = Cont => i > 1
    BY <1>2 DEF WellFormed
<1>5. Len(t) \in Nat /\ 1 \in 1 .. l /\ l \in 1 .. l
    BY <1>2
<1>6. \A i \in 1 .. Len(t) : t[i] = Cont => i > 1 /\ t[i - 1] = Lead
  <2>1. DOMAIN t = 1 .. Len(t)
      OBVIOUS
  <2>2. QED BY <2>1 DEF WellFormed
<1> HIDE DEF l, s
<1>7. \A i \in 1 .. l : s[i] = t[p + i]
  <2>1. l \in Nat
      BY <1>2
  <2>2. \A i \in 1 .. l : SubSeq(t, p + 1, p + l)[i] = t[p + i]
      BY <1>1, <2>1, NextOnes
  <2>3. QED BY <1>3, <2>2
<1>8. Boundary(t, p)
  <2>1. s[1] # Cont
      BY <1>4, <1>5
  <2>2. QED BY <1>5, <1>7, <2>1 DEF Boundary
<1>9. Boundary(t, p + l)
  <2> DEFINE h == p + l + 1
  <2> SUFFICES ASSUME p + l # Len(t), t[h] = Cont PROVE FALSE
      BY DEF Boundary
  <2>1. h \in 1 .. Len(t) /\ h - 1 = p + l
      BY <1>1, <1>2, <1>5
  <2> HIDE DEF h
  <2>2. t[h - 1] = Lead
      BY <1>6, <2>1
  <2>3. s[l] = Lead
      BY <1>5, <1>7, <2>1, <2>2
  <2>4. l < l
      BY <1>4, <1>5, <2>3
  <2>5. QED BY <1>2, <2>4
<1>10. CutAt(t, k, f) = p + l \/ CutAt(t, k, f) = p
  <2>1. p \in Nat
      BY <1>1
  <2>2. QED BY <2>1 DEF CutAt, l, p, s
<1>11. p \in 0 .. Len(t) /\ p + l \in 0 .. Len(t)
    BY <1>1, <1>2, <1>5
<1>12. QED BY <1>8, <1>9, <1>10, <1>11

\* The text of a longer one begins with that of the shorter one.
LEMMA ShowsOn ==
    ASSUME NEW a \in Seq(TextByte), NEW x \in Seq(TextByte), NEW t, t = a \o x,
           NEW n \in 0 .. Len(a), NEW e \in 0 .. Len(t)
    PROVE  /\ SubSeq(t, 1, n) = SubSeq(a, 1, n)
           /\ e > n => SubSeq(a, 1, n) \o SubSeq(t, n + 1, e) = SubSeq(t, 1, e)
<1>1. t \in Seq(TextByte) /\ Len(t) = Len(a) + Len(x) /\ Len(a) \in Nat /\ Len(x) \in Nat
    BY ConcatProperties
<1>2. Len(a) \in 0 .. Len(t) /\ n \in Nat /\ e \in Nat
    BY <1>1
<1>3. SubSeq(t, 1, Len(a)) = a
    BY FirstOfConcat
<1>4. SubSeq(t, 1, n) = SubSeq(a, 1, n)
    BY <1>1, <1>2, <1>3, FirstOfFirst
<1>5. ASSUME e > n
      PROVE  SubSeq(t, 1, n) \o SubSeq(t, n + 1, e) = SubSeq(t, 1, e)
  <2> DEFINE c == e - n
  <2>1. c \in Nat /\ n + c = e /\ e <= Len(t)
      BY <1>1, <1>2, <1>5
  <2> HIDE DEF c
  <2>2. SubSeq(t, 1, n) \o SubSeq(t, n + 1, n + c) = SubSeq(t, 1, n + c)
      BY <1>1, <1>2, <2>1, FirstAndNext
  <2>3. QED BY <2>1, <2>2
<1>6. QED BY <1>4, <1>5

(***************************************************************************)
(* The search in the longer text, which begins where what was held back    *)
(* does, finds what a search of all of it finds.                           *)
(***************************************************************************)
LEMMA SearchGoesOn ==
    ASSUME NEW a \in Seq(TextByte), NEW x \in Seq(TextByte), NEW t, t = a \o x,
           WellFormed(t), Found(a, 0) = {}, NEW from \in Nat, from <= Behind(a),
           NEW f, f = FloorChar(t, Min({from, Len(t)}))
    PROVE  /\ f \in Nat /\ Found(t, f) = Found(t, 0)
           /\ Found(t, 0) # {} =>
                /\ CutAt(t, Earliest(t, from), f) = CutAt(t, Earliest(t, 0), 0)
                /\ CutAt(t, Earliest(t, 0), 0) \in Behind(a) .. Len(t)
                /\ WellFormed(SubSeq(t, 1, CutAt(t, Earliest(t, 0), 0)))
<1>1. t \in Seq(TextByte) /\ Len(t) = Len(a) + Len(x) /\ Len(a) \in Nat /\ Len(x) \in Nat
    BY ConcatProperties
<1>2. Behind(a) \in 0 .. Len(a) /\ Behind(a) \in Nat
    BY BehindIs
<1>3. Min({from, Len(t)}) = from /\ from \in 0 .. Len(t)
    BY <1>1, <1>2, MinOfTwo
<1>4. f \in Nat /\ f <= Behind(a)
  <2>1. FloorChar(t, from) \in 0 .. from
      BY <1>1, <1>3, FloorIs
  <2>2. QED BY <1>2, <1>3, <2>1
<1>5. /\ Found(t, f) = Found(t, 0)
      /\ \A k \in Found(t, 0) : FirstAt(t, k, f) = FirstAt(t, k, 0)
    BY <1>4, SearchSkips
<1>6. ASSUME Found(t, 0) # {}
      PROVE  /\ CutAt(t, Earliest(t, from), f) = CutAt(t, Earliest(t, 0), 0)
             /\ CutAt(t, Earliest(t, 0), 0) \in Behind(a) .. Len(t)
             /\ WellFormed(SubSeq(t, 1, CutAt(t, Earliest(t, 0), 0)))
  <2> DEFINE k == Earliest(t, from)
             z == Earliest(t, 0)
             c == CutAt(t, z, 0)
  <2>1. Leads(t, f, k)
      BY <1>1, <1>4, <1>5, <1>6, EarliestLeads
  <2>2. FloorChar(t, Min({0, Len(t)})) = 0
    <3>1. Min({0, Len(t)}) = 0 /\ 0 \in 0 .. Len(t)
        BY <1>1, MinOfTwo
    <3>2. FloorChar(t, 0) \in 0 .. 0
        BY <1>1, <3>1, FloorIs
    <3>3. QED BY <3>1, <3>2
  <2>3. Leads(t, 0, z)
      BY <1>1, <1>6, <2>2, EarliestLeads
  <2> HIDE DEF k, z
  <2>4. Leads(t, f, z)
    <3>1. z \in Found(t, f) /\ FirstAt(t, z, f) = FirstAt(t, z, 0)
        BY <1>5, <2>3 DEF Leads
    <3>2. ASSUME NEW j \in Found(t, f)
          PROVE  FirstAt(t, z, f) < FirstAt(t, j, f) \/ (FirstAt(t, z, f) = FirstAt(t, j, f) /\ z <= j)
      <4>1. j \in Found(t, 0) /\ FirstAt(t, j, f) = FirstAt(t, j, 0)
          BY <1>5, <3>2
      <4>2. FirstAt(t, z, 0) < FirstAt(t, j, 0) \/ (FirstAt(t, z, 0) = FirstAt(t, j, 0) /\ z <= j)
          BY <2>3, <4>1 DEF Leads
      <4>3. QED BY <3>1, <4>1, <4>2
    <3>3. QED BY <3>1, <3>2 DEF Leads
  <2>5. k = z
      BY <1>1, <1>4, <2>1, <2>4, OneLeads
  <2>6. z \in Found(t, 0) /\ FirstAt(t, z, f) = FirstAt(t, z, 0)
      BY <1>5, <2>3 DEF Leads
  <2>7. CutAt(t, z, f) = c
      BY <2>6 DEF CutAt
  <2>8. c \in 0 .. Len(t) /\ Boundary(t, c)
      BY <1>1, <2>6, StopIsWhole
  <2>9. /\ z \in DOMAIN StopStrings /\ StopStrings[z] # <<>>
        /\ FirstAt(t, z, 0) \in At(t, StopStrings[z], 0)
      BY <1>1, <2>6, FirstIs
  <2>10. FirstAt(t, z, 0) \in Nat /\ FirstAt(t, z, 0) >= Behind(a)
      BY <2>9, NewOnes
  <2>11. c >= FirstAt(t, z, 0)
    <3>1. Len(StopStrings[z]) \in Nat
        BY <2>9, StopsAre
    <3>2. QED BY <2>10, <3>1 DEF CutAt
  <2> HIDE DEF c
  <2>12. WellFormed(SubSeq(t, 1, c))
      BY <1>1, <2>8, CutIsWhole
  <2>13. c \in Behind(a) .. Len(t)
      BY <1>1, <1>2, <2>8, <2>10, <2>11
  <2>14. QED BY <2>5, <2>7, <2>12, <2>13 DEF c, k, z
<1>7. QED BY <1>4, <1>5, <1>6

-----------------------------------------------------------------------------
(***************************************************************************)
(* The invariant of a text.  The text and what is buffered are the tokens; *)
(* the client has the first of it, whole characters, and while no stop     *)
(* string was found neither what it has nor the next search reaches past   *)
(* what is held back.  The text a stop string ended is the first that has  *)
(* one.                                                                    *)
(***************************************************************************)
TextTypes ==
    /\ toks \in Seq(Pieces) /\ Len(toks) <= TokenMax
    /\ acc \in Seq(TextByte) /\ buf \in Seq(TextByte)
    /\ include \in BOOLEAN /\ stopped \in BOOLEAN /\ flushed \in BOOLEAN
    /\ sent \in 0 .. Len(acc) /\ scanFrom \in Nat

WholeText == WellFormed(acc) /\ CompletePrefix(buf) = 0 /\ FlattenSeq(toks) = acc \o buf

ShownIs == shown = SubSeq(acc, 1, sent) /\ WellFormed(shown)

SearchedIs ==
    IF stopped THEN Found(acc, 0) # {} /\ sent = CutAt(acc, Earliest(acc, 0), 0)
    ELSE /\ Found(acc, 0) = {}
         /\ IF flushed THEN sent = Len(acc) ELSE sent <= Behind(acc) /\ scanFrom <= Behind(acc)

NoneBefore == \A n \in 0 .. Len(toks) : n < Len(toks) => Found(TextOf(SubSeq(toks, 1, n)), 0) = {}

TextInv == TextTypes /\ WholeText /\ ShownIs /\ SearchedIs /\ NoneBefore

LEMMA NothingYet ==
    /\ <<>> \in Seq(TextByte) /\ Len(<<>>) = 0 /\ WellFormed(<<>>)
    /\ CompletePrefix(<<>>) = 0 /\ Found(<<>>, 0) = {} /\ Behind(<<>>) = 0
<1>1. <<>> \in Seq(TextByte) /\ Len(<<>>) = 0
    OBVIOUS
<1>2. WellFormed(<<>>)
    BY DEF WellFormed
<1> DEFINE e == <<>>
<1>3. e \in Seq(TextByte) /\ Len(e) = 0
    BY <1>1
<1> HIDE DEF e
<1>4. CompletePrefix(e) = 0
  <2>1. CompletePrefix(e) \in 0 .. Len(e)
      BY <1>3, CompleteIs
  <2>2. QED BY <1>3, <2>1
<1>5. Behind(e) = 0
  <2>1. Behind(e) \in 0 .. Len(e)
      BY <1>3, BehindIs
  <2>2. QED BY <1>3, <2>1
<1>6. Found(e, 0) = {}
  <2> SUFFICES ASSUME NEW k \in Found(e, 0) PROVE FALSE
      OBVIOUS
  <2> DEFINE z == FirstAt(e, k, 0)
  <2>1. /\ k \in DOMAIN StopStrings /\ StopStrings[k] # <<>>
        /\ z \in Nat /\ z + Len(StopStrings[k]) <= Len(e)
    <3>1. 0 \in Nat
        OBVIOUS
    <3>2. QED BY <1>3, <3>1, FirstIs, Zenon
  <2> HIDE DEF z
  <2>2. Len(StopStrings[k]) \in Nat \ {0}
      BY <2>1, StopsAre
  <2>3. QED BY <1>3, <2>1, <2>2
<1>7. QED BY <1>1, <1>2, <1>4, <1>5, <1>6 DEF e

LEMMA TextBegins == TextInit => TextInv
<1> SUFFICES ASSUME TextInit PROVE TextInv
    OBVIOUS
<1>1. TextTypes
  <2>1. <<>> \in Seq(Pieces) /\ Len(<<>>) <= TokenMax /\ 0 \in 0 .. Len(<<>>) /\ 0 \in Nat
      BY TextAssumption
  <2>2. QED BY <2>1, NothingYet DEF TextInit, TextTypes
<1>2. WholeText
  <2>1. FlattenSeq(<<>>) = <<>>
      BY DEF FlattenSeq
  <2>2. <<>> \o <<>> = <<>>
      OBVIOUS
  <2>3. QED BY <2>1, <2>2, NothingYet DEF TextInit, WholeText
<1>3. ShownIs
  <2>1. SubSeq(<<>>, 1, 0) = <<>>
      OBVIOUS
  <2>2. QED BY <2>1, NothingYet DEF TextInit, ShownIs
<1>4. SearchedIs
    BY NothingYet DEF TextInit, SearchedIs
<1>5. NoneBefore
    BY NothingYet DEF TextInit, NoneBefore
<1>6. QED BY <1>1, <1>2, <1>3, <1>4, <1>5 DEF TextInv

\* A token adds whole characters to the text and the rest to the buffer.
LEMMA PushAdds ==
    ASSUME TextInv, NEW p \in Pieces, Push(p), NEW b, b = buf \o p,
           NEW x, x = SubSeq(b, 1, CompletePrefix(b))
    PROVE  /\ x \in Seq(TextByte) /\ acc' = acc \o x /\ acc' \in Seq(TextByte)
           /\ Len(acc') = Len(acc) + Len(x) /\ Len(acc) \in Nat /\ Len(x) \in Nat
           /\ buf' \in Seq(TextByte) /\ toks' \in Seq(Pieces) /\ Len(toks') = Len(toks) + 1
           /\ WholeText'
<1> DEFINE v == CompletePrefix(b)
           r == SubSeq(b, v + 1, Len(b))
<1>1. /\ toks \in Seq(Pieces) /\ Len(toks) <= TokenMax /\ acc \in Seq(TextByte) /\ buf \in Seq(TextByte)
      /\ WellFormed(acc) /\ CompletePrefix(buf) = 0 /\ FlattenSeq(toks) = acc \o buf
    BY DEF TextInv, TextTypes, WholeText
<1>2. acc' = acc \o SubSeq(b, 1, v) /\ buf' = r /\ toks' = Append(toks, p)
    BY DEF Push
<1>3. p \in Seq(TextByte) /\ toks \in Seq(Seq(TextByte))
    BY <1>1, TextAssumption
<1>4. b \in Seq(TextByte) /\ Len(b) \in Nat
    BY <1>1, <1>3
<1>5. v \in 0 .. Len(b) /\ WellFormed(x) /\ \A w \in 0 .. Len(b) : WellFormed(SubSeq(b, 1, w)) => w <= v
    BY <1>4, CompleteIs
<1> HIDE DEF v
<1>6. x = SubSeq(b, 1, v) /\ x \in Seq(TextByte) /\ Len(x) = v
    BY <1>4, <1>5, FirstOnes DEF v
<1>7. x \o r = b /\ r \in Seq(TextByte)
  <2> DEFINE l == Len(b) - v
  <2>1. l \in Nat /\ v + l = Len(b) /\ v \in Nat
      BY <1>4, <1>5
  <2> HIDE DEF l
  <2>2. SubSeq(b, 1, v) \o SubSeq(b, v + 1, v + l) = SubSeq(b, 1, v + l)
      BY <1>4, <2>1, FirstAndNext
  <2>3. SubSeq(b, v + 1, v + l) \in Seq(TextByte)
      BY <1>4, <2>1, NextOnes
  <2>4. SubSeq(b, 1, Len(b)) = b
      BY <1>4, SubSeqFull
  <2>5. QED BY <1>6, <2>1, <2>2, <2>3, <2>4
<1> HIDE DEF r
<1>8. acc' = acc \o x /\ acc' \in Seq(TextByte) /\ Len(acc') = Len(acc) + Len(x) /\ Len(acc) \in Nat /\ Len(x) \in Nat
  <2>1. acc' = acc \o x
      BY <1>2, <1>6
  <2>2. acc \in Seq(TextByte) /\ x \in Seq(TextByte)
      BY <1>1, <1>6
  <2>3. acc \o x \in Seq(TextByte) /\ Len(acc \o x) = Len(acc) + Len(x)
      BY <2>2, ConcatProperties
  <2>4. Len(acc) \in Nat /\ Len(x) \in Nat
      BY <2>2, LenProperties
  <2>5. QED BY <2>1, <2>3, <2>4
<1>9. WellFormed(acc')
    BY <1>1, <1>5, <1>6, <1>8, WholeBehindWhole
<1>10. CompletePrefix(buf') = 0
  <2>1. CompletePrefix(x \o r) = Len(x) + CompletePrefix(r)
      BY <1>5, <1>6, <1>7, CompleteBehind
  <2>2. CompletePrefix(r) \in 0 .. Len(r)
      BY <1>7, CompleteIs
  <2> DEFINE w == CompletePrefix(r)
  <2>3. v = v + w
      BY <1>6, <1>7, <2>1 DEF v
  <2>4. w \in Nat
      BY <2>2
  <2> HIDE DEF w
  <2>5. w = 0
      BY <1>4, <1>5, <2>3, <2>4
  <2>6. QED BY <1>2, <2>5 DEF w
<1>11. FlattenSeq(toks') = acc' \o buf'
  <2>1. FlattenSeq(toks') = (acc \o buf) \o p
      BY <1>1, <1>2, <1>3, FlattenAppend
  <2>2. (acc \o buf) \o p = acc \o (buf \o p)
      BY <1>1, <1>3
  <2>3. acc \o (x \o r) = (acc \o x) \o r
    <3>1. acc \in Seq(TextByte) /\ x \in Seq(TextByte) /\ r \in Seq(TextByte)
        BY <1>1, <1>6, <1>7
    <3>2. (acc \o x) \o r = acc \o (x \o r)
      <4>1. \A q, y, z \in Seq(TextByte) : (q \o y) \o z = q \o (y \o z)
          OBVIOUS
      <4>2. QED BY <3>1, <4>1, Zenon
    <3>3. QED BY <3>2
  <2>4. QED BY <1>2, <1>7, <1>8, <2>1, <2>2, <2>3
<1>12. toks' \in Seq(Pieces) /\ Len(toks') = Len(toks) + 1
    BY <1>1, <1>2, AppendProperties
<1>13. QED BY <1>2, <1>6, <1>7, <1>8, <1>9, <1>10, <1>11, <1>12 DEF WholeText

\* What the client has grows with the text, to the end that is shown now.
LEMMA ShowIs ==
    ASSUME TextInv, NEW x \in Seq(TextByte), acc' = acc \o x, NEW e \in 0 .. Len(acc'), Show(e),
           WellFormed(SubSeq(acc', 1, e))
    PROVE  /\ sent' = IF e > sent THEN e ELSE sent
           /\ sent' \in 0 .. Len(acc') /\ shown' = SubSeq(acc', 1, sent') /\ WellFormed(shown')
<1>1. acc \in Seq(TextByte) /\ sent \in 0 .. Len(acc) /\ shown = SubSeq(acc, 1, sent) /\ WellFormed(shown)
    BY DEF TextInv, TextTypes, ShownIs
<1>2. Len(acc') = Len(acc) + Len(x) /\ Len(acc) \in Nat /\ Len(x) \in Nat
    BY <1>1, ConcatProperties
<1>3. /\ SubSeq(acc', 1, sent) = SubSeq(acc, 1, sent)
      /\ e > sent => SubSeq(acc, 1, sent) \o SubSeq(acc', sent + 1, e) = SubSeq(acc', 1, e)
  <2>1. \A t : t = acc \o x =>
           \A n \in 0 .. Len(acc), l \in 0 .. Len(t) :
              /\ SubSeq(t, 1, n) = SubSeq(acc, 1, n)
              /\ l > n => SubSeq(acc, 1, n) \o SubSeq(t, n + 1, l) = SubSeq(t, 1, l)
      BY <1>1, ShowsOn
  <2>2. QED BY <1>1, <2>1
<1>4. /\ sent' = IF e > sent THEN e ELSE sent
      /\ shown' = IF e > sent THEN shown \o SubSeq(acc', sent + 1, e) ELSE shown
    BY DEF Show
<1>5. sent' \in 0 .. Len(acc')
    BY <1>1, <1>2, <1>4
<1>6. CASE e > sent
    BY <1>1, <1>3, <1>4, <1>5, <1>6
<1>7. CASE ~(e > sent)
    BY <1>1, <1>3, <1>4, <1>5, <1>7
<1>8. QED BY <1>4, <1>6, <1>7

\* The text of the tokens is what was made of them.
LEMMA TextIs ==
    ASSUME TextInv
    PROVE  TextOf(toks) = acc
<1> DEFINE c == CompletePrefix(acc \o buf)
<1>1. acc \in Seq(TextByte) /\ buf \in Seq(TextByte) /\ WellFormed(acc) /\ CompletePrefix(buf) = 0
    BY DEF TextInv, TextTypes, WholeText
<1>2. c = Len(acc)
  <2>1. c = Len(acc) + CompletePrefix(buf)
      BY <1>1, CompleteBehind
  <2>2. Len(acc) \in Nat
      BY <1>1
  <2>3. QED BY <1>1, <2>1, <2>2
<1>3. SubSeq(acc \o buf, 1, Len(acc)) = acc
    BY <1>1, FirstOfConcat
<1>4. TextOf(toks) = SubSeq(acc \o buf, 1, c)
    BY DEF TextInv, WholeText, TextOf
<1> HIDE DEF c
<1>5. QED BY <1>2, <1>3, <1>4

LEMMA PushKeeps ==
    ASSUME TextInv, NEW p \in Pieces, Push(p)
    PROVE  TextInv'
<1> DEFINE b == buf \o p
           x == SubSeq(b, 1, CompletePrefix(b))
           f == FloorChar(acc', Min({scanFrom, Len(acc')}))
           h == Behind(acc')
<1>1. /\ x \in Seq(TextByte) /\ acc' = acc \o x /\ acc' \in Seq(TextByte)
      /\ Len(acc') = Len(acc) + Len(x) /\ Len(acc) \in Nat /\ Len(x) \in Nat
      /\ buf' \in Seq(TextByte) /\ toks' \in Seq(Pieces) /\ Len(toks') = Len(toks) + 1
      /\ WholeText'
    BY PushAdds
<1> HIDE DEF x
<1>2. /\ toks \in Seq(Pieces) /\ Len(toks) <= TokenMax /\ acc \in Seq(TextByte) /\ scanFrom \in Nat
      /\ sent \in 0 .. Len(acc) /\ Found(acc, 0) = {} /\ sent <= Behind(acc) /\ scanFrom <= Behind(acc)
      /\ include \in BOOLEAN /\ flushed = FALSE /\ stopped = FALSE
    BY DEF Push, TextInv, TextTypes, SearchedIs
<1>3. /\ include' = include /\ flushed' = FALSE /\ toks' = Append(toks, p) /\ Len(toks) < TokenMax
      /\ IF Found(acc', f) # {}
         THEN stopped' = TRUE /\ Show(CutAt(acc', Earliest(acc', scanFrom), f)) /\ scanFrom' = scanFrom
         ELSE /\ scanFrom' = Behind(acc) /\ Show(FloorChar(acc', h)) /\ stopped' = FALSE
    BY <1>2 DEF Push, Behind, ScanFrom
<1>4. WellFormed(acc')
    BY <1>1 DEF WholeText
<1>5. /\ f \in Nat /\ Found(acc', f) = Found(acc', 0)
      /\ Found(acc', 0) # {} =>
           /\ CutAt(acc', Earliest(acc', scanFrom), f) = CutAt(acc', Earliest(acc', 0), 0)
           /\ CutAt(acc', Earliest(acc', 0), 0) \in Behind(acc) .. Len(acc')
           /\ WellFormed(SubSeq(acc', 1, CutAt(acc', Earliest(acc', 0), 0)))
  <2>1. \A t, g : t = acc \o x /\ WellFormed(t) /\ g = FloorChar(t, Min({scanFrom, Len(t)})) =>
           /\ g \in Nat /\ Found(t, g) = Found(t, 0)
           /\ Found(t, 0) # {} =>
                /\ CutAt(t, Earliest(t, scanFrom), g) = CutAt(t, Earliest(t, 0), 0)
                /\ CutAt(t, Earliest(t, 0), 0) \in Behind(acc) .. Len(t)
                /\ WellFormed(SubSeq(t, 1, CutAt(t, Earliest(t, 0), 0)))
      BY <1>1, <1>2, SearchGoesOn
  <2>2. QED BY <1>1, <1>4, <2>1
<1> HIDE DEF f, h
<1>6. /\ Behind(acc) \in Nat /\ Behind(acc) <= h /\ h \in Nat /\ h \in 0 .. Len(acc')
  <2>1. Behind(acc) \in Nat /\ \A y \in Seq(TextByte) : Len(acc) <= Len(y) => Behind(acc) <= Behind(y)
      BY <1>2, BehindIs
  <2>2. Behind(acc') \in Nat /\ Behind(acc') \in 0 .. Len(acc')
      BY <1>1, BehindIs
  <2>3. Len(acc) <= Len(acc')
      BY <1>1
  <2>4. QED BY <1>1, <2>1, <2>2, <2>3 DEF h
<1>7. /\ sent' \in 0 .. Len(acc') /\ scanFrom' \in Nat /\ stopped' \in BOOLEAN
      /\ ShownIs' /\ SearchedIs'
  <2>1. CASE Found(acc', 0) # {}
    <3> DEFINE c == CutAt(acc', Earliest(acc', 0), 0)
    <3>1. stopped' = TRUE /\ Show(c) /\ scanFrom' = scanFrom
        BY <1>3, <1>5, <2>1
    <3>2. c \in Behind(acc) .. Len(acc') /\ WellFormed(SubSeq(acc', 1, c))
        BY <1>5, <2>1
    <3>3. SearchedIs' <=> sent' = c
        BY <1>3, <2>1, <3>1 DEF SearchedIs, CutAt
    <3> HIDE DEF c
    <3>4. c \in 0 .. Len(acc') /\ c >= sent
        BY <1>1, <1>2, <1>6, <3>2
    <3>5. /\ sent' = IF c > sent THEN c ELSE sent
          /\ sent' \in 0 .. Len(acc') /\ shown' = SubSeq(acc', 1, sent') /\ WellFormed(shown')
        BY <1>1, <3>1, <3>2, <3>4, ShowIs
    <3>6. sent' = c
        BY <1>1, <1>2, <3>4, <3>5
    <3>7. QED BY <1>2, <3>1, <3>3, <3>5, <3>6 DEF ShownIs
  <2>2. CASE Found(acc', 0) = {}
    <3> DEFINE e == FloorChar(acc', h)
    <3>1. stopped' = FALSE /\ Show(e) /\ scanFrom' = Behind(acc)
        BY <1>3, <1>5, <2>2
    <3>2. e \in 0 .. h /\ Boundary(acc', e)
        BY <1>1, <1>6, FloorIs
    <3> HIDE DEF e
    <3>3. e \in 0 .. Len(acc')
        BY <1>1, <1>6, <3>2
    <3>4. WellFormed(SubSeq(acc', 1, e))
        BY <1>1, <1>4, <3>2, <3>3, CutIsWhole
    <3>5. /\ sent' = IF e > sent THEN e ELSE sent
          /\ sent' \in 0 .. Len(acc') /\ shown' = SubSeq(acc', 1, sent') /\ WellFormed(shown')
        BY <1>1, <3>1, <3>3, <3>4, ShowIs
    <3>6. sent' <= h /\ scanFrom' <= h
        BY <1>1, <1>2, <1>6, <3>1, <3>2, <3>5
    <3>7. SearchedIs'
        BY <1>3, <2>2, <3>1, <3>6 DEF SearchedIs, h, Behind
    <3>8. QED BY <1>6, <3>1, <3>5, <3>7 DEF ShownIs
  <2>3. QED BY <2>1, <2>2
<1>8. TextTypes'
  <2>1. Len(toks) \in Nat /\ Len(toks') <= TokenMax
      BY <1>1, <1>2, <1>3, TextAssumption
  <2>2. include' \in BOOLEAN /\ flushed' \in BOOLEAN
      BY <1>2, <1>3
  <2>3. QED BY <1>1, <1>7, <2>1, <2>2 DEF TextTypes
<1>9. NoneBefore'
  <2> SUFFICES ASSUME NEW n \in 0 .. Len(toks'), n < Len(toks')
               PROVE  Found(TextOf(SubSeq(toks', 1, n)), 0) = {}
      BY DEF NoneBefore
  <2>1. Len(toks) \in Nat /\ n \in 0 .. Len(toks)
      BY <1>1, <1>2
  <2>2. SubSeq(toks', 1, n) = SubSeq(toks, 1, n)
      BY <1>2, <1>3, <2>1, FrontOfAppend
  <2>3. CASE n = Len(toks)
    <3>1. SubSeq(toks, 1, n) = toks
        BY <1>2, <2>3, SubSeqFull
    <3>2. QED BY <1>2, <2>2, <3>1, TextIs
  <2>4. CASE n < Len(toks)
      BY <2>1, <2>2, <2>4 DEF TextInv, NoneBefore
  <2>5. QED BY <2>1, <2>3, <2>4
<1>10. QED BY <1>1, <1>7, <1>8, <1>9 DEF TextInv

LEMMA FlushKeeps ==
    ASSUME TextInv, Flush
    PROVE  TextInv'
<1>1. /\ acc' = acc /\ toks' = toks /\ buf' = buf /\ include' = include /\ scanFrom' = scanFrom
      /\ stopped' = stopped /\ flushed' = TRUE /\ flushed = FALSE
    BY DEF Flush, TextInv, TextTypes
<1>2. /\ toks \in Seq(Pieces) /\ Len(toks) <= TokenMax /\ acc \in Seq(TextByte) /\ buf \in Seq(TextByte)
      /\ sent \in 0 .. Len(acc) /\ Len(acc) \in Nat /\ scanFrom \in Nat /\ stopped \in BOOLEAN
      /\ include \in BOOLEAN /\ WellFormed(acc) /\ shown = SubSeq(acc, 1, sent) /\ WellFormed(shown)
    BY DEF TextInv, TextTypes, WholeText, ShownIs
<1>3. WholeText' /\ NoneBefore'
    BY <1>1 DEF TextInv, WholeText, NoneBefore
<1>4. /\ sent' \in 0 .. Len(acc) /\ shown' = SubSeq(acc, 1, sent') /\ WellFormed(shown')
      /\ IF stopped THEN sent' = sent ELSE sent' = Len(acc)
  <2>1. CASE stopped
      BY <1>2, <2>1 DEF Flush
  <2>2. CASE ~stopped
    <3> DEFINE c == Len(acc) - sent
    <3>1. sent' = Len(acc) /\ shown' = shown \o SubSeq(acc, sent + 1, Len(acc))
        BY <2>2 DEF Flush
    <3>2. c \in Nat /\ sent + c = Len(acc) /\ sent \in Nat
        BY <1>2
    <3> HIDE DEF c
    <3>3. SubSeq(acc, 1, sent) \o SubSeq(acc, sent + 1, sent + c) = SubSeq(acc, 1, sent + c)
      <4>1. sent + c <= Len(acc) /\ acc \in Seq(TextByte)
          BY <1>2, <3>2
      <4>2. QED BY <3>2, <4>1, FirstAndNext
    <3>4. SubSeq(acc, 1, Len(acc)) = acc
        BY <1>2, SubSeqFull
    <3>5. shown' = SubSeq(acc, 1, Len(acc))
        BY <1>2, <3>1, <3>2, <3>3
    <3>6. WellFormed(shown') /\ shown' = SubSeq(acc, 1, sent')
        BY <1>2, <3>1, <3>4, <3>5
    <3>7. sent' \in 0 .. Len(acc)
        BY <1>2, <3>1
    <3>8. QED BY <2>2, <3>1, <3>6, <3>7
  <2>3. QED BY <1>2, <2>1, <2>2
<1>5. ShownIs'
    BY <1>1, <1>4 DEF ShownIs
<1>6. SearchedIs'
    BY <1>1, <1>4 DEF TextInv, SearchedIs, CutAt
<1>7. TextTypes'
    BY <1>1, <1>2, <1>4 DEF TextTypes
<1>8. QED BY <1>3, <1>5, <1>6, <1>7 DEF TextInv

LEMMA TextInvariant == TextSpec => []TextInv
<1>1. TextInit => TextInv
    BY TextBegins
<1>2. TextInv /\ [TextNext]_textVars => TextInv'
  <2> SUFFICES ASSUME TextInv, [TextNext]_textVars PROVE TextInv'
      OBVIOUS
  <2>1. ASSUME NEW p \in Pieces, Push(p) PROVE TextInv'
      BY <2>1, PushKeeps
  <2>2. CASE Flush
      BY <2>2, FlushKeeps
  <2>3. CASE UNCHANGED textVars
      BY <2>3 DEF textVars, TextInv, TextTypes, WholeText, ShownIs, SearchedIs, CutAt, NoneBefore
  <2>4. QED BY <2>1, <2>2, <2>3 DEF TextNext
<1>3. QED BY <1>1, <1>2, PTL DEF TextSpec

(***************************************************************************)
(* The text of an answer and what the client has of it are whole           *)
(* characters at every step, although a token may end inside one and a     *)
(* stop string or the text held back may cut the stream anywhere (Detok,   *)
(* TextStream::push, floor_char_boundary).                                 *)
(***************************************************************************)
THEOREM TextTypeCorrect == TextSpec => []TextTypeOK
<1>1. TextInv => TextTypeOK
    BY DEF TextInv, TextTypes, WholeText, ShownIs, TextTypeOK
<1>2. QED BY <1>1, TextInvariant, PTL

(***************************************************************************)
(* What a stream was shown ends where a search of the whole text for the   *)
(* earliest stop string would end it (TextStream::push, earliest_stop),    *)
(* whatever the tokens and the stop strings are.                           *)
(***************************************************************************)
THEOREM CutsAtEarliest == TextSpec => []CutAtEarliest
<1>1. TextInv => CutAtEarliest
    BY DEF TextInv, ShownIs, SearchedIs, CutAtEarliest
<1>2. QED BY <1>1, TextInvariant, PTL

LEMMA OnlyOne ==
    ASSUME NEW t, Cardinality(Found(t, 0)) <= 1, NEW k \in Found(t, 0)
    PROVE  k \in Nat /\ Found(t, 0) = {k}
<1>1. Found(t, 0) \subseteq 1 .. Len(StopStrings) /\ Len(StopStrings) \in Nat
    BY StopsAre DEF Found
<1>2. IsFiniteSet(1 .. Len(StopStrings))
    BY <1>1, FS_Interval
<1>3. IsFiniteSet(Found(t, 0))
    BY <1>1, <1>2, FS_Subset
<1>4. k \in Nat
    BY <1>1
<1> DEFINE F == Found(t, 0)
<1>5. ASSUME NEW j \in F, j # k
      PROVE  FALSE
  <2>1. IsFiniteSet({k}) /\ Cardinality({k}) = 1
      BY FS_Singleton
  <2>2. Cardinality({k} \cup {j}) = 2 /\ IsFiniteSet({k} \cup {j})
    <3>1. j \notin {k}
        BY <1>5
    <3>2. QED BY <2>1, <3>1, FS_AddElement
  <2>3. Cardinality({k} \cup {j}) <= Cardinality(F)
    <3>1. {k} \cup {j} \in SUBSET F
        BY <1>5
    <3> HIDE DEF F
    <3>2. IsFiniteSet(F)
        BY <1>3 DEF F
    <3>3. QED BY <3>1, <3>2, FS_Subset
  <2>4. Cardinality(F) \in Nat
      BY <1>3, FS_CardinalityType
  <2>5. QED BY <2>2, <2>3, <2>4
<1>6. QED BY <1>4, <1>5

(***************************************************************************)
(* A stream shows the text that is the answer of the same request when it  *)
(* is not streamed (run_and_emit), if one stop string is in it: for any    *)
(* tokens, and any stop strings of whole characters.                       *)
(***************************************************************************)
THEOREM StreamsTheAnswer == TextSpec => []StreamIsAnswer
<1>1. ASSUME TextInv, flushed, Cardinality(Found(acc, 0)) <= 1
      PROVE  shown = Whole(toks)
  <2> DEFINE hits == {n \in 0 .. Len(toks) : Found(TextOf(SubSeq(toks, 1, n)), 0) # {}}
             l == Len(toks)
  <2>1. /\ toks \in Seq(Pieces) /\ l \in Nat /\ acc \in Seq(TextByte) /\ sent \in 0 .. Len(acc)
        /\ shown = SubSeq(acc, 1, sent)
      BY <1>1 DEF TextInv, TextTypes, ShownIs
  <2>2. TextOf(SubSeq(toks, 1, l)) = acc /\ TextOf(toks) = acc
    <3>1. SubSeq(toks, 1, l) = toks
        BY <2>1, SubSeqFull
    <3>2. QED BY <1>1, <3>1, TextIs
  <2>3. \A n \in 0 .. l : n # l => Found(TextOf(SubSeq(toks, 1, n)), 0) = {}
    <3>1. \A n \in 0 .. l : n # l => n < l
        BY <2>1
    <3>2. QED BY <1>1, <3>1 DEF TextInv, NoneBefore
  <2>4. CASE ~stopped
    <3>1. sent = Len(acc) /\ Found(acc, 0) = {}
        BY <1>1, <2>4 DEF TextInv, SearchedIs
    <3>2. hits = {}
        BY <2>2, <2>3, <3>1
    <3>3. Whole(toks) = acc
        BY <2>2, <3>2 DEF Whole
    <3>4. QED BY <2>1, <3>1, <3>3, SubSeqFull
  <2>5. CASE stopped
    <3> DEFINE k == Earliest(acc, 0)
    <3>1. Found(acc, 0) # {} /\ sent = CutAt(acc, k, 0)
        BY <1>1, <2>5 DEF TextInv, SearchedIs
    <3>2. k \in Found(acc, 0)
      <4>1. FloorChar(acc, Min({0, Len(acc)})) = 0
        <5>1. Min({0, Len(acc)}) = 0 /\ 0 \in 0 .. Len(acc)
            BY <2>1, MinOfTwo
        <5>2. FloorChar(acc, 0) \in 0 .. 0
            BY <2>1, <5>1, FloorIs
        <5>3. QED BY <5>1, <5>2
      <4>2. Leads(acc, 0, k)
          BY <2>1, <3>1, <4>1, EarliestLeads
      <4>3. QED BY <4>2 DEF Leads
    <3> HIDE DEF k
    <3>3. k \in Nat /\ Found(acc, 0) = {k}
        BY <1>1, <3>2, OnlyOne
    <3>4. hits = {l}
        BY <2>1, <2>2, <2>3, <3>1
    <3>5. Min({l}) = l /\ Min({k}) = k
        BY <2>1, <3>3, MinOfTwo
    <3>6. Whole(toks) = SubSeq(acc, 1, CutAt(acc, k, 0))
      <4>1. TextOf(SubSeq(toks, 1, Min(hits))) = acc /\ hits # {}
          BY <2>2, <3>4, <3>5
      <4>2. Whole(toks) = SubSeq(acc, 1, CutAt(acc, Min(Found(acc, 0)), 0))
          BY <4>1 DEF Whole
      <4>3. QED BY <3>3, <3>5, <4>2
    <3>7. QED BY <2>1, <3>1, <3>6
  <2>6. QED BY <2>4, <2>5
<1>2. TextInv => StreamIsAnswer
    BY <1>1 DEF StreamIsAnswer
<1>3. QED BY <1>2, TextInvariant, PTL

-----------------------------------------------------------------------------
(***************************************************************************)
(* Sampler.  The candidates of a row have an order, so each has a place,   *)
(* and what is drawn from is a first part of them; masses are sums of      *)
(* their weights.                                                          *)
(***************************************************************************)
\* A row of logits.
IsRow(l) == DOMAIN l \subseteq Id /\ l \in [DOMAIN l -> Int]

LEMMA RowIsFinite ==
    ASSUME NEW l, IsRow(l)
    PROVE  /\ IsFiniteSet(DOMAIN l) /\ Cardinality(DOMAIN l) \in Nat
           /\ DOMAIN l # {} => Cardinality(DOMAIN l) >= 1
<1>1. VocabLen \in Nat
    BY SamplerAssumption
<1>2. IsFiniteSet(Id)
    BY <1>1, FS_Interval DEF Id
<1>3. IsFiniteSet(DOMAIN l)
    BY <1>2, FS_Subset DEF IsRow
<1>4. Cardinality(DOMAIN l) \in Nat
    BY <1>3, FS_CardinalityType
<1>5. Cardinality(DOMAIN l) = 0 <=> DOMAIN l = {}
    BY <1>3, FS_EmptySet
<1>6. QED BY <1>3, <1>4, <1>5

LEMMA OrderIsTotal ==
    ASSUME NEW l, IsRow(l), NEW u \in DOMAIN l, NEW t \in DOMAIN l
    PROVE  /\ ~Before(l, t, t)
           /\ u = t \/ Before(l, u, t) \/ Before(l, t, u)
           /\ ~(Before(l, u, t) /\ Before(l, t, u))
           /\ \A v \in DOMAIN l : Before(l, u, t) /\ Before(l, t, v) => Before(l, u, v)
<1>1. VocabLen \in Nat
    BY SamplerAssumption
<1>2. \A v \in DOMAIN l : v \in Int /\ l[v] \in Int
    BY <1>1 DEF IsRow, Id
<1>3. QED BY <1>2 DEF Before

\* The place of a token is where it stands in the order: fewer before it, earlier.
LEMMA PlaceIs ==
    ASSUME NEW l, IsRow(l), NEW t \in DOMAIN l
    PROVE  /\ Place(l, t) \in 1 .. Cardinality(DOMAIN l)
           /\ \A u \in DOMAIN l : Before(l, u, t) <=> Place(l, u) < Place(l, t)
           /\ \A u \in DOMAIN l : Place(l, u) = Place(l, t) => u = t
<1> DEFINE D == DOMAIN l
           Ahead(v) == {u \in D : Before(l, u, v)}
           N == Cardinality(D)
<1>1. IsFiniteSet(D) /\ N \in Nat /\ N >= 1
    BY RowIsFinite
<1>2. ASSUME NEW v \in D
      PROVE  /\ IsFiniteSet(Ahead(v)) /\ Cardinality(Ahead(v)) \in Nat
             /\ Cardinality(Ahead(v)) < N /\ Place(l, v) = Cardinality(Ahead(v)) + 1
  <2>1. Ahead(v) \in SUBSET D /\ v \notin Ahead(v)
      BY <1>2, OrderIsTotal
  <2>2. IsFiniteSet(Ahead(v)) /\ Cardinality(Ahead(v)) <= N /\ (N = Cardinality(Ahead(v)) => D = Ahead(v))
      BY <1>1, <2>1, FS_Subset
  <2>3. Cardinality(Ahead(v)) \in Nat
      BY <2>2, FS_CardinalityType
  <2>4. D # Ahead(v)
      BY <1>2, <2>1
  <2>5. Place(l, v) = Cardinality(Ahead(v)) + 1
      BY DEF Place
  <2>6. QED BY <1>1, <2>2, <2>3, <2>4, <2>5
<1>3. ASSUME NEW u \in D, NEW v \in D, Before(l, u, v)
      PROVE  Place(l, u) < Place(l, v)
  <2>1. Ahead(u) \in SUBSET Ahead(v) /\ u \in Ahead(v) /\ u \notin Ahead(u)
      BY <1>3, OrderIsTotal
  <2>2. Ahead(v) # Ahead(u)
      BY <2>1
  <2>3. Cardinality(Ahead(u)) <= Cardinality(Ahead(v)) /\ Cardinality(Ahead(v)) # Cardinality(Ahead(u))
      BY <1>2, <2>1, <2>2, FS_Subset
  <2>4. QED BY <1>2, <2>3
<1>4. ASSUME NEW v \in D PROVE Place(l, v) \in 1 .. N
  <2> DEFINE k == Cardinality(Ahead(v))
  <2>1. k \in Nat /\ k < N /\ Place(l, v) = k + 1 /\ N \in Nat
      BY <1>1, <1>2
  <2> HIDE DEF k, N
  <2>2. QED BY <2>1
<1> HIDE DEF D, N
<1>5. \A u \in D : Before(l, u, t) <=> Place(l, u) < Place(l, t)
  <2> TAKE u \in D
  <2>1. t \in D /\ Place(l, u) \in Int /\ Place(l, t) \in Int
      BY <1>4, <1>1 DEF D
  <2>2. u = t \/ Before(l, u, t) \/ Before(l, t, u)
      BY OrderIsTotal, <2>1 DEF D
  <2>3. QED BY <2>1, <2>2, <1>3
<1>6. \A u \in D : Place(l, u) = Place(l, t) => u = t
  <2> TAKE u \in D
  <2>1. t \in D /\ Place(l, u) \in Int /\ Place(l, t) \in Int
      BY <1>4, <1>1 DEF D
  <2>2. u = t \/ Before(l, u, t) \/ Before(l, t, u)
      BY OrderIsTotal, <2>1 DEF D
  <2>3. QED BY <2>1, <2>2, <1>3
<1>7. QED BY <1>4, <1>5, <1>6 DEF D, N

LEMMA RankedIs ==
    ASSUME NEW l, IsRow(l)
    PROVE  /\ DOMAIN Ranked(l) = 1 .. Cardinality(DOMAIN l)
           /\ \A i \in 1 .. Cardinality(DOMAIN l) :
                 Ranked(l)[i] \in DOMAIN l /\ Place(l, Ranked(l)[i]) = i
           /\ \A t \in DOMAIN l : Ranked(l)[Place(l, t)] = t
<1> DEFINE D == DOMAIN l
           N == Cardinality(D)
           f == [t \in D |-> Place(l, t)]
<1>1. IsFiniteSet(D) /\ N \in Nat
    BY RowIsFinite
<1>2. \A t \in D : Place(l, t) \in 1 .. N
    BY PlaceIs
<1>3. \A t, u \in D : Place(l, u) = Place(l, t) => u = t
    BY PlaceIs
<1>4. f \in Injection(D, 1 .. N)
    BY <1>2, <1>3 DEF Injection, IsInjective
<1>5. IsFiniteSet(1 .. N) /\ Cardinality(1 .. N) = N
    BY <1>1, FS_Interval
<1>6. f \in Surjection(D, 1 .. N)
    BY <1>1, <1>4, <1>5, FS_Injection
<1>7. \A i \in 1 .. N : \E t \in D : Place(l, t) = i
    BY <1>6 DEF Surjection
<1>8. DOMAIN Ranked(l) = 1 .. N
    BY DEF Ranked
<1>9. \A i \in 1 .. N : Ranked(l)[i] \in D /\ Place(l, Ranked(l)[i]) = i
    BY <1>7 DEF Ranked
<1>10. \A t \in D : Ranked(l)[Place(l, t)] = t
    BY <1>2, <1>3, <1>9
<1>11. QED BY <1>8, <1>9, <1>10

(***************************************************************************)
(* Sums.                                                                   *)
(***************************************************************************)
SumsAre(n, w, c) ==
    /\ c \in [0 .. n -> Nat] /\ c[0] = 0
    /\ \A k \in 1 .. n : c[k] = c[k - 1] + w[k]

LEMMA SumsExist ==
    ASSUME NEW n \in Nat, NEW w \in [1 .. n -> Nat]
    PROVE  \E c : SumsAre(n, w, c)
<1> DEFINE Reaches(k) == \E c : SumsAre(k, w, c)
           P == {k \in 0 .. n : Reaches(k)}
<1>1. 0 \in P
  <2> DEFINE c == [i \in 0 .. 0 |-> 0]
  <2>1. c \in [0 .. 0 -> Nat] /\ c[0] = 0 /\ \A k \in 1 .. 0 : FALSE
      OBVIOUS
  <2>2. SumsAre(0, w, c)
      BY <2>1 DEF SumsAre
  <2>3. QED BY <2>2
<1>2. ASSUME NEW k \in 1 .. n, k - 1 \in P PROVE k \in P
  <2>1. PICK c : SumsAre(k - 1, w, c)
      BY <1>2
  <2> DEFINE d == [i \in 0 .. k |-> IF i = k THEN c[k - 1] + w[k] ELSE c[i]]
  <2>2. k - 1 \in 0 .. k - 1 /\ w[k] \in Nat /\ c \in [0 .. k - 1 -> Nat]
      BY <2>1 DEF SumsAre
  <2>3. c[k - 1] \in Nat
      BY <2>2
  <2>4. d \in [0 .. k -> Nat]
      BY <2>2, <2>3
  <2>5. d[0] = 0
      BY <2>1 DEF SumsAre
  <2>6. ASSUME NEW i \in 1 .. k PROVE d[i] = d[i - 1] + w[i]
    <3>1. CASE i = k
      <4>1. i \in 0 .. k /\ i - 1 \in 0 .. k /\ i - 1 # k
          BY <3>1
      <4>2. QED BY <3>1, <4>1
    <3>2. CASE i # k
      <4>1. i \in 0 .. k /\ i - 1 \in 0 .. k /\ i - 1 # k /\ i \in 1 .. k - 1
          BY <3>2
      <4>2. QED BY <2>1, <3>2, <4>1 DEF SumsAre
    <3>3. QED BY <3>1, <3>2
  <2> HIDE DEF d
  <2>7. SumsAre(k, w, d)
      BY <2>4, <2>5, <2>6 DEF SumsAre
  <2>8. QED BY <2>7
<1> HIDE DEF P
<1>3. 0 .. n \subseteq P
    BY <1>1, <1>2, Upwards
<1>4. n \in P
    BY <1>3
<1>5. QED BY <1>4 DEF P

LEMMA CumIs ==
    ASSUME NEW n \in Nat, NEW w \in [1 .. n -> Nat]
    PROVE  SumsAre(n, w, Cum(w))
<1>1. Len(w) = n
    OBVIOUS
<1>2. PICK c : SumsAre(n, w, c)
    BY SumsExist
<1> DEFINE Reaches(d) == d = [k \in 0 .. n |-> IF k = 0 THEN 0 ELSE d[k - 1] + w[k]]
<1>3. Reaches(c)
    BY <1>2 DEF SumsAre
<1>4. Reaches(Cum(w))
  <2>1. Cum(w) = CHOOSE d : Reaches(d)
      BY <1>1 DEF Cum
  <2> HIDE DEF Reaches
  <2>2. QED BY <1>3, <2>1
<1> DEFINE d == Cum(w)
<1> HIDE DEF d
<1>5. d = [k \in 0 .. n |-> IF k = 0 THEN 0 ELSE d[k - 1] + w[k]]
    BY <1>4 DEF d
<1>6. d[0] = 0 /\ \A k \in 1 .. n : d[k] = d[k - 1] + w[k]
  <2>1. 0 \in 0 .. n /\ \A k \in 1 .. n : k \in 0 .. n /\ k # 0
      OBVIOUS
  <2>2. QED BY <1>5, <2>1
<1>7. ASSUME NEW k \in 0 .. n PROVE d[k] = c[k]
  <2>1. k \in Nat /\ \A i \in 1 .. k : i \in 1 .. n
      OBVIOUS
  <2>2. d[0] = c[0] /\ \A i \in 1 .. k : d[i - 1] = c[i - 1] => d[i] = c[i]
      BY <1>2, <1>6, <2>1 DEF SumsAre
  <2>3. QED BY <2>1, <2>2, StepByStep
<1>8. d = [k \in 0 .. n |-> d[k]] /\ c = [k \in 0 .. n |-> c[k]]
  <2>1. DOMAIN d = 0 .. n
      BY <1>5
  <2>2. QED BY <1>2, <1>5, <2>1 DEF SumsAre
<1>9. d = c
    BY <1>7, <1>8
<1>10. QED BY <1>2, <1>9 DEF d

\* A sum of more is not less, and has each of its terms.
LEMMA SumsRise ==
    ASSUME NEW n \in Nat, NEW w \in [1 .. n -> Nat], NEW c, SumsAre(n, w, c)
    PROVE  /\ \A i, j \in 0 .. n : i <= j => c[i] <= c[j]
           /\ \A i, j \in 0 .. n : \A m \in 1 .. n : i < m /\ m <= j => c[i] + w[m] <= c[j]
<1>1. \A i \in 0 .. n : c[i] \in Nat
    BY DEF SumsAre
<1>2. ASSUME NEW i \in 0 .. n, NEW j \in 0 .. n, i <= j PROVE c[i] <= c[j]
  <2> DEFINE P == {k \in 0 .. j - i : c[i] <= c[i + k]}
  <2>1. 0 \in P
      BY <1>1, <1>2
  <2>2. ASSUME NEW k \in 1 .. j - i, k - 1 \in P PROVE k \in P
    <3>1. i + k \in 1 .. n /\ i + k \in 0 .. n /\ i + (k - 1) \in 0 .. n /\ i + k - 1 = i + (k - 1) /\ k \in 0 .. j - i
        BY <1>2
    <3>2. c[i + k] = c[i + (k - 1)] + w[i + k] /\ w[i + k] \in Nat /\ c[i] <= c[i + (k - 1)]
        BY <2>2, <3>1 DEF SumsAre
    <3>3. c[i] \in Nat /\ c[i + k] \in Nat /\ c[i + (k - 1)] \in Nat
        BY <1>1, <3>1
    <3>4. c[i] <= c[i + k]
        BY <3>2, <3>3
    <3>5. QED BY <3>1, <3>4
  <2> HIDE DEF P
  <2>3. j - i \in Nat /\ j - i \in 0 .. j - i /\ i + (j - i) = j
      BY <1>2
  <2>4. 0 .. j - i \subseteq P
      BY <2>1, <2>2, <2>3, Upwards
  <2>5. j - i \in P
      BY <2>3, <2>4
  <2>6. QED BY <2>3, <2>5 DEF P
<1>3. ASSUME NEW i \in 0 .. n, NEW j \in 0 .. n, NEW m \in 1 .. n, i < m, m <= j
      PROVE  c[i] + w[m] <= c[j]
  <2>1. m \in 0 .. n /\ m - 1 \in 0 .. n /\ i <= m - 1 /\ w[m] \in Nat
      BY <1>3
  <2>2. c[i] <= c[m - 1] /\ c[m] <= c[j]
      BY <1>2, <1>3, <2>1
  <2>3. c[m] = c[m - 1] + w[m]
      BY DEF SumsAre
  <2>4. c[i] \in Nat /\ c[j] \in Nat /\ c[m] \in Nat /\ c[m - 1] \in Nat
      BY <1>1, <2>1
  <2>5. QED BY <2>1, <2>2, <2>3, <2>4
<1>4. QED BY <1>2, <1>3

LEMMA WeightFalls ==
    ASSUME NEW t \in DOMAIN Weight, NEW a \in 0 .. Depth, NEW b \in 0 .. Depth, a <= b
    PROVE  Weight[t][a] \in Nat /\ Weight[t][b] \in Nat /\ Weight[t][b] <= Weight[t][a]
<1> DEFINE f == Weight[t]
           P == {k \in 0 .. b - a : f[a + k] <= f[a]}
<1>1. Depth \in Nat /\ f \in [0 .. Depth -> Nat] /\ \A d \in 1 .. Depth : f[d] <= f[d - 1]
    BY SamplerAssumption
<1> HIDE DEF f
<1>2. \A d \in 0 .. Depth : f[d] \in Nat
    BY <1>1
<1>3. 0 \in P
    BY <1>1, <1>2
<1>4. ASSUME NEW k \in 1 .. b - a, k - 1 \in P PROVE k \in P
  <2>1. a + k \in 1 .. Depth /\ a + k \in 0 .. Depth /\ a + (k - 1) \in 0 .. Depth /\ a + k - 1 = a + (k - 1)
      BY <1>1
  <2>2. f[a + k] <= f[a + (k - 1)] /\ f[a + (k - 1)] <= f[a]
      BY <1>1, <1>4, <2>1
  <2>3. f[a + k] \in Nat /\ f[a + (k - 1)] \in Nat /\ f[a] \in Nat /\ k \in 0 .. b - a
      BY <1>2, <2>1
  <2>4. f[a + k] <= f[a]
      BY <2>2, <2>3
  <2>5. QED BY <2>3, <2>4
<1> HIDE DEF P
<1>5. b - a \in Nat /\ b - a \in 0 .. b - a /\ a + (b - a) = b
    BY <1>1
<1>6. 0 .. b - a \subseteq P
    BY <1>3, <1>4, <1>5, Upwards
<1>7. b - a \in P
    BY <1>5, <1>6
<1>8. f[b] <= f[a]
    BY <1>5, <1>7 DEF P
<1>9. QED BY <1>2, <1>8 DEF f

LEMMA NearIs ==
    ASSUME NEW l, IsRow(l), DOMAIN l # {}
    PROVE  LET n == Cardinality(DOMAIN l)
               r == Ranked(l)
           IN  /\ Near(l) \in 1 .. n
               /\ \A t \in DOMAIN l : l[t] <= l[r[1]]
               /\ \A i \in 1 .. n : i <= Near(l) <=> l[r[i]] > l[r[1]] - Cut
<1> DEFINE D == DOMAIN l
           n == Cardinality(D)
           r == Ranked(l)
           K == {t \in D : l[t] > l[r[1]] - Cut}
           UptoPlace(i) == {t \in D : Place(l, t) <= i}
<1>1. IsFiniteSet(D) /\ n \in Nat /\ n >= 1 /\ 1 \in 1 .. n /\ Cut \in Nat \ {0}
    BY RowIsFinite, SamplerAssumption
<1>2. \A i \in 1 .. n : r[i] \in D /\ Place(l, r[i]) = i
    BY RankedIs
<1>3. \A t \in D : Place(l, t) \in 1 .. n /\ l[t] \in Int /\ r[Place(l, t)] = t
    BY PlaceIs, RankedIs DEF IsRow
<1>4. ASSUME NEW t \in D, NEW u \in D, Place(l, u) <= Place(l, t)
      PROVE  l[t] <= l[u]
  <2>1. ~Before(l, t, u)
      BY <1>3, <1>4, PlaceIs
  <2>2. QED BY <2>1, <1>3 DEF Before
<1>5. \A t \in D : l[t] <= l[r[1]]
  <2> TAKE t \in D
  <2>1. r[1] \in D /\ Place(l, r[1]) = 1 /\ Place(l, t) \in 1 .. n
      BY <1>1, <1>2, <1>3
  <2>2. Place(l, r[1]) <= Place(l, t)
      BY <2>1
  <2>3. QED BY <1>4, <2>1, <2>2
<1>6. ASSUME NEW i \in 0 .. n PROVE IsFiniteSet(UptoPlace(i)) /\ Cardinality(UptoPlace(i)) = i
  <2> DEFINE f == [t \in UptoPlace(i) |-> Place(l, t)]
             J == 1 .. i
  <2>1. IsFiniteSet(J) /\ Cardinality(J) = i
      BY FS_Interval, <1>1
  <2>2. f \in [UptoPlace(i) -> J]
      BY <1>3
  <2>3. \A t, u \in UptoPlace(i) : f[t] = f[u] => t = u
    <3>1. \A t \in UptoPlace(i) : f[t] = Place(l, t) /\ r[f[t]] = t
        BY <1>3
    <3> HIDE DEF f
    <3>2. QED BY <3>1
  <2>4. ASSUME NEW j \in J PROVE \E t \in UptoPlace(i) : f[t] = j
    <3>1. j \in 1 .. n /\ j <= i
        BY <1>1
    <3>2. r[j] \in UptoPlace(i) /\ f[r[j]] = j
        BY <1>2, <3>1
    <3>3. QED BY <3>2
  <2> HIDE DEF f
  <2>5. f \in Injection(UptoPlace(i), J) /\ f \in Surjection(UptoPlace(i), J)
      BY <2>2, <2>3, <2>4 DEF Injection, IsInjective, Surjection
  <2>6. IsFiniteSet(UptoPlace(i))
      BY <1>1, FS_Subset
  <2> HIDE DEF J
  <2>7. QED BY <2>1, <2>5, <2>6, FS_Surjection
<1>7. Near(l) = Cardinality(K) /\ K \in SUBSET D /\ IsFiniteSet(K) /\ Cardinality(K) \in Nat /\ Cardinality(K) <= n
  <2>1. Near(l) = Cardinality(K) /\ K \in SUBSET D
      BY DEF Near
  <2> HIDE DEF K
  <2>2. IsFiniteSet(K) /\ Cardinality(K) <= n
      BY <1>1, <2>1, FS_Subset
  <2>3. QED BY <2>1, <2>2, FS_CardinalityType
<1>8. ASSUME NEW i \in 1 .. n PROVE i <= Near(l) <=> l[r[i]] > l[r[1]] - Cut
  <2>1. r[i] \in D /\ Place(l, r[i]) = i /\ i \in 0 .. n /\ i - 1 \in 0 .. n /\ l[r[1]] \in Int /\ l[r[i]] \in Int
      BY <1>1, <1>2, <1>3
  <2>2. CASE l[r[i]] > l[r[1]] - Cut
    <3>1. UptoPlace(i) \in SUBSET K
      <4> SUFFICES ASSUME NEW t \in D, Place(l, t) <= i PROVE l[t] > l[r[1]] - Cut
          OBVIOUS
      <4>1. l[r[i]] <= l[t]
          BY <1>4, <2>1
      <4>2. l[t] \in Int
          BY <1>3
      <4>3. QED BY <1>1, <2>1, <2>2, <4>1, <4>2
    <3> HIDE DEF K, UptoPlace
    <3>2. Cardinality(UptoPlace(i)) <= Cardinality(K)
        BY <3>1, <1>7, FS_Subset
    <3>3. i <= Cardinality(K)
        BY <3>2, <1>6, <2>1
    <3>4. QED BY <3>3, <1>7, <2>2
  <2>3. CASE ~(l[r[i]] > l[r[1]] - Cut)
    <3>1. K \in SUBSET UptoPlace(i - 1)
      <4> SUFFICES ASSUME NEW t \in D, l[t] > l[r[1]] - Cut PROVE Place(l, t) <= i - 1
          OBVIOUS
      <4>1. l[t] \in Int /\ Place(l, t) \in 1 .. n
          BY <1>3
      <4>2. ~(l[t] <= l[r[i]])
          BY <1>1, <2>1, <2>3, <4>1
      <4>3. ~(Place(l, r[i]) <= Place(l, t))
          BY <1>4, <2>1, <4>2
      <4>4. QED BY <2>1, <4>1, <4>3
    <3> HIDE DEF K, UptoPlace
    <3>2. Cardinality(K) <= Cardinality(UptoPlace(i - 1))
        BY <3>1, <1>6, <2>1, FS_Subset
    <3>3. Cardinality(K) <= i - 1
        BY <3>2, <1>6, <2>1
    <3>4. ~(i <= Near(l))
        BY <3>3, <1>7
    <3>5. QED BY <3>4, <2>3
  <2>4. QED BY <2>2, <2>3
<1>9. 1 <= Near(l)
  <2>1. l[r[1]] \in Int
      BY <1>1, <1>2, <1>3
  <2>2. l[r[1]] > l[r[1]] - Cut
      BY <1>1, <2>1
  <2>3. QED BY <1>1, <1>8, <2>2
<1>10. QED BY <1>1, <1>5, <1>7, <1>8, <1>9

\* A temperature at which the cut is a bound.
Mild == how.temp \notin Warm \cup {"zero"}

LEMMA TemperatureIs ==
    ASSUME how \in Asks
    PROVE  /\ Temperature \in DOMAIN Weight
           /\ Mild => \A d \in 0 .. Depth : Weight[Temperature][d] <= Weight["one"][d]
<1>1. how.temp \in DOMAIN Weight \cup {"zero"} /\ "one" \in DOMAIN Weight
    BY SamplerAssumption
<1>2. Temperature \in DOMAIN Weight
    BY <1>1 DEF Temperature
<1>3. ASSUME Mild PROVE \A d \in 0 .. Depth : Weight[Temperature][d] <= Weight["one"][d]
  <2>1. Temperature = how.temp /\ Temperature \notin Warm
      BY <1>3 DEF Mild, Temperature
  <2>2. QED BY <1>2, <2>1, SamplerAssumption
<1>4. QED BY <1>2, <1>3

LEMMA WeightsAre ==
    ASSUME NEW l, IsRow(l), DOMAIN l # {}, how \in Asks
    PROVE  LET n == Cardinality(DOMAIN l)
               w == Weights(l)
           IN  /\ w \in [1 .. n -> Nat] /\ Len(w) = n /\ w[1] > 0
               /\ Weight["one"][Cut] \in Nat
               /\ Mild => \A i \in Near(l) + 1 .. n : w[i] <= Weight["one"][Cut]
<1> DEFINE n == Cardinality(DOMAIN l)
           r == Ranked(l)
           w == Weights(l)
           T == Temperature
           far(i) == Lesser(l[r[1]] - l[r[i]], Depth)
<1>1. n \in Nat /\ n >= 1 /\ Depth \in Nat /\ Cut \in 1 .. Depth /\ T \in DOMAIN Weight /\ 1 \in 1 .. n
    BY RowIsFinite, SamplerAssumption, TemperatureIs
<1>2. \A i \in 1 .. n : r[i] \in DOMAIN l /\ l[r[i]] \in Int
    BY RankedIs DEF IsRow
<1>3. \A i \in 1 .. n : l[r[i]] <= l[r[1]]
    BY <1>2, NearIs
<1>4. ASSUME NEW i \in 1 .. n PROVE far(i) \in 0 .. Depth /\ w[i] = Weight[T][far(i)]
  <2>1. i \in DOMAIN r
      BY RankedIs
  <2>2. w[i] = Weight[T][far(i)]
      BY <2>1 DEF Weights
  <2>3. l[r[1]] \in Int /\ l[r[i]] \in Int /\ l[r[i]] <= l[r[1]]
      BY <1>1, <1>2, <1>3
  <2>4. far(i) \in 0 .. Depth
      BY <1>1, <2>3 DEF Lesser
  <2>5. QED BY <2>2, <2>4
<1>5. DOMAIN w = 1 .. n /\ w = [i \in 1 .. n |-> w[i]]
    BY RankedIs DEF Weights
<1>6. \A i \in 1 .. n : w[i] \in Nat
  <2> TAKE i \in 1 .. n
  <2>1. far(i) \in 0 .. Depth /\ w[i] = Weight[T][far(i)]
      BY <1>4
  <2>2. Weight[T] \in [0 .. Depth -> Nat]
      BY <1>1, SamplerAssumption
  <2> HIDE DEF far, T, w
  <2>3. QED BY <2>1, <2>2
<1>7. w[1] > 0
  <2>1. l[r[1]] - l[r[1]] = 0
      BY <1>1, <1>2
  <2>2. far(1) = 0
      BY <2>1, <1>1 DEF Lesser
  <2>3. w[1] = Weight[T][far(1)]
      BY <1>1, <1>4
  <2>4. Weight[T][0] > 0
      BY <1>1, SamplerAssumption
  <2>5. QED BY <2>2, <2>3, <2>4
<1>8. Weight["one"][Cut] \in Nat
  <2>1. Cut \in 0 .. Depth /\ Weight["one"] \in [0 .. Depth -> Nat]
      BY <1>1, SamplerAssumption
  <2>2. QED BY <2>1
<1>9. ASSUME Mild, NEW i \in Near(l) + 1 .. n PROVE w[i] <= Weight["one"][Cut]
  <2>1. Near(l) \in 1 .. n
      BY NearIs
  <2>2. i \in 1 .. n /\ ~(i <= Near(l))
      BY <1>1, <2>1
  <2>3. ~(l[r[i]] > l[r[1]] - Cut)
      BY <2>2, NearIs
  <2>4. l[r[1]] \in Int /\ l[r[i]] \in Int
      BY <1>1, <1>2, <2>2
  <2>5. l[r[1]] - l[r[i]] >= Cut
      BY <1>1, <2>3, <2>4
  <2>6. far(i) \in 0 .. Depth /\ Cut \in 0 .. Depth /\ Cut <= far(i)
      BY <1>1, <2>4, <2>5 DEF Lesser
  <2>7. w[i] = Weight[T][far(i)]
      BY <1>4, <2>2
  <2> HIDE DEF far
  <2>8. Weight[T][far(i)] <= Weight[T][Cut] /\ Weight[T][far(i)] \in Nat /\ Weight[T][Cut] \in Nat
      BY <1>1, <2>6, WeightFalls
  <2>9. Weight[T][Cut] <= Weight["one"][Cut]
      BY <1>9, <2>6, TemperatureIs
  <2> HIDE DEF T, w
  <2>10. QED BY <1>8, <2>7, <2>8, <2>9
<1>10. Len(w) = n
    BY <1>1, <1>5, <1>6
<1> HIDE DEF w, n
<1>11. w \in [1 .. n -> Nat]
    BY <1>5, <1>6
<1>12. QED BY <1>7, <1>8, <1>9, <1>10, <1>11 DEF w, n

\* What is behind the first k adds at most so much for each.
LEMMA TailBound ==
    ASSUME NEW n \in Nat, NEW w \in [1 .. n -> Nat], NEW c, SumsAre(n, w, c),
           NEW k \in 0 .. n, NEW b \in Nat, \A i \in k + 1 .. n : w[i] <= b
    PROVE  c[n] <= c[k] + (n - k) * b
<1> DEFINE P == {j \in 0 .. n - k : c[k + j] <= c[k] + j * b}
<1>1. \A i \in 0 .. n : c[i] \in Nat
    BY DEF SumsAre
<1>2. 0 \in P
    BY <1>1
<1>3. ASSUME NEW j \in 1 .. n - k, j - 1 \in P PROVE j \in P
  <2>1. k + j \in 1 .. n /\ k + j \in 0 .. n /\ k + (j - 1) \in 0 .. n /\ k + j - 1 = k + (j - 1) /\ k + j \in k + 1 .. n
      BY <1>1
  <2>2. c[k + j] = c[k + (j - 1)] + w[k + j] /\ w[k + j] \in Nat /\ w[k + j] <= b
      BY <2>1 DEF SumsAre
  <2>3. c[k + (j - 1)] <= c[k] + (j - 1) * b
      BY <1>3
  <2>4. (j - 1) * b + b = j * b /\ (j - 1) * b \in Nat /\ j * b \in Nat
      OBVIOUS
  <2>5. c[k + j] \in Nat /\ c[k + (j - 1)] \in Nat /\ c[k] \in Nat
      BY <1>1, <2>1
  <2> DEFINE x == (j - 1) * b
             y == j * b
  <2> HIDE DEF x, y
  <2>6. c[k + (j - 1)] <= c[k] + x /\ x + b = y /\ x \in Nat /\ y \in Nat
      BY <2>3, <2>4 DEF x, y
  <2> DEFINE s == c[k + j]
             t == c[k + (j - 1)]
             z == c[k]
             v == w[k + j]
  <2>7. c[k + j] <= c[k] + y
    <3>1. s = t + v /\ v \in Nat /\ v <= b /\ t <= z + x /\ s \in Nat /\ t \in Nat /\ z \in Nat
        BY <2>2, <2>5, <2>6
    <3> HIDE DEF s, t, z, v, P
    <3>2. s <= z + y
        BY <2>6, <3>1
    <3>3. QED BY <3>2 DEF s, z
  <2>8. j \in 0 .. n - k
      OBVIOUS
  <2>9. QED BY <2>7, <2>8 DEF y
<1> HIDE DEF P
<1>4. n - k \in Nat /\ n - k \in 0 .. n - k /\ k + (n - k) = n
    OBVIOUS
<1>5. 0 .. n - k \subseteq P
    BY <1>2, <1>3, <1>4, Upwards
<1>6. n - k \in P
    BY <1>4, <1>5
<1>7. QED BY <1>4, <1>6 DEF P

(***************************************************************************)
(* The candidates with a cut and without: what the cut leaves out weighs   *)
(* no more than its bound.                                                 *)
(***************************************************************************)
LEMMA CutIsBound ==
    ASSUME NEW l, IsRow(l), DOMAIN l # {}, how \in Asks
    PROVE  LET n == Cardinality(DOMAIN l)
               w == Weights(l)
               c == Cum(w)
           IN  /\ n \in Nat /\ w \in [1 .. n -> Nat] /\ Len(w) = n /\ SumsAre(n, w, c)
               /\ w[1] > 0
               /\ Among(l, TRUE) \in 1 .. n /\ Among(l, FALSE) \in 1 .. n
               /\ Among(l, TRUE) <= Among(l, FALSE)
               /\ Sorted(l, TRUE) \in 1 .. Among(l, TRUE)
               /\ Sorted(l, FALSE) \in 1 .. Among(l, FALSE)
               /\ BelowCut(l, TRUE) \in Nat /\ BelowCut(l, FALSE) = 0
               /\ Mild => c[Among(l, FALSE)] <= c[Among(l, TRUE)] + BelowCut(l, TRUE)
<1> DEFINE n == Cardinality(DOMAIN l)
           w == Weights(l)
           c == Cum(w)
           b == Weight["one"][Cut]
           a == Among(l, TRUE)
           f == Among(l, FALSE)
           u == BelowCut(l, TRUE)
           st == Sorted(l, TRUE)
           sf == Sorted(l, FALSE)
<1>1. n \in Nat /\ n >= 1 /\ CandN \in Nat \ {0} /\ how.topK \in Nat
    BY RowIsFinite, SamplerAssumption
<1>2. Near(l) \in 1 .. n
    BY NearIs
<1>3. w \in [1 .. n -> Nat] /\ Len(w) = n /\ w[1] > 0 /\ b \in Nat
        /\ (Mild => \A i \in Near(l) + 1 .. n : w[i] <= b)
    BY WeightsAre
<1>4. SumsAre(n, w, c)
    BY <1>1, <1>3, CumIs
<1>5. a = TopK(Near(l)) /\ f = TopK(n)
    BY DEF Among
<1> HIDE DEF w, c, b, a, f, n, u, st, sf
<1>6. a \in 1 .. n /\ f \in 1 .. n /\ a <= f /\ (a = Near(l) \/ a = f)
    BY <1>1, <1>2, <1>5 DEF TopK, Lesser
<1>7. st = Lesser(CandN, a) /\ sf = Lesser(CandN, f)
    BY DEF Sorted, a, f, st, sf
<1>8. u = (n - Near(l)) * b /\ BelowCut(l, FALSE) = 0
    BY DEF BelowCut, n, b, u
<1>9. st \in 1 .. a /\ sf \in 1 .. f
    BY <1>1, <1>6, <1>7 DEF Lesser
<1>10. u \in Nat
  <2> DEFINE m == n - Near(l)
  <2>1. m \in Nat
      BY <1>1, <1>2
  <2>2. u = m * b
      BY <1>8
  <2> HIDE DEF m
  <2>3. QED BY <2>1, <2>2, <1>3
<1>11. ASSUME Mild PROVE c[f] <= c[a] + u
  <2>1. \A i \in 0 .. n : c[i] \in Nat
      BY <1>4 DEF SumsAre
  <2>2. CASE a = f
    <3>1. c[a] \in Nat
        BY <1>1, <1>6, <2>1
    <3>2. QED BY <2>2, <3>1, <1>10
  <2>3. CASE a = Near(l)
    <3>1. c[n] <= c[Near(l)] + (n - Near(l)) * b
      <4>1. Near(l) \in 0 .. n
          BY <1>1, <1>2
      <4>2. QED BY <1>1, <1>3, <1>4, <1>11, <4>1, TailBound
    <3>2. c[f] <= c[n]
      <4>1. f \in 0 .. n /\ n \in 0 .. n /\ f <= n
          BY <1>1, <1>6
      <4>2. QED BY <1>1, <1>3, <1>4, <4>1, SumsRise
    <3>3. c[f] \in Nat /\ c[n] \in Nat /\ c[a] \in Nat
        BY <1>1, <1>6, <2>1
    <3>4. c[n] <= c[a] + u
        BY <1>8, <2>3, <3>1
    <3> DEFINE p == c[f]
               q == c[n]
               z == c[a]
    <3> HIDE DEF p, q, z
    <3>5. p <= q /\ p \in Nat /\ q \in Nat /\ z \in Nat /\ q <= z + u
        BY <3>2, <3>3, <3>4 DEF p, q, z
    <3>6. p <= z + u
        BY <1>10, <3>5
    <3>7. QED BY <3>6 DEF p, z
  <2>4. QED BY <1>6, <2>2, <2>3
<1>12. QED BY <1>1, <1>3, <1>4, <1>6, <1>8, <1>9, <1>10, <1>11 DEF w, c, b, a, f, n, u, st, sf

LEMMA LeastIs ==
    ASSUME NEW S \in SUBSET Nat, S # {}, NEW none
    PROVE  Least(S, none) \in S /\ \A j \in S : Least(S, none) <= j
<1>1. \E k \in S : \A j \in S : k <= j
    BY MinOfNats
<1>2. Least(S, none) = CHOOSE k \in S : \A j \in S : k <= j
    BY DEF Least
<1>3. QED BY <1>1, <1>2

\* The first candidates that have the share top_p of a mass, or none.
LEMMA NucleusIs ==
    ASSUME NEW n \in Nat, NEW w, NEW c, SumsAre(n, w, c), NEW m \in 0 .. n, NEW mass \in Nat, how \in Asks
    PROVE  \/ /\ Nucleus(c, m, mass) = 0
              /\ \A j \in 1 .. m : c[j] * Den < how.topP * mass
           \/ /\ Nucleus(c, m, mass) \in 1 .. m
              /\ c[Nucleus(c, m, mass)] * Den >= how.topP * mass
              /\ \A j \in 1 .. Nucleus(c, m, mass) - 1 : c[j] * Den < how.topP * mass
<1> DEFINE S == {k \in 1 .. m : c[k] * Den >= how.topP * mass}
           x == how.topP * mass
           k == Nucleus(c, m, mass)
<1>1. Den \in Nat /\ how.topP \in Nat
    BY SamplerAssumption
<1>2. x \in Nat
  <2> DEFINE y == how.topP
  <2> HIDE DEF y
  <2>1. y \in Nat
      BY <1>1 DEF y
  <2>2. y * mass \in Nat
      BY <2>1
  <2>3. QED BY <2>2 DEF y
<1>3. ASSUME NEW j \in 1 .. m PROVE c[j] * Den \in Nat
  <2> DEFINE y == c[j]
  <2>1. y \in Nat
    <3>1. j \in 0 .. n
        OBVIOUS
    <3>2. QED BY <3>1 DEF SumsAre
  <2> HIDE DEF y
  <2>2. y * Den \in Nat
      BY <1>1, <2>1
  <2>3. QED BY <2>2 DEF y
<1>4. k = Least(S, 0)
    BY DEF Nucleus
<1> HIDE DEF x, k
<1>5. \A j \in 1 .. m : j \notin S => c[j] * Den < x
  <2> TAKE j \in 1 .. m
  <2> DEFINE y == c[j] * Den
  <2> HAVE j \notin S
  <2>1. y \in Nat /\ ~(y >= x)
      BY <1>3 DEF x
  <2> HIDE DEF y, S
  <2>2. y < x
      BY <1>2, <2>1
  <2>3. QED BY <2>2 DEF y
<1>6. CASE S = {}
  <2>1. k = 0
      BY <1>4, <1>6 DEF Least
  <2>2. \A j \in 1 .. m : c[j] * Den < x
      BY <1>5, <1>6
  <2>3. QED BY <2>1, <2>2 DEF k, x
<1>7. CASE S # {}
  <2>1. S \in SUBSET Nat /\ S \subseteq 1 .. m
      OBVIOUS
  <2>2. k \in S /\ \A j \in S : k <= j
      BY <1>4, <1>7, <2>1, LeastIs
  <2>3. k \in 1 .. m /\ c[k] * Den >= x
      BY <2>2 DEF x
  <2>4. \A j \in 1 .. k - 1 : j \in 1 .. m /\ ~(k <= j)
      BY <2>3
  <2>5. \A j \in 1 .. k - 1 : c[j] * Den < x
      BY <1>5, <2>2, <2>4
  <2>6. QED BY <2>3, <2>5 DEF k, x
<1>8. QED BY <1>6, <1>7

\* min_p keeps a first part, and of more candidates the same or all there were.
LEMMA LikelyIs ==
    ASSUME NEW w, NEW p \in Nat \ {0}, NEW q \in Nat \ {0}, p <= q
    PROVE  /\ LikelyOf(w, p) \in 1 .. p /\ LikelyOf(w, q) \in 1 .. q
           /\ how.minP = 0 => LikelyOf(w, p) = p
           /\ LikelyOf(w, p) # LikelyOf(w, q) => LikelyOf(w, p) = p /\ p <= LikelyOf(w, q)
<1> DEFINE Less(m) == {k \in 1 .. m - 1 : w[k + 1] * Den < w[1] * how.minP}
<1>1. ASSUME NEW m \in Nat \ {0}
      PROVE  \/ how.minP = 0 /\ LikelyOf(w, m) = m
             \/ how.minP # 0 /\ Less(m) = {} /\ LikelyOf(w, m) = m
             \/ /\ how.minP # 0 /\ LikelyOf(w, m) \in Less(m) /\ LikelyOf(w, m) \in 1 .. m - 1
                /\ \A j \in Less(m) : LikelyOf(w, m) <= j
  <2>1. CASE how.minP = 0
      BY <2>1 DEF LikelyOf
  <2>2. CASE how.minP # 0
    <3>1. LikelyOf(w, m) = Least(Less(m), m)
        BY <2>2 DEF LikelyOf
    <3>2. Less(m) \in SUBSET Nat /\ Less(m) \subseteq 1 .. m - 1
        OBVIOUS
    <3> HIDE DEF Less
    <3>3. CASE Less(m) = {}
        BY <2>2, <3>1, <3>3 DEF Least
    <3>4. CASE Less(m) # {}
      <4>1. Least(Less(m), m) \in Less(m) /\ \A j \in Less(m) : Least(Less(m), m) <= j
          BY <3>2, <3>4, LeastIs
      <4>2. QED BY <2>2, <3>1, <3>2, <4>1
    <3>5. QED BY <3>3, <3>4
  <2>3. QED BY <2>1, <2>2
<1>2. Less(p) \subseteq Less(q) /\ \A j \in Less(q) : j \in Nat /\ (j < p => j \in Less(p))
    OBVIOUS
<1> HIDE DEF Less
<1>3. LikelyOf(w, p) \in 1 .. p /\ (how.minP = 0 => LikelyOf(w, p) = p)
    BY <1>1
<1>4. LikelyOf(w, q) \in 1 .. q
    BY <1>1
<1>5. ASSUME LikelyOf(w, p) # LikelyOf(w, q) PROVE LikelyOf(w, p) = p /\ p <= LikelyOf(w, q)
  <2> DEFINE a == LikelyOf(w, p)
             b == LikelyOf(w, q)
  <2>1. a \in 1 .. p /\ b \in 1 .. q
      BY <1>3, <1>4
  <2>2. CASE how.minP = 0
      BY <1>1, <2>2
  <2>3. CASE how.minP # 0
    <3>1. (Less(p) = {} /\ a = p) \/ (a \in Less(p) /\ a \in 1 .. p - 1 /\ \A j \in Less(p) : a <= j)
        BY <1>1, <2>3
    <3>2. (Less(q) = {} /\ b = q) \/ (b \in Less(q) /\ \A j \in Less(q) : b <= j)
        BY <1>1, <2>3
    <3> HIDE DEF a, b
    <3>3. a # b
        BY <1>5 DEF a, b
    <3>4. CASE a \in Less(p) /\ a \in 1 .. p - 1 /\ \A j \in Less(p) : a <= j
      <4>1. a \in Less(q) /\ b \in Less(q) /\ b <= a
          BY <1>2, <3>2, <3>4
      <4>2. b \in Less(p)
          BY <1>2, <2>1, <3>4, <4>1
      <4>3. a <= b
          BY <3>4, <4>2
      <4>4. QED BY <2>1, <3>3, <4>1, <4>3
    <3>5. CASE Less(p) = {} /\ a = p
      <4>1. p <= b
          BY <1>2, <2>1, <3>2, <3>5
      <4>2. QED BY <3>5, <4>1 DEF a, b
    <3>6. QED BY <3>1, <3>4, <3>5
  <2>4. QED BY <2>2, <2>3
<1>6. QED BY <1>3, <1>4, <1>5

\* The nucleus of sample: closed above the cut, or found without one.
LEMMA NucleusOfSample ==
    ASSUME NEW l, IsRow(l), DOMAIN l # {}, how \in Asks, how.topP < Den
    PROVE  LET w == Weights(l)
               c == Cum(w)
               a == Among(l, TRUE)
               f == Among(l, FALSE)
               first == Nucleus(c, Sorted(l, TRUE), c[a] + BelowCut(l, TRUE))
               o == Odds(l)
           IN  /\ o.keep > 0 /\ o.total = c[o.keep] /\ o.rest = {}
               /\ first \in Nat
               /\ \/ first > 0 /\ o.keep = LikelyOf(w, first)
                  \/ /\ first = 0
                     /\ \E p \in 1 .. f :
                           /\ c[p] * Den >= how.topP * c[f]
                           /\ \A j \in 1 .. p - 1 : c[j] * Den < how.topP * c[f]
                           /\ o.keep = LikelyOf(w, p)
<1> DEFINE n == Cardinality(DOMAIN l)
           w == Weights(l)
           c == Cum(w)
           a == Among(l, TRUE)
           f == Among(l, FALSE)
           u == BelowCut(l, TRUE)
           v == BelowCut(l, FALSE)
           st == Sorted(l, TRUE)
           sf == Sorted(l, FALSE)
           first == Nucleus(c, st, c[a] + u)
           second == Nucleus(c, sf, c[f] + v)
           third == Nucleus(c, f, c[f] + v)
           p == IF second > 0 THEN second ELSE third
           scut == SampleCore(l, TRUE)
           whole == SampleCore(l, FALSE)
           kept == IF first = 0 THEN 0 ELSE LikelyOf(w, first)
           keptw == IF p = 0 THEN 0 ELSE LikelyOf(w, p)
<1>1. /\ n \in Nat /\ w \in [1 .. n -> Nat] /\ SumsAre(n, w, c) /\ a \in 1 .. n /\ f \in 1 .. n
      /\ st \in 1 .. a /\ sf \in 1 .. f /\ u \in Nat /\ v = 0 /\ w[1] > 0
    BY CutIsBound
<1>2. Den \in Nat \ {0} /\ how.topP \in 1 .. Den /\ how.topP # Den /\ ~Untruncated
  <2>1. Den \in Nat \ {0} /\ how.topP \in 1 .. Den
      BY SamplerAssumption
  <2>2. QED BY <2>1 DEF Untruncated
<1>3. scut.keep = kept /\ scut.total = c[kept] /\ scut.rest = {}
    BY <1>2 DEF SampleCore
<1>4. whole.keep = keptw /\ whole.total = c[keptw] /\ whole.rest = {}
    BY <1>2 DEF SampleCore
<1> HIDE DEF w, c, a, f, u, v, st, sf, n
<1>5. \A k \in 0 .. n : c[k] \in Nat
    BY <1>1 DEF SumsAre
<1>6. c[a] \in Nat /\ c[f] \in Nat /\ c[a] + u \in Nat /\ c[f] + v = c[f]
  <2>1. a \in 0 .. n /\ f \in 0 .. n
      BY <1>1
  <2>2. c[a] \in Nat /\ c[f] \in Nat
      BY <1>5, <2>1
  <2>3. QED BY <1>1, <2>2
<1>7. first \in 0 .. st
  <2>1. st \in 0 .. n
      BY <1>1
  <2>2. QED BY <1>1, <1>6, <2>1, NucleusIs
<1>8. /\ p \in 1 .. f /\ c[p] * Den >= how.topP * c[f]
      /\ \A j \in 1 .. p - 1 : c[j] * Den < how.topP * c[f]
  <2>1. sf \in 0 .. n /\ f \in 0 .. n
      BY <1>1
  <2> DEFINE Has(k) == c[k] * Den >= how.topP * c[f]
             First(k, m) == k \in 1 .. m /\ Has(k) /\ \A j \in 1 .. k - 1 : c[j] * Den < how.topP * c[f]
  <2>2. second = 0 \/ First(second, sf)
    <3>1. second = Nucleus(c, sf, c[f])
        BY <1>6
    <3>2. QED BY <1>1, <1>6, <2>1, <3>1, NucleusIs
  <2>3. (third = 0 /\ \A j \in 1 .. f : c[j] * Den < how.topP * c[f]) \/ First(third, f)
    <3>1. third = Nucleus(c, f, c[f])
        BY <1>6
    <3>2. QED BY <1>1, <1>6, <2>1, <3>1, NucleusIs
  <2>4. ~(c[f] * Den < how.topP * c[f])
    <3> DEFINE x == c[f]
               t == how.topP
    <3>1. x \in Nat /\ t \in Nat /\ t <= Den /\ Den \in Nat
      <4>1. x \in Nat
          BY <1>6
      <4>2. t \in Nat /\ t <= Den /\ Den \in Nat
          BY <1>2
      <4>3. QED BY <4>1, <4>2
    <3> HIDE DEF x, t
    <3>2. t * x <= Den * x /\ Den * x = x * Den /\ t * x \in Nat /\ Den * x \in Nat
        BY <3>1
    <3>3. ~(x * Den < t * x)
        BY <3>2
    <3>4. QED BY <3>3 DEF x, t
  <2> HIDE DEF Has, second, third
  <2>5. second = 0 => First(third, f)
    <3>1. f \in 1 .. f
        BY <1>1
    <3>2. QED BY <2>3, <2>4, <3>1
  <2>6. First(p, f)
    <3>1. CASE second = 0
        BY <2>5, <3>1
    <3>2. CASE second # 0
      <4>1. First(second, sf) /\ second > 0 /\ second \in 1 .. f
          BY <1>1, <2>2, <3>2
      <4>2. QED BY <4>1
    <3>3. QED BY <3>1, <3>2
  <2>7. QED BY <2>6 DEF Has
<1>9. Odds(l) = IF scut.keep > 0 THEN scut ELSE whole
    BY DEF Odds
<1> HIDE DEF first, second, third, p, scut, whole
<1>10. LikelyOf(w, p) \in 1 .. p /\ keptw = LikelyOf(w, p) /\ keptw > 0
  <2>1. p \in Nat \ {0}
      BY <1>8, <1>1
  <2>2. LikelyOf(w, p) \in 1 .. p
      BY <2>1, LikelyIs
  <2>3. QED BY <2>1, <2>2
<1>11. CASE first = 0
  <2>1. Odds(l) = whole
      BY <1>3, <1>9, <1>11
  <2>2. Odds(l).keep = LikelyOf(w, p) /\ Odds(l).keep > 0 /\ Odds(l).total = c[Odds(l).keep] /\ Odds(l).rest = {}
      BY <1>4, <1>10, <2>1
  <2> HIDE DEF kept, keptw
  <2>3. \E q \in 1 .. f : /\ c[q] * Den >= how.topP * c[f]
                          /\ \A j \in 1 .. q - 1 : c[j] * Den < how.topP * c[f]
                          /\ Odds(l).keep = LikelyOf(w, q)
      BY <1>8, <2>2
  <2>4. first \in Nat
      BY <1>11
  <2>5. QED BY <1>11, <2>2, <2>3, <2>4 DEF w, c, a, f, u, st, first
<1>12. CASE first # 0
  <2>1. first \in Nat \ {0} /\ first > 0
      BY <1>1, <1>7, <1>12
  <2>2. LikelyOf(w, first) \in 1 .. first
      BY <2>1, LikelyIs
  <2>3. kept = LikelyOf(w, first) /\ kept > 0
      BY <2>1, <2>2
  <2>4. Odds(l) = scut
      BY <1>3, <1>9, <2>3
  <2>5. Odds(l).keep = LikelyOf(w, first) /\ Odds(l).keep > 0 /\ Odds(l).total = c[Odds(l).keep] /\ Odds(l).rest = {}
      BY <1>3, <2>3, <2>4
  <2> HIDE DEF kept, keptw
  <2>6. QED BY <2>1, <2>5 DEF w, c, a, f, u, st, first
<1>13. QED BY <1>11, <1>12

LEMMA NucleusHasEnough ==
    ASSUME NEW l, IsRow(l), DOMAIN l # {}, how \in Asks, Mild, how.topP < Den, how.minP = 0
    PROVE  LET c == Cum(Weights(l))
               all == c[Among(l, FALSE)]
               keep == Odds(l).keep
           IN  /\ keep > 0 /\ c[keep] * Den >= how.topP * all
               /\ c[keep - 1] * Den < how.topP * (all + BelowCut(l, TRUE))
<1> DEFINE n == Cardinality(DOMAIN l)
           w == Weights(l)
           c == Cum(w)
           a == Among(l, TRUE)
           f == Among(l, FALSE)
           u == BelowCut(l, TRUE)
           st == Sorted(l, TRUE)
           first == Nucleus(c, st, c[a] + u)
           k == Odds(l).keep
           t == how.topP
<1>1. /\ n \in Nat /\ w \in [1 .. n -> Nat] /\ SumsAre(n, w, c) /\ a \in 1 .. n /\ f \in 1 .. n
      /\ st \in 1 .. a /\ u \in Nat /\ w[1] > 0 /\ c[f] <= c[a] + u /\ a <= f
    BY CutIsBound
<1>2. Den \in Nat \ {0} /\ t \in 1 .. Den
    BY SamplerAssumption
<1>3. /\ k > 0 /\ first \in Nat
      /\ \/ first > 0 /\ k = LikelyOf(w, first)
         \/ /\ first = 0
            /\ \E p \in 1 .. f :
                  /\ c[p] * Den >= t * c[f]
                  /\ \A j \in 1 .. p - 1 : c[j] * Den < t * c[f]
                  /\ k = LikelyOf(w, p)
    BY NucleusOfSample
<1> HIDE DEF n, w, c, a, f, u, st, k, t
<1>4. \A i \in 0 .. n : c[i] \in Nat
    BY <1>1 DEF SumsAre
<1>5. c[a] \in Nat /\ c[f] \in Nat /\ c[a] <= c[f] /\ c[0] = 0 /\ c[f] > 0
  <2>1. a \in 0 .. n /\ f \in 0 .. n /\ 0 \in 0 .. n /\ 1 \in 1 .. n /\ 0 < 1 /\ 1 <= f
      BY <1>1
  <2>2. c[a] <= c[f] /\ c[0] + w[1] <= c[f]
      BY <1>1, <2>1, SumsRise
  <2>3. c[0] = 0
      BY <1>1 DEF SumsAre
  <2>4. c[a] \in Nat /\ c[f] \in Nat /\ w[1] \in Nat
      BY <1>1, <1>4, <2>1
  <2>5. QED BY <1>1, <2>2, <2>3, <2>4
<1> DEFINE x == c[f]
           y == c[a] + u
           z == c[f] + u
<1>6. x \in Nat /\ y \in Nat /\ z \in Nat /\ x <= y /\ y <= z /\ x > 0
  <2> DEFINE X == c[f]
             Y == c[a]
  <2>1. x = X /\ y = Y + u /\ z = X + u
      OBVIOUS
  <2>2. X \in Nat /\ Y \in Nat /\ Y <= X /\ X > 0 /\ X <= Y + u
      BY <1>1, <1>5
  <2> HIDE DEF x, y, z, X, Y
  <2>3. QED BY <1>1, <2>1, <2>2
<1> HIDE DEF x, y, z
<1>7. t * x <= t * y /\ t * y <= t * z /\ t * x \in Nat /\ t * y \in Nat /\ t * z \in Nat /\ 0 < t * x
    BY <1>2, <1>6
<1>8. \A q \in Nat \ {0} : LikelyOf(w, q) = q
  <2> TAKE q \in Nat \ {0}
  <2>1. q <= q
      OBVIOUS
  <2>2. QED BY <2>1, LikelyIs
<1>9. \A i \in 0 .. n : c[i] * Den \in Nat
  <2> TAKE i \in 0 .. n
  <2> DEFINE v == c[i]
  <2>1. v \in Nat
      BY <1>4
  <2> HIDE DEF v
  <2>2. v * Den \in Nat
      BY <1>2, <2>1
  <2>3. QED BY <2>2 DEF v
<1>10. c[0] * Den = 0
    BY <1>2, <1>5
<1>11. CASE first > 0
  <2>1. k = first
      BY <1>3, <1>8, <1>11
  <2>2. st \in 0 .. n /\ y \in Nat /\ first = Nucleus(c, st, y)
      BY <1>1, <1>6 DEF y
  <2> HIDE DEF first
  <2>3. first \in 1 .. st /\ c[first] * Den >= t * y /\ \A j \in 1 .. first - 1 : c[j] * Den < t * y
      BY <1>1, <1>11, <2>2, NucleusIs DEF t
  <2>4. k \in 0 .. n /\ k - 1 \in 0 .. n /\ (k = 1 \/ k - 1 \in 1 .. first - 1)
      BY <1>1, <2>1, <2>3
  <2>5. c[k] * Den >= t * x
      BY <1>7, <1>9, <2>1, <2>3, <2>4
  <2>6. CASE k = 1
    <3>1. c[k - 1] * Den = 0
        BY <1>10, <2>6
    <3>2. c[k - 1] * Den < t * z
        BY <1>7, <3>1
    <3>3. QED BY <1>3, <2>5, <3>2 DEF x, z, k, c, w, t, u, f
  <2>7. CASE k - 1 \in 1 .. first - 1
    <3>1. c[k - 1] * Den < t * y
        BY <2>3, <2>7
    <3>2. c[k - 1] * Den \in Nat
        BY <1>9, <2>4
    <3>3. c[k - 1] * Den < t * z
        BY <1>7, <3>1, <3>2
    <3>4. QED BY <1>3, <2>5, <3>3 DEF x, z, k, c, w, t, u, f
  <2>8. QED BY <2>4, <2>6, <2>7
<1>12. CASE first = 0
  <2>1. PICK p \in 1 .. f : /\ c[p] * Den >= t * x
                            /\ \A j \in 1 .. p - 1 : c[j] * Den < t * x
                            /\ k = LikelyOf(w, p)
      BY <1>3, <1>12 DEF x
  <2>2. p \in Nat \ {0}
      BY <1>1
  <2>3. k = p
      BY <1>8, <2>1, <2>2
  <2>4. k \in 0 .. n /\ k - 1 \in 0 .. n /\ (k = 1 \/ k - 1 \in 1 .. p - 1)
      BY <1>1, <2>3
  <2>5. c[k] * Den >= t * x
      BY <2>1, <2>3
  <2>6. CASE k = 1
    <3>1. c[k - 1] * Den = 0
        BY <1>10, <2>6
    <3>2. c[k - 1] * Den < t * z
        BY <1>7, <3>1
    <3>3. QED BY <1>3, <2>5, <3>2 DEF x, z, k, c, w, t, u, f
  <2>7. CASE k - 1 \in 1 .. p - 1
    <3>1. c[k - 1] * Den < t * x
        BY <2>1, <2>7
    <3>2. c[k - 1] * Den \in Nat
        BY <1>9, <2>4
    <3>3. c[k - 1] * Den < t * z
        BY <1>7, <3>1, <3>2
    <3>4. QED BY <1>3, <2>5, <3>3 DEF x, z, k, c, w, t, u, f
  <2>8. QED BY <2>4, <2>6, <2>7
<1>13. QED BY <1>3, <1>11, <1>12

LEMMA NotApart ==
    ASSUME NEW a \in Nat, NEW m \in Nat, NEW b \in Nat, NEW n \in Nat, NEW u \in Nat,
           a * n <= b * m + u * n, b * m <= a * n + u * n
    PROVE  ~Apart(a, m, b, n, u)
<1> DEFINE x == a * n
           y == b * m
           z == u * n
<1>1. x \in Nat /\ y \in Nat /\ z \in Nat /\ x <= y + z /\ y <= x + z
    OBVIOUS
<1>2. Apart(a, m, b, n, u) <=> Abs(x - y) > z
    BY DEF Apart
<1> HIDE DEF x, y, z
<1>3. ~(Abs(x - y) > z)
    BY <1>1 DEF Abs
<1>4. QED BY <1>2, <1>3

\* Products with the same factor.
LEMMA Times ==
    ASSUME NEW a \in Nat, NEW b \in Nat, NEW k \in Nat
    PROVE  /\ a * k \in Nat /\ a <= b => a * k <= b * k
           /\ (a + b) * k = a * k + b * k /\ a * k = k * a
<1>1. a * k \in Nat /\ b * k \in Nat /\ (a + b) * k = a * k + b * k /\ a * k = k * a
    OBVIOUS
<1>2. ASSUME a <= b PROVE a * k <= b * k
    BY <1>2
<1>3. QED BY <1>1, <1>2

\* Two first parts that do not differ by more than u give a place shares that do not.
LEMMA SharesOf ==
    ASSUME NEW n \in Nat, NEW w \in [1 .. n -> Nat], NEW c, SumsAre(n, w, c),
           NEW k \in 1 .. n, NEW h \in 1 .. n, NEW u \in Nat,
           c[k] <= c[h] + u, c[h] <= c[k] + u, NEW m \in 1 .. n
    PROVE  ~Apart(IF m <= k THEN w[m] ELSE 0, c[k], IF m <= h THEN w[m] ELSE 0, c[h], u)
<1> DEFINE v == w[m]
           X == c[k]
           Y == c[h]
<1>1. k \in 0 .. n /\ h \in 0 .. n /\ 0 \in 0 .. n
    OBVIOUS
<1>2. X \in Nat /\ Y \in Nat /\ v \in Nat /\ X <= Y + u /\ Y <= X + u
    BY <1>1 DEF SumsAre
<1>3. (m <= k => v <= X) /\ (m <= h => v <= Y)
  <2>1. c[0] = 0 /\ 0 < m
      BY DEF SumsAre
  <2>2. (m <= k => c[0] + w[m] <= c[k]) /\ (m <= h => c[0] + w[m] <= c[h])
      BY <1>1, <2>1, SumsRise
  <2> HIDE DEF v, X, Y
  <2>3. (m <= k => 0 + v <= X) /\ (m <= h => 0 + v <= Y)
      BY <2>1, <2>2 DEF v, X, Y
  <2>4. QED BY <1>2, <2>3
<1>4. (h < m /\ m <= k => Y + v <= X) /\ (k < m /\ m <= h => X + v <= Y)
    BY <1>1, SumsRise
<1> DEFINE A == IF m <= k THEN v ELSE 0
           B == IF m <= h THEN v ELSE 0
<1>5. A \in Nat /\ B \in Nat
    BY <1>2
<1> HIDE DEF v, X, Y
<1>6. A * Y <= B * X + u * Y /\ B * X <= A * Y + u * Y
  <2>1. u * Y \in Nat /\ v * X \in Nat /\ v * Y \in Nat /\ v * u \in Nat /\ Y * u = u * Y
      BY <1>2, Times
  <2>2. CASE m <= k /\ m <= h
    <3>1. v * u <= u * Y
      <4>1. v * u <= Y * u
          BY <1>2, <1>3, <2>2, Times
      <4>2. QED BY <2>1, <4>1
    <3>2. v * Y <= v * X + u * Y
      <4>1. Y * v <= (X + u) * v
        <5>1. X + u \in Nat
            BY <1>2
        <5>2. QED BY <1>2, <5>1, Times
      <4>2. (X + u) * v = X * v + u * v /\ X * v = v * X /\ u * v = v * u /\ Y * v = v * Y
          BY <1>2, Times
      <4>3. QED BY <2>1, <3>1, <4>1, <4>2
    <3>3. v * X <= v * Y + u * Y
      <4>1. X * v <= (Y + u) * v
        <5>1. Y + u \in Nat
            BY <1>2
        <5>2. QED BY <1>2, <5>1, Times
      <4>2. (Y + u) * v = Y * v + u * v /\ X * v = v * X /\ u * v = v * u /\ Y * v = v * Y
          BY <1>2, Times
      <4>3. QED BY <2>1, <3>1, <4>1, <4>2
    <3>4. A = v /\ B = v
        BY <2>2
    <3> HIDE DEF A, B
    <3>5. QED BY <3>2, <3>3, <3>4
  <2>3. CASE m <= k /\ ~(m <= h)
    <3>1. v <= u
        BY <1>2, <1>4, <2>3
    <3>2. v * Y <= u * Y
        BY <1>2, <3>1, Times
    <3>3. A = v /\ B = 0 /\ B * X = 0
        BY <1>2, <2>3
    <3> HIDE DEF A, B
    <3>4. QED BY <2>1, <3>2, <3>3
  <2>4. CASE ~(m <= k) /\ m <= h
    <3>1. v <= u /\ X <= Y
        BY <1>2, <1>4, <2>4
    <3>2. v * X <= u * X /\ X * u <= Y * u /\ X * u = u * X
        BY <1>2, <3>1, Times
    <3>3. u * X \in Nat
        BY <1>2, Times
    <3>4. B = v /\ A = 0 /\ A * Y = 0
        BY <1>2, <2>4
    <3> HIDE DEF A, B
    <3>5. QED BY <2>1, <3>2, <3>3, <3>4
  <2>5. CASE ~(m <= k) /\ ~(m <= h)
    <3>1. A = 0 /\ B = 0 /\ A * Y = 0 /\ B * X = 0
        BY <1>2, <2>5
    <3> HIDE DEF A, B
    <3>2. QED BY <2>1, <3>1
  <2>6. QED BY <2>2, <2>3, <2>4, <2>5
<1> HIDE DEF A, B
<1>7. ~Apart(A, X, B, Y, u)
    BY <1>2, <1>5, <1>6, NotApart
<1>8. QED BY <1>7 DEF A, B, X, Y, v

LEMMA WeightInIs ==
    ASSUME NEW l, IsRow(l), DOMAIN l # {}, NEW x \in DOMAIN l
    PROVE  /\ Place(l, x) \in 1 .. Cardinality(DOMAIN l)
           /\ \A k : WeightIn(l, k, x) = IF Place(l, x) <= k THEN Weights(l)[Place(l, x)] ELSE 0
BY PlaceIs DEF WeightIn

\* The odds of one token: those of prob_of and those of sample.
SameOdds(l, x) ==
    LET p == ProbOf(l)
        o == Odds(l)
    IN  \A e \in IF Place(l, x) \in o.rest THEN {0, Left(l, o)} ELSE {0} :
           ~Apart(WeightIn(l, p.keep, x), p.total, WeightIn(l, o.keep, x) + e, o.total, Uncovered(l))

\* Where first parts are drawn from whose masses differ by what is not covered at most.
LEMMA SameOddsOfParts ==
    ASSUME NEW l, IsRow(l), DOMAIN l # {}, how \in Asks, NEW x \in DOMAIN l,
           NEW k \in 1 .. Cardinality(DOMAIN l), NEW h \in 1 .. Cardinality(DOMAIN l),
           Uncovered(l) \in Nat,
           Cum(Weights(l))[k] <= Cum(Weights(l))[h] + Uncovered(l),
           Cum(Weights(l))[h] <= Cum(Weights(l))[k] + Uncovered(l),
           ProbOf(l).keep = k, ProbOf(l).total = Cum(Weights(l))[k],
           Odds(l).keep = h, Odds(l).total = Cum(Weights(l))[h], Odds(l).rest = {}
    PROVE  SameOdds(l, x)
<1> DEFINE n == Cardinality(DOMAIN l)
           w == Weights(l)
           c == Cum(w)
           m == Place(l, x)
           u == Uncovered(l)
           A == IF m <= k THEN w[m] ELSE 0
           B == IF m <= h THEN w[m] ELSE 0
<1>1. n \in Nat /\ w \in [1 .. n -> Nat] /\ SumsAre(n, w, c) /\ m \in 1 .. n /\ u \in Nat
    BY CutIsBound, WeightInIs
<1>2. c[k] <= c[h] + u /\ c[h] <= c[k] + u /\ k \in 1 .. n /\ h \in 1 .. n
    OBVIOUS
<1>3. WeightIn(l, k, x) = A /\ WeightIn(l, h, x) = B
    BY WeightInIs
<1> HIDE DEF n, w, c, m, u
<1>4. ~Apart(A, c[k], B, c[h], u)
    BY <1>1, <1>2, SharesOf
<1>5. A \in Nat /\ B \in Nat
    BY <1>1
<1> HIDE DEF A, B
<1>6. ~Apart(A, c[k], B + 0, c[h], u)
    BY <1>4, <1>5
<1>7. SUFFICES ASSUME NEW e \in IF Place(l, x) \in Odds(l).rest THEN {0, Left(l, Odds(l))} ELSE {0}
      PROVE  ~Apart(WeightIn(l, k, x), c[k], WeightIn(l, h, x) + e, c[h], u)
    BY Zenon DEF SameOdds, c, w, u
<1>8. e = 0
    BY <1>7
<1>9. QED BY <1>3, <1>6, <1>8

\* Nothing truncated: everything near is drawn from, and the rest of the mass goes to one of the unsorted.
LEMMA SameOddsUntruncated ==
    ASSUME NEW l, IsRow(l), DOMAIN l # {}, how \in Asks, NEW x \in DOMAIN l, Untruncated
    PROVE  SameOdds(l, x)
<1> DEFINE n == Cardinality(DOMAIN l)
           w == Weights(l)
           c == Cum(w)
           m == Place(l, x)
           a == Among(l, TRUE)
           u == BelowCut(l, TRUE)
           st == Sorted(l, TRUE)
           M == c[st] + u
           T == c[a] + u
           U == u + c[a] - c[st]
           A == IF m <= st THEN w[m] ELSE 0
           o == SampleCore(l, TRUE)
<1>1. n \in Nat /\ w \in [1 .. n -> Nat] /\ SumsAre(n, w, c) /\ m \in 1 .. n /\ u \in Nat
        /\ a \in 1 .. n /\ st \in 1 .. a
    BY CutIsBound, WeightInIs
<1>2. how.topP = Den /\ how.minP = 0
    BY DEF Untruncated
<1>3. Uncovered(l) = U /\ Untruncated
    BY DEF Uncovered
<1> HIDE DEF n, w, c, m, a, u, st
<1>4. LikelyOf(w, st) = st
    BY <1>2 DEF LikelyOf
<1>5. ProbOf(l).keep = st /\ ProbOf(l).total = M
    BY <1>2, <1>3, <1>4 DEF ProbOf, KeptSorted, MassSorted, w, c, st, u
<1>6. o.keep = st /\ o.total = T /\ o.rest = Lesser(st + 1, a) .. a
  <2>1. st # 0
      BY <1>1
  <2>2. LikelyOf(w, st) = st
      BY <1>4
  <2>3. o.keep = IF st = 0 THEN 0 ELSE LikelyOf(w, st)
      BY <1>2 DEF SampleCore, w, c, a, st, u
  <2>4. o.total = T /\ o.rest = Lesser(st + 1, a) .. a
      BY <1>2, <1>3 DEF SampleCore, w, c, a, st, u
  <2>5. QED BY <2>1, <2>2, <2>3, <2>4
<1>7. Odds(l) = o
  <2>1. Odds(l) = IF o.keep > 0 THEN o ELSE SampleCore(l, FALSE)
      BY DEF Odds
  <2> HIDE DEF o
  <2>2. o.keep > 0
      BY <1>1, <1>6
  <2>3. QED BY <2>1, <2>2
<1>8. c[st] \in Nat /\ c[a] \in Nat /\ c[st] <= c[a] /\ w[m] \in Nat /\ A \in Nat /\ A <= c[st]
  <2>1. st \in 0 .. n /\ a \in 0 .. n /\ 0 \in 0 .. n /\ st <= a /\ 0 < m
      BY <1>1
  <2>2. \A i \in 0 .. n : c[i] \in Nat
      BY <1>1 DEF SumsAre
  <2>3. c[0] = 0 /\ w[m] \in Nat
      BY <1>1 DEF SumsAre
  <2>4. c[st] <= c[a] /\ (m <= st => c[0] + w[m] <= c[st])
      BY <1>1, <2>1, SumsRise
  <2>5. c[st] \in Nat /\ c[a] \in Nat
      BY <2>1, <2>2
  <2>6. QED BY <2>3, <2>4, <2>5
<1>9. Left(l, o) = U
  <2>1. Left(l, o) = T - c[st]
      BY <1>6 DEF Left, w, c
  <2> DEFINE X == c[a]
             Y == c[st]
             L == Left(l, o)
  <2> HIDE DEF X, Y, L
  <2>2. X \in Nat /\ Y \in Nat /\ L = (X + u) - Y
    <3>1. X \in Nat /\ Y \in Nat
        BY <1>8 DEF X, Y
    <3>2. L = (X + u) - Y
        BY <2>1, Zenon DEF X, Y, L
    <3>3. QED BY <3>1, <3>2
  <2>3. L = u + X - Y
      BY <1>1, <2>2
  <2>4. QED BY <2>3 DEF X, Y, L
<1>10. WeightIn(l, st, x) = A
    BY WeightInIs DEF m, w
<1> DEFINE t == c[a] - c[st]
<1>11. M \in Nat /\ T \in Nat /\ U \in Nat /\ t \in Nat /\ M <= T /\ T = M + t /\ t <= U /\ A <= T /\ U = u + t /\ A \in Nat
  <2> DEFINE X == c[a]
             Y == c[st]
  <2> HIDE DEF X, Y, A
  <2>1. X \in Nat /\ Y \in Nat /\ Y <= X /\ A \in Nat /\ A <= Y
      BY <1>8 DEF X, Y
  <2>2. /\ Y + u \in Nat /\ X + u \in Nat /\ u + X - Y \in Nat /\ X - Y \in Nat /\ Y + u <= X + u
        /\ X + u = (Y + u) + (X - Y) /\ X - Y <= u + X - Y /\ A <= X + u /\ u + X - Y = u + (X - Y)
      BY <1>1, <2>1
  <2>3. QED BY <2>1, <2>2 DEF X, Y
<1>12. (m \in Lesser(st + 1, a) .. a /\ m <= st) => t = 0
  <2>1. (m \in Lesser(st + 1, a) .. a /\ m <= st) => st = a
      BY <1>1 DEF Lesser
  <2>2. QED BY <1>8, <2>1
<1>13. m <= st \/ A = 0
    BY <1>1
<1> HIDE DEF A, M, T, U, t, o
<1>14. A * T \in Nat /\ A * M \in Nat /\ U * T \in Nat /\ U * M \in Nat /\ U * M <= U * T /\ A * M <= A * T
        /\ A * T = A * M + A * t /\ A * t <= U * T /\ A * t \in Nat
  <2>1. M * U <= T * U /\ M * U = U * M /\ T * U = U * T /\ M * A <= T * A /\ M * A = A * M /\ T * A = A * T
      BY <1>11, Times
  <2>2. A * T \in Nat /\ A * M \in Nat /\ U * T \in Nat /\ U * M \in Nat
      BY <1>11, Times
  <2>3. (M + t) * A = M * A + t * A /\ t * A = A * t
      BY <1>11, Times
  <2>4. A * t <= T * t /\ t * T <= U * T /\ T * t = t * T /\ A * t \in Nat /\ t * T \in Nat
      BY <1>11, Times
  <2>5. T * A = M * A + A * t
      BY <1>11, <2>3
  <2>6. QED BY <2>1, <2>2, <2>4, <2>5
<1>15. ~Apart(A, M, A + 0, T, U)
  <2>1. A * T <= A * M + U * T /\ A * M <= A * T + U * T
    <3> DEFINE p == A * T
               q == A * M
               r == U * T
               v == A * t
    <3>1. p \in Nat /\ q \in Nat /\ r \in Nat /\ q <= p /\ p = q + v /\ v <= r /\ v \in Nat
        BY <1>14
    <3> HIDE DEF p, q, r, v
    <3>2. p <= q + r /\ q <= p + r
        BY <3>1
    <3>3. QED BY <3>2 DEF p, q, r
  <2>2. A + 0 = A
      BY <1>11
  <2>3. QED BY <1>11, <2>1, <2>2, NotApart
<1>16. ASSUME m \in Lesser(st + 1, a) .. a PROVE ~Apart(A, M, A + U, T, U)
  <2>1. A + U \in Nat
      BY <1>11
  <2>2. (A + U) * M = A * M + U * M
      BY <1>11, Times
  <2>3. A * T <= (A + U) * M + U * T /\ (A + U) * M <= A * T + U * T
    <3> DEFINE p == A * T
               q == A * M
               r == U * T
               v == U * M
    <3>1. p \in Nat /\ q \in Nat /\ r \in Nat /\ v \in Nat /\ v <= r /\ (A + U) * M = q + v /\ q <= p
        BY <1>14, <2>2
    <3>2. p = q
      <4>1. CASE m <= st
        <5>1. t = 0
            BY <1>12, <1>16, <4>1
        <5>2. T = M
            BY <1>11, <5>1
        <5>3. QED BY <5>2
      <4>2. CASE A = 0
          BY <1>11, <4>2
      <4>3. QED BY <1>13, <4>1, <4>2
    <3> HIDE DEF p, q, r, v
    <3>3. p <= (q + v) + r /\ q + v <= p + r
        BY <3>1, <3>2
    <3>4. QED BY <3>1, <3>3 DEF p, q, r, v
  <2>4. QED BY <1>11, <2>1, <2>3, NotApart
<1>17. SUFFICES ASSUME NEW e \in IF m \in o.rest THEN {0, Left(l, o)} ELSE {0}
       PROVE  ~Apart(WeightIn(l, st, x), M, WeightIn(l, st, x) + e, T, U)
    BY <1>3, <1>5, <1>6, <1>7, Zenon DEF SameOdds, m
<1>18. e = 0 \/ (e = U /\ m \in Lesser(st + 1, a) .. a)
    BY <1>6, <1>9, <1>17
<1>19. QED BY <1>10, <1>15, <1>16, <1>18

\* The first parts that prob_of and sample keep differ by the bound of the cut at most.
LEMMA PartsDiffer ==
    ASSUME NEW n \in Nat, NEW w \in [1 .. n -> Nat], NEW c, SumsAre(n, w, c), how \in Asks,
           NEW a \in 1 .. n, NEW f \in 1 .. n, a <= f, NEW u \in Nat, c[f] <= c[a] + u,
           \A j \in 1 .. a : c[j] * Den < how.topP * (c[a] + u),
           NEW p \in 1 .. f, c[p] * Den >= how.topP * c[f]
    PROVE  LET k == LikelyOf(w, a)
               h == LikelyOf(w, p)
           IN  k \in 1 .. n /\ h \in 1 .. n /\ c[k] <= c[h] + u /\ c[h] <= c[k] + u
<1> DEFINE k == LikelyOf(w, a)
           h == LikelyOf(w, p)
           t == how.topP
<1>1. Den \in Nat \ {0} /\ t \in Nat /\ t <= Den
  <2>1. how.topP \in 1 .. Den /\ Den \in Nat \ {0}
      BY SamplerAssumption
  <2>2. QED BY <2>1
<1>2. \A i \in 0 .. n : c[i] \in Nat
    BY DEF SumsAre
<1>3. a \in 0 .. n /\ f \in 0 .. n /\ p \in 0 .. n /\ a \in Nat \ {0} /\ p \in Nat \ {0} /\ p <= f
    OBVIOUS
<1>4. \A i, j \in 0 .. n : i <= j => c[i] <= c[j]
    BY SumsRise
<1>5. c[a] <= c[f] /\ c[p] <= c[f] /\ c[a] \in Nat /\ c[f] \in Nat /\ c[p] \in Nat
    BY <1>2, <1>3, <1>4
<1>6. c[a] <= c[p] + u /\ c[p] <= c[a] + u
  <2> DEFINE X == c[a]
             Y == c[f]
             Z == c[p]
  <2>1. X \in Nat /\ Y \in Nat /\ Z \in Nat /\ X <= Y /\ Z <= Y /\ Y <= X + u /\ Z * Den >= t * Y
      BY <1>5
  <2>2. X * Den < t * (X + u)
    <3>1. a \in 1 .. a
        OBVIOUS
    <3>2. QED BY <3>1
  <2> HIDE DEF X, Y, Z, t
  <2>3. Z <= X + u
      BY <2>1
  <2>4. X <= Z + u
    <3> SUFFICES ASSUME ~(X <= Z + u) PROVE FALSE
        OBVIOUS
    <3>1. Z + u <= X /\ Z + u \in Nat
        BY <2>1
    <3>2. (Z + u) * Den <= X * Den /\ (Z + u) * Den = Z * Den + u * Den /\ X * Den \in Nat
        BY <1>1, <2>1, <3>1, Times
    <3>3. Z * Den \in Nat /\ u * Den \in Nat
        BY <1>1, <2>1, Times
    <3>4. X * t <= Y * t /\ X * t = t * X /\ Y * t = t * Y /\ t * X \in Nat /\ t * Y \in Nat
        BY <1>1, <2>1, Times
    <3>5. t * (X + u) = t * X + t * u
      <4>1. (X + u) * t = X * t + u * t /\ u * t = t * u
          BY <1>1, <2>1, Times
      <4>2. X + u \in Nat
          BY <2>1
      <4>3. (X + u) * t = t * (X + u)
          BY <1>1, <4>2, Times
      <4>4. QED BY <3>4, <4>1, <4>3
    <3>6. t * u <= Den * u /\ Den * u = u * Den /\ t * u \in Nat
        BY <1>1, Times
    <3> DEFINE x == X * Den
               z == Z * Den
               v == u * Den
               g == t * X
               y == t * Y
               r == t * u
    <3>7. x \in Nat /\ z \in Nat /\ v \in Nat /\ g \in Nat /\ y \in Nat /\ r \in Nat
            /\ z + v <= x /\ x < g + r /\ g <= y /\ y <= z /\ r <= v
        BY <2>1, <2>2, <3>2, <3>3, <3>4, <3>5, <3>6
    <3> HIDE DEF x, z, v, g, y, r
    <3>8. QED BY <3>7
  <2>5. QED BY <2>3, <2>4 DEF X, Z
<1> HIDE DEF k, h
<1>7. CASE a <= p
  <2>1. k \in 1 .. a /\ h \in 1 .. p /\ (k # h => k = a /\ a <= h)
      BY <1>3, <1>7, LikelyIs DEF k, h
  <2>2. k \in 0 .. n /\ h \in 0 .. n /\ k \in 1 .. n /\ h \in 1 .. n /\ h <= p
      BY <1>3, <2>1
  <2>3. c[k] \in Nat /\ c[h] \in Nat
      BY <1>2, <2>2
  <2>4. CASE k = h
      BY <2>2, <2>3, <2>4 DEF k, h
  <2>5. CASE k # h
    <3>1. c[k] <= c[h] /\ c[h] <= c[p] /\ c[k] = c[a]
        BY <1>3, <1>4, <2>1, <2>2, <2>5
    <3> DEFINE X == c[k]
               Y == c[h]
               Z == c[p]
    <3>2. X \in Nat /\ Y \in Nat /\ Z \in Nat /\ X <= Y /\ Y <= Z /\ Z <= X + u
        BY <1>5, <1>6, <2>3, <3>1
    <3> HIDE DEF X, Y, Z
    <3>3. X <= Y + u /\ Y <= X + u
        BY <3>2
    <3>4. QED BY <2>2, <3>3 DEF X, Y, k, h
  <2>6. QED BY <2>4, <2>5
<1>8. CASE ~(a <= p)
  <2>0. p <= a
      BY <1>3, <1>8
  <2>1. k \in 1 .. a /\ h \in 1 .. p /\ (k # h => h = p /\ p <= k)
      BY <1>3, <2>0, LikelyIs DEF k, h
  <2>2. k \in 0 .. n /\ h \in 0 .. n /\ k \in 1 .. n /\ h \in 1 .. n /\ k <= a
      BY <1>3, <2>1
  <2>3. c[k] \in Nat /\ c[h] \in Nat
      BY <1>2, <2>2
  <2>4. CASE k = h
      BY <2>2, <2>3, <2>4 DEF k, h
  <2>5. CASE k # h
    <3>1. c[h] <= c[k] /\ c[k] <= c[a] /\ c[h] = c[p]
        BY <1>3, <1>4, <2>1, <2>2, <2>5
    <3> DEFINE X == c[h]
               Y == c[k]
               Z == c[a]
    <3>2. X \in Nat /\ Y \in Nat /\ Z \in Nat /\ X <= Y /\ Y <= Z /\ Z <= X + u
        BY <1>5, <1>6, <2>3, <3>1
    <3> HIDE DEF X, Y, Z
    <3>3. X <= Y + u /\ Y <= X + u
        BY <3>2
    <3>4. QED BY <2>2, <3>3 DEF X, Y, k, h
  <2>6. QED BY <2>4, <2>5
<1>9. QED BY <1>7, <1>8

LEMMA OddsAreSame ==
    ASSUME NEW l, IsRow(l), DOMAIN l # {}, how \in Asks, Mild,
           how.topP = Den \/ Among(l, TRUE) <= CandN
    PROVE  \A x \in DOMAIN l : SameOdds(l, x)
<1> DEFINE n == Cardinality(DOMAIN l)
           w == Weights(l)
           c == Cum(w)
           a == Among(l, TRUE)
           f == Among(l, FALSE)
           u == BelowCut(l, TRUE)
           st == Sorted(l, TRUE)
           first == Nucleus(c, st, c[a] + u)
           U == Uncovered(l)
           p == ProbOf(l)
           o == Odds(l)
<1>1. /\ n \in Nat /\ w \in [1 .. n -> Nat] /\ SumsAre(n, w, c) /\ a \in 1 .. n /\ f \in 1 .. n
      /\ st \in 1 .. a /\ u \in Nat /\ c[f] <= c[a] + u /\ a <= f
    BY CutIsBound
<1>2. Den \in Nat \ {0} /\ how.topP \in 1 .. Den /\ CandN \in Nat \ {0}
    BY SamplerAssumption
<1>3. U = u + c[a] - c[st]
    BY DEF Uncovered
<1>4. ~Untruncated => p.total = c[p.keep]
    BY DEF ProbOf
<1>5. p.keep = LikelyOf(w, IF how.topP = Den \/ Nucleus(c, st, c[st] + u) = 0 THEN st ELSE Nucleus(c, st, c[st] + u))
    BY Zenon DEF ProbOf, KeptSorted, MassSorted
<1>6. \A i \in 0 .. n : c[i] \in Nat
    BY <1>1 DEF SumsAre
<1>7. Odds(l) = IF SampleCore(l, TRUE).keep > 0 THEN SampleCore(l, TRUE) ELSE SampleCore(l, FALSE)
    BY DEF Odds
<1>8. how.topP = Den /\ ~Untruncated => /\ SampleCore(l, TRUE).keep = IF st = 0 THEN 0 ELSE LikelyOf(w, st)
                                        /\ SampleCore(l, TRUE).total = c[SampleCore(l, TRUE).keep]
                                        /\ SampleCore(l, TRUE).rest = {}
    BY DEF SampleCore
<1>9. Sorted(l, TRUE) = Lesser(CandN, Among(l, TRUE))
    BY DEF Sorted
<1>10. ASSUME NEW x \in DOMAIN l, NEW k \in 1 .. n, NEW h \in 1 .. n, U \in Nat,
              c[k] <= c[h] + U, c[h] <= c[k] + U, p.keep = k, p.total = c[k],
              o.keep = h, o.total = c[h], o.rest = {}
       PROVE  SameOdds(l, x)
    BY <1>10, SameOddsOfParts
<1> HIDE DEF n, w, c, a, f, u, st, U, p, o
<1>11. c[a] \in Nat /\ c[st] \in Nat /\ c[st] <= c[a]
  <2>1. a \in 0 .. n /\ st \in 0 .. n /\ st <= a
      BY <1>1
  <2>2. QED BY <1>1, <1>6, <2>1, SumsRise
<1>12. U \in Nat
    BY <1>1, <1>3, <1>11
<1>13. TAKE x \in DOMAIN l
<1>14. CASE Untruncated
    BY <1>14, SameOddsUntruncated
<1>15. CASE how.topP = Den /\ ~Untruncated
  <2> DEFINE k == LikelyOf(w, st)
             s == SampleCore(l, TRUE)
  <2>1. st \in Nat \ {0} /\ st <= st
      BY <1>1
  <2>2. k \in 1 .. st
      BY <2>1, LikelyIs
  <2>3. p.keep = k /\ p.total = c[k]
      BY <1>4, <1>5, <1>15
  <2> HIDE DEF k
  <2>4. s.keep = k /\ s.total = c[k] /\ s.rest = {}
    <3>1. st # 0
        BY <2>1
    <3>2. QED BY <1>8, <1>15, <3>1 DEF k
  <2> HIDE DEF s
  <2>5. o = s
    <3>1. s.keep > 0
        BY <2>2, <2>4, <1>1
    <3>2. QED BY <1>7, <3>1 DEF s, o
  <2>6. k \in 1 .. n /\ k \in 0 .. n
      BY <1>1, <2>2
  <2>7. c[k] \in Nat
      BY <1>6, <2>6
  <2>8. c[k] <= c[k] + U
      BY <1>12, <2>7
  <2>9. o.keep = k /\ o.total = c[k] /\ o.rest = {}
      BY <2>4, <2>5
  <2>10. QED BY <1>10, <1>12, <2>3, <2>6, <2>8, <2>9
<1>16. CASE how.topP # Den
  <2>1. how.topP < Den /\ ~Untruncated
      BY <1>2, <1>16 DEF Untruncated
  <2>2. st = a
    <3>1. a <= CandN /\ st = Lesser(CandN, a)
        BY <1>9, <1>16 DEF a, st
    <3>2. QED BY <1>1, <1>2, <3>1 DEF Lesser
  <2>3. U = u
      BY <1>1, <1>3, <1>11, <2>2
  <2>4. /\ o.keep > 0 /\ o.total = c[o.keep] /\ o.rest = {}
        /\ first \in Nat
        /\ \/ first > 0 /\ o.keep = LikelyOf(w, first)
           \/ /\ first = 0
              /\ \E q \in 1 .. f :
                    /\ c[q] * Den >= how.topP * c[f]
                    /\ \A j \in 1 .. q - 1 : c[j] * Den < how.topP * c[f]
                    /\ o.keep = LikelyOf(w, q)
      BY <2>1, NucleusOfSample DEF w, c, a, f, u, st, o
  <2>5. first = Nucleus(c, a, c[a] + u) /\ a \in 0 .. n /\ c[a] + u \in Nat
      BY <1>1, <1>11, <2>2
  <2> HIDE DEF first
  <2>6. (first = 0 /\ \A j \in 1 .. a : c[j] * Den < how.topP * (c[a] + u)) \/ first \in 1 .. a
      BY <1>1, <2>5, NucleusIs
  <2>7. p.keep = LikelyOf(w, IF first = 0 THEN a ELSE first) /\ p.total = c[p.keep]
      BY <1>4, <1>5, <1>16, <2>1, <2>2, <2>5
  <2>8. CASE first \in 1 .. a
    <3> DEFINE k == LikelyOf(w, first)
    <3>1. first \in Nat \ {0} /\ first <= first /\ first # 0 /\ first > 0
        BY <2>8, <1>1
    <3>2. k \in 1 .. first
        BY <3>1, LikelyIs
    <3>3. p.keep = k /\ p.total = c[k] /\ o.keep = k /\ o.total = c[k] /\ o.rest = {}
        BY <2>4, <2>7, <3>1
    <3> HIDE DEF k
    <3>4. k \in 1 .. n /\ k \in 0 .. n
        BY <1>1, <2>8, <3>2
    <3>5. c[k] \in Nat
        BY <1>6, <3>4
    <3>6. c[k] <= c[k] + U
        BY <1>12, <3>5
    <3>7. QED BY <1>10, <1>12, <3>3, <3>4, <3>6
  <2>9. CASE first = 0 /\ \A j \in 1 .. a : c[j] * Den < how.topP * (c[a] + u)
    <3>1. PICK q \in 1 .. f : c[q] * Den >= how.topP * c[f] /\ o.keep = LikelyOf(w, q)
        BY <2>4, <2>9
    <3> DEFINE k == LikelyOf(w, a)
               h == LikelyOf(w, q)
    <3>2. k \in 1 .. n /\ h \in 1 .. n /\ c[k] <= c[h] + u /\ c[h] <= c[k] + u
        BY <1>1, <2>9, <3>1, PartsDiffer
    <3>3. p.keep = k /\ p.total = c[k] /\ o.keep = h /\ o.total = c[h] /\ o.rest = {}
        BY <2>4, <2>7, <2>9, <3>1
    <3> HIDE DEF k, h
    <3>4. c[k] <= c[h] + U /\ c[h] <= c[k] + U
        BY <2>3, <3>2
    <3>5. QED BY <1>10, <1>12, <3>2, <3>3, <3>4
  <2>10. QED BY <2>6, <2>8, <2>9
<1>17. QED BY <1>14, <1>15, <1>16

SamplerInv ==
    /\ how \in Asks /\ said \in Seq(Id) /\ recent \in Seq(Id)
    /\ row \in Rows \cup {NoRow} /\ copied \in Seq(Id) /\ passed \in 0 .. Len(copied)
    /\ stand \in {"idle", "verify", "correct"}
    /\ stand = "idle" => passed = 0
    /\ stand = "verify" => row \in Rows /\ passed < Len(copied)

LEMMA PenalisedIsRow ==
    ASSUME NEW l, IsRow(l), NEW ts, how \in Asks
    PROVE  IsRow(Penalised(l, ts)) /\ DOMAIN Penalised(l, ts) = DOMAIN l
<1>1. how.penalty \in Nat \ {0}
    BY SamplerAssumption
<1>2. ASSUME NEW v \in Int PROVE Lessened(v) \in Int
  <2> DEFINE k == how.penalty
  <2>1. k \in Nat \ {0}
      BY <1>1
  <2>2. Lessened(v) = IF v > 0 THEN v \div k ELSE v * k
      BY DEF Lessened
  <2> HIDE DEF k
  <2>3. v \div k \in Int
      BY <2>1, Euclid
  <2>4. v * k \in Int
      BY <2>1
  <2>5. QED BY <2>2, <2>3, <2>4
<1>3. \A t \in DOMAIN l : l[t] \in Int
    BY DEF IsRow
<1>4. DOMAIN Penalised(l, ts) = DOMAIN l
    BY DEF Penalised
<1>5. ASSUME NEW t \in DOMAIN l PROVE Penalised(l, ts)[t] \in Int
  <2>1. Penalised(l, ts)[t] = Lessened(l[t]) \/ Penalised(l, ts)[t] = l[t]
      BY DEF Penalised
  <2>2. QED BY <1>2, <1>3, <2>1
<1>6. Penalised(l, ts) = [t \in DOMAIN l |-> Penalised(l, ts)[t]]
    BY DEF Penalised
<1>7. Penalised(l, ts) \in [DOMAIN l -> Int]
    BY <1>5, <1>6
<1>8. QED BY <1>4, <1>7 DEF IsRow

LEMMA RowsAreRows ==
    ASSUME NEW l \in Rows \cup {NoRow}
    PROVE  IsRow(l)
<1>1. CASE l \in Rows
    BY <1>1, SamplerAssumption DEF IsRow
<1>2. CASE l = NoRow
  <2>1. l = << >>
      BY <1>2 DEF NoRow
  <2>2. << >> \in [{} -> Int] /\ DOMAIN << >> = {}
      OBVIOUS
  <2>3. QED BY <2>1, <2>2 DEF IsRow
<1>3. QED BY <1>1, <1>2

LEMMA LastOfIs ==
    ASSUME NEW s \in Seq(Id), NEW n \in Nat
    PROVE  LastOf(s, n) \in Seq(Id) /\ (Len(s) <= n => LastOf(s, n) = s)
<1> DEFINE m == IF Len(s) > n THEN Len(s) - n + 1 ELSE 1
<1>1. Len(s) \in Nat
    OBVIOUS
<1>2. LastOf(s, n) = SubSeq(s, m, Len(s))
    BY DEF LastOf
<1>3. m \in Nat /\ m >= 1
    BY <1>1
<1>4. m \in 1 .. Len(s) + 1 /\ Len(s) \in m - 1 .. Len(s)
    BY <1>1
<1> HIDE DEF m
<1>5. SubSeq(s, m, Len(s)) \in Seq(Id)
    BY <1>1, <1>3, <1>4
<1>6. ASSUME Len(s) <= n PROVE SubSeq(s, m, Len(s)) = s
  <2>1. m = 1
      BY <1>1, <1>6 DEF m
  <2>2. QED BY <2>1
<1>7. QED BY <1>2, <1>5, <1>6

\* What is drawn is a token.
LEMMA KeptIsWithin ==
    ASSUME NEW l, IsRow(l), DOMAIN l # {}, how \in Asks, NEW o,
           o = SampleCore(l, TRUE) \/ o = SampleCore(l, FALSE)
    PROVE  1 .. o.keep \subseteq 1 .. Cardinality(DOMAIN l) /\ o.rest \subseteq 1 .. Cardinality(DOMAIN l)
<1> DEFINE n == Cardinality(DOMAIN l)
           w == Weights(l)
           c == Cum(w)
           a == Among(l, TRUE)
           f == Among(l, FALSE)
           u == BelowCut(l, TRUE)
           v == BelowCut(l, FALSE)
           st == Sorted(l, TRUE)
           sf == Sorted(l, FALSE)
           t == how.topP
           p == IF t = Den THEN st ELSE Nucleus(c, st, c[a] + u)
           q == IF t = Den THEN sf
                ELSE IF Nucleus(c, sf, c[f] + v) > 0 THEN Nucleus(c, sf, c[f] + v) ELSE Nucleus(c, f, c[f] + v)
           x == SampleCore(l, TRUE)
           y == SampleCore(l, FALSE)
<1>1. /\ n \in Nat /\ w \in [1 .. n -> Nat] /\ SumsAre(n, w, c) /\ a \in 1 .. n /\ f \in 1 .. n
      /\ st \in 1 .. a /\ sf \in 1 .. f /\ u \in Nat /\ v = 0
    BY CutIsBound
<1>2. x.keep = (IF p = 0 THEN 0 ELSE LikelyOf(w, p)) /\ x.rest \subseteq Lesser(st + 1, a) .. a
    BY DEF SampleCore
<1>3. y.keep = (IF q = 0 THEN 0 ELSE LikelyOf(w, q)) /\ y.rest \subseteq Lesser(sf + 1, f) .. f
    BY DEF SampleCore
<1> HIDE DEF n, w, c, a, f, u, v, st, sf, x, y, t
<1>4. c[a] + u \in Nat /\ c[f] + v \in Nat
  <2>1. a \in 0 .. n /\ f \in 0 .. n
      BY <1>1
  <2>2. c[a] \in Nat /\ c[f] \in Nat
      BY <1>1, <2>1 DEF SumsAre
  <2>3. QED BY <1>1, <2>2
<1>5. p \in 0 .. n /\ q \in 0 .. n
  <2>1. st \in 0 .. n /\ sf \in 0 .. n /\ f \in 0 .. n
      BY <1>1
  <2>2. Nucleus(c, st, c[a] + u) \in 0 .. st
      BY <1>1, <1>4, <2>1, NucleusIs
  <2>3. Nucleus(c, sf, c[f] + v) \in 0 .. sf
      BY <1>1, <1>4, <2>1, NucleusIs
  <2>4. Nucleus(c, f, c[f] + v) \in 0 .. f
      BY <1>1, <1>4, <2>1, NucleusIs
  <2>5. QED BY <1>1, <2>1, <2>2, <2>3, <2>4
<1> HIDE DEF p, q
<1>6. ASSUME NEW k \in 0 .. n PROVE (IF k = 0 THEN 0 ELSE LikelyOf(w, k)) \in 0 .. n
  <2>1. CASE k = 0
      BY <1>1, <2>1
  <2>2. CASE k # 0
    <3>1. k \in Nat \ {0} /\ k <= k
        BY <1>1, <2>2
    <3>2. LikelyOf(w, k) \in 1 .. k
        BY <3>1, LikelyIs
    <3>3. QED BY <1>1, <2>2, <3>2
  <2>3. QED BY <2>1, <2>2
<1>7. x.keep \in 0 .. n /\ y.keep \in 0 .. n
    BY <1>2, <1>3, <1>5, <1>6
<1>8. Lesser(st + 1, a) .. a \subseteq 1 .. n /\ Lesser(sf + 1, f) .. f \subseteq 1 .. n
    BY <1>1 DEF Lesser
<1>9. o.keep \in 0 .. n /\ o.rest \subseteq 1 .. n
    BY <1>2, <1>3, <1>7, <1>8 DEF x, y
<1>10. 1 .. o.keep \subseteq 1 .. n
    BY <1>1, <1>9
<1>11. QED BY <1>9, <1>10 DEF n

LEMMA DrawnIsToken ==
    ASSUME NEW l, IsRow(l), how \in Asks
    PROVE  Drawn(l) \subseteq Id
<1> SUFFICES ASSUME NEW y \in Drawn(l) PROVE y \in Id
    OBVIOUS
<1>1. CASE DOMAIN l = {}
  <2>1. y = 0
      BY <1>1 DEF Drawn
  <2>2. VocabLen \in Nat \ {0}
      BY SamplerAssumption
  <2>3. QED BY <2>1, <2>2 DEF Id
<1>2. CASE DOMAIN l # {}
  <2>1. \A i \in 1 .. Cardinality(DOMAIN l) : Ranked(l)[i] \in Id
      BY RankedIs DEF IsRow
  <2>2. 1 \in 1 .. Cardinality(DOMAIN l)
      BY <1>2, RowIsFinite
  <2>3. Odds(l) = SampleCore(l, TRUE) \/ Odds(l) = SampleCore(l, FALSE)
      BY DEF Odds
  <2>4. 1 .. Odds(l).keep \subseteq 1 .. Cardinality(DOMAIN l) /\ Odds(l).rest \subseteq 1 .. Cardinality(DOMAIN l)
      BY <1>2, <2>3, KeptIsWithin
  <2>5. \E i \in 1 .. Cardinality(DOMAIN l) : y = Ranked(l)[i]
      BY <1>2, <2>2, <2>4 DEF Drawn
  <2>6. QED BY <2>1, <2>5
<1>3. QED BY <1>1, <1>2

LEMMA DraftIsTokens ==
    ASSUME NEW hist \in Seq(Id), NEW n \in Nat \ {0}, NEW m \in Nat, NEW max \in Int
    PROVE  max >= 0 => NgramDraft(hist, n, m, max) \in Seq(Id)
<1> HAVE max >= 0
<1>1. CASE Len(hist) < n + 1 \/ max = 0 \/ Earlier(hist, n) = {}
    BY <1>1 DEF NgramDraft
<1>2. CASE ~(Len(hist) < n + 1 \/ max = 0 \/ Earlier(hist, n) = {})
  <2> DEFINE E == Earlier(hist, n)
             i == CHOOSE k \in E : \A j \in E : j <= k
             after == i + n
             len == Lesser(Len(hist) - after, m)
             last == after + Lesser(len, max)
  <2>1. Len(hist) \in Nat /\ Len(hist) - n - 1 \in Nat /\ E # {}
      BY <1>2
  <2>2. E \in SUBSET (0 .. Len(hist) - n - 1)
      BY DEF Earlier
  <2> DEFINE N == Len(hist)
             b == N - n - 1
  <2>3. \E k \in E : \A j \in E : j <= k
    <3>1. b \in Nat /\ E \in SUBSET (0 .. b)
        BY <2>1, <2>2
    <3> HIDE DEF E, b
    <3>2. QED BY <2>1, <3>1, MaxUpTo
  <2>4. i \in E
      BY <2>3
  <2>5. NgramDraft(hist, n, m, max) = IF len < n THEN <<>> ELSE SubSeq(hist, after + 1, last)
      BY <1>2, Zenon DEF NgramDraft
  <2> HIDE DEF E, i
  <2>6. i \in 0 .. b
      BY <2>2, <2>4
  <2>7. after \in 0 .. N /\ N - after \in Nat
      BY <2>1, <2>6
  <2>8. len \in 0 .. N - after
      BY <2>7 DEF Lesser
  <2>9. last \in after .. N
      BY <2>7, <2>8 DEF Lesser
  <2> HIDE DEF after, len, last
  <2>10. after + 1 \in 1 .. N + 1 /\ last \in 0 .. N
      BY <2>1, <2>7, <2>9
  <2>11. SubSeq(hist, after + 1, last) \in Seq(Id)
      BY <2>1, <2>10
  <2>12. QED BY <2>5, <2>11
<1>3. QED BY <1>1, <1>2

LEMMA EmitStays ==
    ASSUME SamplerInv, NEW ts \in Seq(Id), EmitAll(ts), how' = how
    PROVE  SamplerInv'
<1>1. said' = said \o ts /\ recent' = Shown(ts) /\ row' = NoRow /\ copied' = <<>> /\ passed' = 0 /\ stand' = "idle"
    BY DEF EmitAll
<1>2. how \in Asks /\ said \in Seq(Id) /\ recent \in Seq(Id)
    BY DEF SamplerInv
<1>3. how.lastN \in Nat
    BY <1>2, SamplerAssumption
<1>4. said \o ts \in Seq(Id) /\ recent \o ts \in Seq(Id)
    BY <1>2
<1>5. Shown(ts) \in Seq(Id)
    BY <1>3, <1>4, LastOfIs DEF Shown
<1>6. <<>> \in Seq(Id) /\ 0 \in 0 .. Len(<<>>)
    OBVIOUS
<1>7. QED BY <1>1, <1>2, <1>4, <1>5, <1>6 DEF SamplerInv

LEMMA SamplerStays == SamplerSpec => []SamplerInv
<1>1. SamplerInit => SamplerInv
  <2> SUFFICES ASSUME SamplerInit PROVE SamplerInv
      OBVIOUS
  <2>1. how \in Asks /\ said \in Openings /\ recent = LastOf(said, how.lastN)
          /\ row = NoRow /\ copied = <<>> /\ passed = 0 /\ stand = "idle"
      BY DEF SamplerInit
  <2>2. said \in Seq(Id) /\ how.lastN \in Nat
      BY <2>1, SamplerAssumption
  <2>3. recent \in Seq(Id)
      BY <2>1, <2>2, LastOfIs
  <2>4. <<>> \in Seq(Id) /\ 0 \in 0 .. Len(<<>>)
      OBVIOUS
  <2>5. QED BY <2>1, <2>2, <2>3, <2>4 DEF SamplerInv
<1>2. SamplerInv /\ [SamplerNext]_samplerVars => SamplerInv'
  <2> SUFFICES ASSUME SamplerInv, [SamplerNext]_samplerVars PROVE SamplerInv'
      OBVIOUS
  <2>0. /\ how \in Asks /\ said \in Seq(Id) /\ recent \in Seq(Id)
        /\ row \in Rows \cup {NoRow} /\ copied \in Seq(Id) /\ passed \in 0 .. Len(copied)
        /\ Len(copied) \in Nat
      BY DEF SamplerInv
  <2>1. CASE DrawPlainly
    <3>0. PICK l \in Rows : \E x \in Drawn(Penalised(l, recent)) : EmitAll(<<x>>)
        BY <2>1 DEF DrawPlainly
    <3>1. PICK x \in Drawn(Penalised(l, recent)) : EmitAll(<<x>>)
        BY <3>0
    <3>2. IsRow(Penalised(l, recent))
        BY <2>0, RowsAreRows, PenalisedIsRow
    <3>3. x \in Id
        BY <2>0, <3>1, <3>2, DrawnIsToken
    <3>4. <<x>> \in Seq(Id)
        BY <3>3
    <3>5. how' = how
        BY <2>1 DEF DrawPlainly
    <3>6. QED BY <3>1, <3>4, <3>5, EmitStays
  <2>2. CASE BeginVerify
    <3> DEFINE max == Lesser(CopyMax, SaidMax - Len(said))
    <3>1. copied' = NgramDraft(said, NgramN, NgramM, max) /\ copied' # <<>> /\ row' \in Rows
            /\ stand' = "verify" /\ UNCHANGED <<how, said, recent, passed>> /\ stand = "idle" /\ Len(said) < SaidMax
        BY <2>2 DEF BeginVerify
    <3>2. NgramN \in Nat \ {0} /\ NgramM \in Nat /\ CopyMax \in Nat /\ SaidMax \in Nat
        BY SamplerAssumption
    <3>3. max \in Int /\ max >= 0
        BY <2>0, <3>1, <3>2 DEF Lesser
    <3> HIDE DEF max
    <3>4. copied' \in Seq(Id)
        BY <2>0, <3>1, <3>2, <3>3, DraftIsTokens
    <3>5. Len(copied') \in Nat /\ Len(copied') # 0
        BY <3>1, <3>4
    <3>6. passed = 0
        BY <3>1 DEF SamplerInv
    <3>7. QED BY <2>0, <3>1, <3>4, <3>5, <3>6 DEF SamplerInv
  <2>3. CASE AcceptCopied
    <3>1. stand = "verify" /\ passed' = passed + 1 /\ stand' = (IF passed' = Len(copied) THEN "correct" ELSE "verify")
            /\ row' \in Rows /\ UNCHANGED <<how, said, recent, copied>>
        BY <2>3 DEF AcceptCopied
    <3>2. passed < Len(copied)
        BY <3>1 DEF SamplerInv
    <3>3. passed' \in 0 .. Len(copied) /\ (stand' = "verify" => passed' < Len(copied))
        BY <2>0, <3>1, <3>2
    <3>4. QED BY <2>0, <3>1, <3>3 DEF SamplerInv
  <2>4. CASE RejectCopied
    <3>1. stand' = "correct" /\ UNCHANGED <<how, said, recent, copied, passed, row>>
        BY <2>4 DEF RejectCopied
    <3>2. QED BY <2>0, <3>1 DEF SamplerInv
  <2>5. CASE Correct
    <3>1. PICK x \in Corrections : EmitAll(Append(SubSeq(copied, 1, passed), x))
        BY <2>5 DEF Correct
    <3>2. IsRow(PlainRow)
        BY <2>0, RowsAreRows, PenalisedIsRow DEF PlainRow
    <3>3. x \in Id
      <4>1. Corrections \subseteq Drawn(PlainRow)
          BY DEF Corrections
      <4>2. QED BY <2>0, <3>1, <3>2, <4>1, DrawnIsToken
    <3>4. SubSeq(copied, 1, passed) \in Seq(Id)
        BY <2>0, FirstOnes
    <3>5. Append(SubSeq(copied, 1, passed), x) \in Seq(Id)
        BY <3>3, <3>4
    <3>6. how' = how
        BY <2>5 DEF Correct
    <3>7. QED BY <3>1, <3>5, <3>6, EmitStays
  <2>6. CASE UNCHANGED samplerVars
    <3>1. UNCHANGED <<how, said, recent, row, copied, passed, stand>>
        BY <2>6 DEF samplerVars
    <3>2. QED BY <3>1 DEF SamplerInv
  <2>7. QED BY <2>1, <2>2, <2>3, <2>4, <2>5, <2>6 DEF SamplerNext
<1>3. QED BY <1>1, <1>2, PTL DEF SamplerSpec

(***************************************************************************)
(* The nucleus that sample draws from is one of the whole row, for every   *)
(* row, table of weights, cut and share: what lies below the cut weighs no *)
(* more than its bound, so a nucleus that closes above the cut has the     *)
(* share of everything, and where none does sample_core looks at the whole *)
(* row.                                                                    *)
(***************************************************************************)
THEOREM NucleusHasTheShare == SamplerSpec => []NucleusEnough
<1>1. SamplerInv => NucleusEnough
  <2> SUFFICES ASSUME SamplerInv, how.temp \notin Warm \cup {"zero"}, how.topP < Den, how.minP = 0,
                      NEW l \in Rows \ {NoRow}
               PROVE  LET m == Penalised(l, recent)
                          c == Cum(Weights(m))
                          all == c[Among(m, FALSE)]
                          keep == Odds(m).keep
                      IN  /\ keep > 0 /\ c[keep] * Den >= how.topP * all
                          /\ c[keep - 1] * Den < how.topP * (all + BelowCut(m, TRUE))
      BY Zenon DEF NucleusEnough
  <2> DEFINE m == Penalised(l, recent)
  <2>1. how \in Asks
      BY DEF SamplerInv
  <2>2. IsRow(l)
      BY RowsAreRows
  <2>3. DOMAIN l # {}
    <3> SUFFICES ASSUME DOMAIN l = {} PROVE FALSE
        OBVIOUS
    <3>1. l \in [{} -> Int] /\ l # << >>
        BY <2>2 DEF IsRow, NoRow
    <3>2. << >> \in [{} -> Int]
        OBVIOUS
    <3>3. \A g, h \in [{} -> Int] : g = h
        OBVIOUS
    <3>4. QED BY <3>1, <3>2, <3>3
  <2>4. IsRow(m) /\ DOMAIN m # {}
      BY <2>1, <2>2, <2>3, PenalisedIsRow
  <2>5. Mild
      BY DEF Mild
  <2> HIDE DEF m
  <2>6. LET c == Cum(Weights(m))
            all == c[Among(m, FALSE)]
            keep == Odds(m).keep
        IN  /\ keep > 0 /\ c[keep] * Den >= how.topP * all
            /\ c[keep - 1] * Den < how.topP * (all + BelowCut(m, TRUE))
      BY <2>1, <2>4, <2>5, NucleusHasEnough
  <2>7. QED BY <2>6 DEF m
<1>2. QED BY <1>1, SamplerStays, PTL

(***************************************************************************)
(* A verify round accepts each token of a draft with the odds it has in    *)
(* plain decoding, but for the mass that prob_of leaves out, for all rows, *)
(* parameters and drafts OddsKept speaks of: the row is penalised alike,   *)
(* and the first parts that prob_of and sample keep are the same or, where *)
(* the nucleus does not close above the cut, differ by the bound at most.  *)
(***************************************************************************)
THEOREM OddsAreKept == SamplerSpec => []OddsKept
<1>1. SamplerInv => OddsKept
  <2> DEFINE s == SubSeq(copied, 1, passed)
             V == VerifyRow
             Q == PlainRow
  <2> SUFFICES ASSUME SamplerInv, stand = "verify", DOMAIN row # {}, how.temp \notin Warm \cup {"zero"},
                      how.penalty = 1 \/ Len(recent) + passed <= how.lastN,
                      how.topP = Den \/ Among(V, TRUE) <= CandN
               PROVE  LET p == ProbOf(V)
                          o == Odds(Q)
                      IN  \A x \in DOMAIN row :
                             \A e \in IF Place(Q, x) \in o.rest THEN {0, Left(Q, o)} ELSE {0} :
                                ~Apart(WeightIn(V, p.keep, x), p.total,
                                       WeightIn(Q, o.keep, x) + e, o.total, Uncovered(Q))
      BY Zenon DEF OddsKept
  <2>1. how \in Asks /\ recent \in Seq(Id) /\ row \in Rows /\ copied \in Seq(Id) /\ passed \in 0 .. Len(copied)
      BY DEF SamplerInv
  <2>2. s \in Seq(Id) /\ Len(s) = passed
      BY <2>1, FirstOnes
  <2>3. how.lastN \in Nat /\ IsRow(row)
      BY <2>1, SamplerAssumption, RowsAreRows
  <2>4. V = Q
    <3>1. V = Penalised(row, recent \o s) /\ Q = Penalised(row, Shown(s))
        BY DEF VerifyRow, PlainRow
    <3>2. CASE Len(recent) + passed <= how.lastN
      <4>1. recent \o s \in Seq(Id) /\ Len(recent \o s) = Len(recent) + passed
          BY <2>1, <2>2
      <4>2. Shown(s) = recent \o s
          BY <2>3, <3>2, <4>1, LastOfIs DEF Shown
      <4>3. QED BY <3>1, <4>2
    <3>3. CASE how.penalty = 1
      <4>1. \A v \in Int : v \div 1 = v /\ v * 1 = v
          OBVIOUS
      <4>2. \A v \in Int : Lessened(v) = v
          BY <3>3, <4>1 DEF Lessened
      <4>3. \A t \in DOMAIN row : row[t] \in Int
          BY <2>3 DEF IsRow
      <4>4. ASSUME NEW ts PROVE Penalised(row, ts) = [t \in DOMAIN row |-> row[t]]
          BY <4>2, <4>3 DEF Penalised
      <4>5. QED BY <3>1, <4>4
    <3>4. QED BY <3>2, <3>3
  <2>5. IsRow(Q) /\ DOMAIN Q = DOMAIN row
      BY <2>1, <2>3, PenalisedIsRow DEF PlainRow
  <2>6. Mild
      BY DEF Mild
  <2> HIDE DEF V, Q
  <2>7. DOMAIN Q # {} /\ (how.topP = Den \/ Among(Q, TRUE) <= CandN)
      BY <2>4, <2>5
  <2>8. \A x \in DOMAIN Q : SameOdds(Q, x)
      BY <2>1, <2>5, <2>6, <2>7, OddsAreSame
  <2>9. QED BY <2>4, <2>5, <2>8, Zenon DEF SameOdds
<1>2. QED BY <1>1, SamplerStays, PTL
=============================================================================
