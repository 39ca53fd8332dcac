------------------------------- MODULE Front -------------------------------
(***************************************************************************)
(* The HTTP front: the accept loop of serve (http.rs), a thread for each   *)
(* connection with its loop over requests (handle of oai/mod.rs), and the  *)
(* two ways the answer of a request is waited for.  The engine is the      *)
(* other side of the channels: it takes jobs, sends a frame per token and  *)
(* one result, and may panic at any moment, which drops every channel end  *)
(* it holds.  What it does between is SlotSched; how tokens become text is *)
(* TextStream.                                                             *)
(***************************************************************************)
EXTENDS Integers, FiniteSets, Sequences, SequencesExt

CONSTANTS Conn,       \* connections; each may be made again
          MaxConns,   \* MAX_CONNS
          QMax,       \* capacity of the job channel
          GenMax      \* tokens of an answer: the bound of the model

ASSUME FrontAssumption ==
    /\ IsFiniteSet(Conn)
    /\ MaxConns \in Nat /\ QMax \in Nat /\ GenMax \in Nat

VARIABLES engine,    \* "up", "unwinding" or "dead" (ENGINE_DEAD is set)
          conns,     \* the counter of connections
          refusing,  \* the accept loop has counted a connection it refuses
          th,        \* the thread of each connection and its channels
          jobs,      \* the job channel
          taken      \* jobs the engine holds

frontVars == <<engine, conns, refusing, th, jobs, taken>>

(***************************************************************************)
(* What a thread knows: where it is, whether its client is still there,    *)
(* the frames it has not read, the result channel ("none": nothing in it), *)
(* the tokens generated for the request and those of them it showed, and   *)
(* whether an end token or a stop string ended the stream.                 *)
(***************************************************************************)
Reader == [at |-> "read", peer |-> TRUE, frames |-> <<>>, result |-> "none",
           made |-> 0, shown |-> 0, ended |-> FALSE]

Closed == [Reader EXCEPT !.at = "closed", !.peer = FALSE]

Threads == {c \in Conn : th[c].at # "closed"}
Waiting == {c \in Conn : th[c].at \in {"await", "stream", "tail"}}
WithEngine == Range(jobs) \union taken

Becomes(c, t) == th' = [th EXCEPT ![c] = t]
Goes(c, place) == th' = [th EXCEPT ![c].at = place]

(***************************************************************************)
(* serve: a connection is counted before it is known whether it will be    *)
(* served; ConnGuard takes it off the count when its thread ends.          *)
(***************************************************************************)
Accept(c) ==
    /\ ~refusing /\ conns < MaxConns
    /\ th[c].at = "closed" /\ c \notin WithEngine
    /\ conns' = conns + 1
    /\ Becomes(c, Reader)
    /\ UNCHANGED <<engine, refusing, jobs, taken>>

AcceptOver ==
    /\ ~refusing /\ conns >= MaxConns
    /\ conns' = conns + 1
    /\ refusing' = TRUE
    /\ UNCHANGED <<engine, th, jobs, taken>>

Refuse ==
    /\ refusing
    /\ conns' = conns - 1
    /\ refusing' = FALSE
    /\ UNCHANGED <<engine, th, jobs, taken>>

(***************************************************************************)
(* read_request: the next request of the connection, or its end: the peer  *)
(* hung up, sent what cannot be read, or nothing for two minutes.          *)
(***************************************************************************)
CloseCounted(c) ==     \* fault: the guard is not dropped
    /\ th[c].at = "read"
    /\ Becomes(c, Closed)
    /\ UNCHANGED <<engine, conns, refusing, jobs, taken>>

Close(c) ==
    /\ th[c].at = "read"
    /\ Becomes(c, Closed)
    /\ conns' = conns - 1
    /\ UNCHANGED <<engine, refusing, jobs, taken>>

(***************************************************************************)
(* A request for an answer.  enqueue_job refuses it when the engine is     *)
(* dead (503), and the thread reads on; else the job goes to the channel,  *)
(* which may be full (429) or have lost its receiver meanwhile (503).      *)
(***************************************************************************)
Request(c) ==
    /\ th[c].at = "read" /\ th[c].peer
    /\ IF engine = "dead" THEN UNCHANGED th ELSE Goes(c, "send")
    /\ UNCHANGED <<engine, conns, refusing, jobs, taken>>

EnqueueBlind(c) ==     \* fault: sends to a channel without a receiver
    /\ th[c].at = "send" /\ Len(jobs) < QMax
    /\ jobs' = Append(jobs, c)
    /\ \E how \in {"await", "stream"} : Goes(c, how)
    /\ UNCHANGED <<engine, conns, refusing, taken>>

Enqueue(c) ==
    /\ th[c].at = "send" /\ engine = "up" /\ Len(jobs) < QMax
    /\ jobs' = Append(jobs, c)
    /\ \E how \in {"await", "stream"} : Goes(c, how)
    /\ UNCHANGED <<engine, conns, refusing, taken>>

EnqueueErr(c) ==
    /\ th[c].at = "send"
    /\ engine # "up" \/ Len(jobs) >= QMax
    /\ Goes(c, "read")
    /\ UNCHANGED <<engine, conns, refusing, jobs, taken>>

\* run_and_emit returns, which drops the receivers of the job.
Return(c) == Becomes(c, [Reader EXCEPT !.peer = th[c].peer])

(***************************************************************************)
(* A request that is not streamed: recv_timeout on the result, with a look *)
(* at the peer each half second.                                           *)
(***************************************************************************)
AwaitForever(c) ==     \* fault: a result channel that closed is not noticed
    /\ th[c].at = "await"
    /\ th[c].result \in {"tokens", "error"}
    /\ Return(c)
    /\ UNCHANGED <<engine, conns, refusing, jobs, taken>>

Await(c) ==
    /\ th[c].at = "await"
    /\ th[c].result # "none"
    /\ Return(c)
    /\ UNCHANGED <<engine, conns, refusing, jobs, taken>>

\* The look at the peer, in either mode: it is gone.
GiveUp(c) ==
    /\ th[c].at \in {"await", "stream"} /\ ~th[c].peer
    /\ Return(c)
    /\ UNCHANGED <<engine, conns, refusing, jobs, taken>>

(***************************************************************************)
(* A stream: frames until the engine drops the sender, or until an end     *)
(* token or a stop string ends the loop; then the result is waited for.    *)
(* A ping only makes the thread look at the peer.                          *)
(***************************************************************************)
Frame(c) ==
    LET t == [th[c] EXCEPT !.frames = Tail(@)]
        show == [t EXCEPT !.shown = @ + 1]
    IN  /\ th[c].at = "stream" /\ th[c].frames # <<>>
        /\ IF Head(th[c].frames) = "ping" THEN Becomes(c, t)
           ELSE \/ Becomes(c, show)
                \/ Becomes(c, [show EXCEPT !.ended = TRUE, !.at = "tail"])
                \/ Becomes(c, [t EXCEPT !.ended = TRUE, !.at = "tail"])
        /\ UNCHANGED <<engine, conns, refusing, jobs, taken>>

StreamEndEarly(c) ==     \* fault: the result ends the stream, not the last frame
    /\ th[c].at = "stream" /\ th[c].result # "none"
    /\ Goes(c, "tail")
    /\ UNCHANGED <<engine, conns, refusing, jobs, taken>>

StreamEnd(c) ==
    /\ th[c].at = "stream" /\ th[c].frames = <<>> /\ c \notin WithEngine
    /\ Goes(c, "tail")
    /\ UNCHANGED <<engine, conns, refusing, jobs, taken>>

StreamDone(c) ==
    /\ th[c].at = "tail" /\ th[c].result # "none"
    /\ Return(c)
    /\ UNCHANGED <<engine, conns, refusing, jobs, taken>>

(***************************************************************************)
(* The engine: slot_intake takes a job, slot_emit sends a frame per token, *)
(* slot_prefill a ping per chunk, finish_slot the result before the job    *)
(* with both senders is dropped.  What is sent to a thread that returned   *)
(* is lost, and frames nobody reads are left out.  A panic unwinds         *)
(* slot_loop, which drops the jobs it holds and those in the channel, and  *)
(* only then is ENGINE_DEAD set.                                           *)
(***************************************************************************)
Take ==
    /\ engine = "up" /\ jobs # <<>>
    /\ taken' = taken \union {Head(jobs)}
    /\ jobs' = Tail(jobs)
    /\ UNCHANGED <<engine, conns, refusing, th>>

SendFrame(c) ==
    /\ engine = "up" /\ c \in taken /\ th[c].at = "stream"
    /\ \/ /\ th[c].made < GenMax
          /\ th' = [th EXCEPT ![c].frames = Append(@, "tok"), ![c].made = @ + 1]
       \/ /\ th[c].made = 0 /\ th[c].frames = <<>>
          /\ th' = [th EXCEPT ![c].frames = <<"ping">>]
    /\ UNCHANGED <<engine, conns, refusing, jobs, taken>>

FinishJob(c) ==
    /\ engine = "up" /\ c \in taken
    /\ taken' = taken \ {c}
    /\ \E r \in {"tokens", "error"} :
          IF c \in Waiting THEN th' = [th EXCEPT ![c].result = r] ELSE UNCHANGED th
    /\ UNCHANGED <<engine, conns, refusing, jobs>>

Panic ==
    /\ engine = "up"
    /\ engine' = "unwinding"
    /\ th' = [c \in Conn |->
            IF c \in WithEngine \intersect Waiting THEN [th[c] EXCEPT !.result = "closed"]
            ELSE th[c]]
    /\ jobs' = <<>> /\ taken' = {}
    /\ UNCHANGED <<conns, refusing>>

Unwound ==
    /\ engine = "unwinding"
    /\ engine' = "dead"
    /\ UNCHANGED <<conns, refusing, th, jobs, taken>>

PeerLeaves(c) ==
    /\ c \in Threads /\ th[c].peer
    /\ th' = [th EXCEPT ![c].peer = FALSE]
    /\ UNCHANGED <<engine, conns, refusing, jobs, taken>>

FrontInit ==
    /\ engine = "up" /\ conns = 0 /\ refusing = FALSE
    /\ th = [c \in Conn |-> Closed]
    /\ jobs = <<>> /\ taken = {}

\* A connection's thread, where it does not wait for its client.
Thread(c) ==
    \/ Enqueue(c) \/ EnqueueErr(c)
    \/ Await(c) \/ GiveUp(c)
    \/ Frame(c) \/ StreamEnd(c) \/ StreamDone(c)

FrontNext ==
    \/ AcceptOver \/ Refuse \/ Take \/ Panic \/ Unwound
    \/ \E c \in Conn :
        \/ Accept(c) \/ Close(c) \/ Request(c) \/ PeerLeaves(c)
        \/ Thread(c)
        \/ SendFrame(c) \/ FinishJob(c)

FrontSpec == FrontInit /\ [][FrontNext]_frontVars
-----------------------------------------------------------------------------
(***************************************************************************)
(* The counter of connections is the number of threads (and the one being  *)
(* refused): no path out of a connection leaves it counted, or the server  *)
(* would end up refusing everybody.                                        *)
(***************************************************************************)
ConnsCounted ==
    /\ conns = Cardinality(Threads) + (IF refusing THEN 1 ELSE 0)
    /\ Cardinality(Threads) <= MaxConns

(***************************************************************************)
(* A stream about to end well showed every token of the answer, unless an  *)
(* end token or a stop string cut it: the result overtakes no frame,       *)
(* although they come over two channels.                                   *)
(***************************************************************************)
StreamWhole == \A c \in Conn :
    th[c].at = "tail" /\ th[c].result = "tokens" /\ ~th[c].ended
        => th[c].shown = th[c].made

(***************************************************************************)
(* Nobody waits for ever: whoever's request was queued gets an answer or   *)
(* an error, also when the engine dies with the job, in any state of it.   *)
(***************************************************************************)
NobodyHangs == \A c \in Conn : c \in Waiting ~> c \notin Waiting
=============================================================================
