------------------------------ MODULE SlotSched ------------------------------
(***************************************************************************)
(* The scheduler thread of the server: slot_loop and slot_intake           *)
(* (sched.rs), the admission order and the freeze of admit.rs, assign_slot *)
(* (sched/assign.rs), slot_decode, slot_prefill and finish_slot, with the  *)
(* connection threads that send it jobs over a bounded channel.            *)
(*                                                                         *)
(* A client has at most one request open, so a client names its request.   *)
(* A prompt is the number of chunks it is read in, an output the number of *)
(* tokens asked for, and the KV cache the number of blocks a slot holds:   *)
(* KvSlots shows that an admitted job never needs more than it reserved,   *)
(* and that an idle slot holds blocks exactly when it has a conversation   *)
(* cached.                                                                 *)
(***************************************************************************)
EXTENDS Integers, FiniteSets, Sequences, SequencesExt, FiniteSetsExt

CONSTANTS Client,
          Slot,           \* slots, numbered
          TotalBlocks,    \* blocks of the pool
          NeedOf,         \* blocks a client's request reserves
          ChunksOf,       \* chunks of its prompt
          TokensOf,       \* tokens it asks for
          QCap,           \* bound of the channel
          Thresholds,     \* what D may be, in tokens: d_s times tps
          ErrMax          \* failures in a row that fail a job (3)

NoClient == "none"

ASSUME SchedAssumption ==
    /\ IsFiniteSet(Client) /\ NoClient \notin Client
    /\ IsFiniteSet(Slot) /\ Slot \subseteq Nat /\ Slot # {}
    /\ TotalBlocks \in Nat /\ QCap \in Nat
    /\ NeedOf \in [Client -> Nat \ {0}]
    /\ ChunksOf \in [Client -> Nat \ {0}]
    /\ TokensOf \in [Client -> Nat \ {0}]
    /\ Thresholds \subseteq Nat /\ Thresholds # {}
    /\ ErrMax \in Nat \ {0}

VARIABLES open,       \* clients whose request is not answered yet
          gone,       \* those of them that hung up
          queue,      \* the channel
          pending,    \* jobs taken from it that did not fit
          serves,     \* the job of each slot, or NoClient
          held,       \* blocks of each slot
          toRead,     \* chunks of the prompt left
          toGen,      \* tokens left
          errs,       \* err_count
          freeze,     \* aging's decision in this turn of the loop
          measured,   \* tps > 0: something was decoded once
          worked,     \* decoded or did_pf in this turn
          phase       \* where the loop stands

schedVars == <<open, gone, queue, pending, serves, held, toRead, toGen, errs,
               freeze, measured, worked, phase>>
work == <<toRead, toGen, errs>>

Idle == {s \in Slot : serves[s] = NoClient}
Reading == {s \in Slot \ Idle : toRead[s] > 0}
Active == {s \in Slot \ Idle : toRead[s] = 0}
Cached == {s \in Idle : held[s] > 0}

\* The blocks that slots S hold, numbered in each.
BlocksIn(S) == Cardinality({x \in S \X (1 .. TotalBlocks) : x[2] <= held[x[1]]})
Free == TotalBlocks - BlocksIn(Slot)

Fits(c) == NeedOf[c] <= Free
TooLarge(c) == NeedOf[c] > TotalBlocks

Answer(C) == open' = open \ C /\ gone' = gone \ C

(***************************************************************************)
(* predict_start_delay and decide: the head is frozen for when it would    *)
(* have to wait for more than d tokens until enough of the running jobs    *)
(* have ended; blocks of idle slots count as free.  Nothing is frozen      *)
(* before tps is known.                                                    *)
(***************************************************************************)
Remaining(s) == toRead[s] + toGen[s]

StartsWithin(c, d) ==
    NeedOf[c] <= Free + BlocksIn(Idle)
                      + BlocksIn({s \in Slot \ Idle : Remaining(s) <= d})

Decide ==
    /\ phase = "decide"
    /\ \E d \in Thresholds :
          freeze' = (pending # <<>> /\ measured /\ ~StartsWithin(Head(pending), d))
    /\ phase' = "take"
    /\ UNCHANGED <<open, gone, queue, pending, serves, held, work, measured, worked>>

(***************************************************************************)
(* assign_slot: a slot whose conversation shares a prefix with the prompt, *)
(* else the first idle one.  What is reused is kept and not read again;    *)
(* otherwise the slot is reset.  kv_grow fails for want of blocks, or when *)
(* the block table cannot be copied to the device.  (An empty prompt,      *)
(* which it would answer at once, is refused before it is queued.)         *)
(***************************************************************************)
FailSilently(ok, c) == UNCHANGED <<open, gone>>     \* fault: no answer is sent

AnswerUnless(ok, c) == IF ok THEN UNCHANGED <<open, gone>> ELSE Answer({c})

Assign(c) ==
    \E s \in Cached \union {Min(Idle)} : \E keep \in {0, held[s]} : \E copied \in BOOLEAN :
      LET ok == copied /\ NeedOf[c] <= Free + held[s]
      IN  \E n \in IF keep = 0 THEN {ChunksOf[c]} ELSE 1 .. ChunksOf[c] :
          /\ serves' = [serves EXCEPT ![s] = IF ok THEN c ELSE NoClient]
          /\ held' = [held EXCEPT ![s] = IF ok THEN Max({keep, NeedOf[c]}) ELSE 0]
          /\ toRead' = [toRead EXCEPT ![s] = IF ok THEN n ELSE 0]
          /\ toGen' = [toGen EXCEPT ![s] = IF ok THEN TokensOf[c] ELSE 0]
          /\ UNCHANGED errs
          /\ AnswerUnless(ok, c)

\* reclaim_idle on slot s.
Reclaim(s) == held' = [held EXCEPT ![s] = 0]

(***************************************************************************)
(* The first loop of slot_intake, one turn of it a step: binpack_order     *)
(* picks the first pending job that fits, under a freeze only the head.    *)
(* With nothing to pick, jobs larger than the pool are refused, all that   *)
(* there are before the next look, then the cached conversations are       *)
(* reclaimed one by one.                                                   *)
(***************************************************************************)
Picks == {i \in DOMAIN pending : Fits(pending[i]) /\ (freeze => i = 1)}

Refused == {i \in DOMAIN pending : TooLarge(pending[i])}

TakePickKept ==     \* fault: the job stays in the pending list
    /\ phase = "take" /\ Idle # {} /\ Picks # {}
    /\ Assign(pending[Min(Picks)])
    /\ UNCHANGED <<queue, pending, freeze, measured, worked, phase>>

TakePick ==
    /\ phase = "take" /\ Idle # {} /\ Picks # {}
    /\ Assign(pending[Min(Picks)])
    /\ pending' = RemoveAt(pending, Min(Picks))
    /\ UNCHANGED <<queue, freeze, measured, worked, phase>>

TakeRefuse ==
    /\ \/ phase = "take" /\ Idle # {} /\ Picks = {}
       \/ phase = "refuse"
    /\ Refused # {}
    /\ Answer({pending[Min(Refused)]})
    /\ pending' = RemoveAt(pending, Min(Refused))
    /\ phase' = IF Refused = {Min(Refused)} THEN "take" ELSE "refuse"
    /\ UNCHANGED <<queue, serves, held, work, freeze, measured, worked>>

VictimsUnderPressure == IF pending = <<>> THEN {} ELSE Cached     \* fault

Victims == Cached

TakeReclaim ==
    /\ phase = "take" /\ Picks = {} /\ Refused = {}
    /\ \E s \in Victims : Reclaim(s)
    /\ UNCHANGED <<open, gone, queue, pending, serves, work, freeze, measured, worked, phase>>

TakeEnd ==
    /\ phase = "take"
    /\ Idle = {} \/ (Picks = {} /\ Refused = {} /\ Victims = {})
    /\ phase' = "recv"
    /\ UNCHANGED <<open, gone, queue, pending, serves, held, work, freeze, measured, worked>>

(***************************************************************************)
(* The second loop: what is in the channel enters a slot if it fits and    *)
(* nothing is frozen, and waits otherwise.                                 *)
(***************************************************************************)
RecvAssign ==
    /\ phase = "recv" /\ Idle # {} /\ queue # <<>> /\ ~freeze
    /\ Fits(Head(queue))
    /\ Assign(Head(queue))
    /\ queue' = Tail(queue)
    /\ UNCHANGED <<pending, freeze, measured, worked, phase>>

RecvRefuse ==
    /\ phase = "recv" /\ Idle # {} /\ queue # <<>> /\ ~freeze
    /\ TooLarge(Head(queue))
    /\ Answer({Head(queue)})
    /\ queue' = Tail(queue)
    /\ UNCHANGED <<pending, serves, held, work, freeze, measured, worked, phase>>

RecvWait ==
    /\ phase = "recv" /\ Idle # {} /\ queue # <<>>
    /\ freeze \/ ~(Fits(Head(queue)) \/ TooLarge(Head(queue)))
    /\ IF freeze \/ Cached = {} THEN UNCHANGED held ELSE \E s \in Cached : Reclaim(s)
    /\ pending' = Append(pending, Head(queue))
    /\ queue' = Tail(queue)
    /\ UNCHANGED <<open, gone, serves, work, freeze, measured, worked, phase>>

RecvEnd ==
    /\ phase = "recv"
    /\ Idle = {} \/ queue = <<>>
    /\ phase' = "decode"
    /\ UNCHANGED <<open, gone, queue, pending, serves, held, work, freeze, measured, worked>>

(***************************************************************************)
(* finish_slot.  An ended job is answered and the blocks stay with the     *)
(* conversation; a failed one is answered with the error and the slot is   *)
(* reset.  (The branch for a prompt beyond the context is left out: the    *)
(* jobs of KvSlots!Jobs end below it.)  For the slots in S, at[s] is what  *)
(* is left to generate, or Failed.                                         *)
(***************************************************************************)
Failed == -1

Finish(S, at) ==
    LET dead == {s \in S : at[s] = Failed /\ errs[s] + 1 >= ErrMax}
        over == {s \in S : at[s] = 0}
    IN  /\ Answer({serves[s] : s \in dead \union over})
        /\ serves' = [s \in Slot |-> IF s \in dead \union over THEN NoClient ELSE serves[s]]
        /\ held' = [s \in Slot |-> IF s \in dead THEN 0 ELSE held[s]]

\* A token resets err_count, a failure counts; both are gone with the job.
CountedAcrossJobs(S, at) ==     \* fault: Slot::free keeps err_count
    errs' = [s \in Slot |->
        IF s \notin S THEN errs[s] ELSE IF at[s] = Failed THEN errs[s] + 1 ELSE 0]

Counted(S, at) ==
    errs' = [s \in Slot |->
        IF s \notin S THEN errs[s]
        ELSE IF at[s] = Failed /\ errs[s] + 1 < ErrMax THEN errs[s] + 1 ELSE 0]

(***************************************************************************)
(* slot_decode: every slot whose prompt is read decodes one token or, by   *)
(* k steps or a verify round, several; eos, a stop token or a client that  *)
(* hung up ends it early.                                                  *)
(***************************************************************************)
Decode ==
    /\ phase = "decode"
    /\ \E at \in [Active -> {Failed} \union UNION {0 .. toGen[s] - 1 : s \in Active}] :
          /\ \A s \in Active : at[s] < toGen[s]
          /\ \A s \in Active : serves[s] \in gone => at[s] \in {Failed, 0}
          /\ Finish(Active, at)
          /\ Counted(Active, at)
          /\ toGen' = [s \in Slot |->
                IF s \notin Active THEN toGen[s]
                ELSE IF serves'[s] = NoClient THEN 0
                ELSE IF at[s] = Failed THEN toGen[s] ELSE at[s]]
    /\ worked' = (Active # {})
    /\ measured' = (measured \/ Active # {})
    /\ phase' = "prefill"
    /\ UNCHANGED <<queue, pending, toRead, freeze>>

(***************************************************************************)
(* slot_prefill: one chunk of one prompt, or of several in a burst; which  *)
(* prompt goes first (it fits the cap, it waited longest) is left open.    *)
(* The last chunk gives the first token.  If the client hung up, the job   *)
(* is answered empty, the slot reset and the turn's prefill ends.          *)
(***************************************************************************)
Prefill ==
    /\ phase = "prefill"
    /\ \E s \in Reading :
        /\ serves[s] \notin gone
        /\ \E left \in {toRead[s] - 1, toRead[s]} :
           \E n \in IF left = 0 THEN 0 .. toGen[s] - 1 ELSE {toGen[s]} :
              LET failed == left = toRead[s]
                  at == [t \in {s} |-> IF failed THEN Failed ELSE n]
              IN  /\ Finish({s}, at)
                  /\ IF failed \/ left = 0 THEN Counted({s}, at) ELSE UNCHANGED errs
                  /\ toRead' = [toRead EXCEPT ![s] = IF serves'[s] = NoClient THEN 0 ELSE left]
                  /\ toGen' = [toGen EXCEPT ![s] = IF serves'[s] = NoClient THEN 0 ELSE n]
    /\ phase' \in IF Cardinality(Reading) > 1 THEN {"prefill", "tail"} ELSE {"tail"}
    /\ worked' = TRUE
    /\ UNCHANGED <<queue, pending, freeze, measured>>

AfterPrefill == IF worked THEN "tail" ELSE "decide"

PrefillHungUp ==
    /\ phase = "prefill"
    /\ \E s \in Reading :
        /\ serves[s] \in gone
        /\ Answer({serves[s]})
        /\ serves' = [serves EXCEPT ![s] = NoClient]
        /\ held' = [held EXCEPT ![s] = 0]
        /\ toRead' = [toRead EXCEPT ![s] = 0]
        /\ toGen' = [toGen EXCEPT ![s] = 0]
        /\ errs' = [errs EXCEPT ![s] = 0]
    /\ phase' = AfterPrefill
    /\ UNCHANGED <<queue, pending, freeze, measured, worked>>

PrefillNone ==
    /\ phase = "prefill" /\ Reading = {}
    /\ phase' = AfterPrefill
    /\ UNCHANGED <<open, gone, queue, pending, serves, held, work, freeze, measured, worked>>

(***************************************************************************)
(* The end of the turn: with no job in any slot and none pending the loop  *)
(* blocks on the channel.  A job received there is served once enough      *)
(* conversations were reclaimed.                                           *)
(***************************************************************************)
TurnWithoutPending ==     \* fault: blocks although jobs are pending
    /\ phase = "tail"
    /\ phase' = IF Idle = Slot THEN "wait" ELSE "decide"
    /\ UNCHANGED <<open, gone, queue, pending, serves, held, work, freeze, measured, worked>>

Turn ==
    /\ phase = "tail"
    /\ phase' = IF Idle = Slot /\ pending = <<>> THEN "wait" ELSE "decide"
    /\ UNCHANGED <<open, gone, queue, pending, serves, held, work, freeze, measured, worked>>

WokenReclaim ==
    /\ phase = "wait" /\ queue # <<>>
    /\ ~Fits(Head(queue)) /\ ~TooLarge(Head(queue))
    /\ \E s \in Cached : Reclaim(s)
    /\ UNCHANGED <<open, gone, queue, pending, serves, work, freeze, measured, worked, phase>>

Woken ==
    /\ phase = "wait" /\ queue # <<>>
    /\ IF Fits(Head(queue)) THEN Assign(Head(queue))
       ELSE /\ TooLarge(Head(queue)) \/ Cached = {}
            /\ Answer({Head(queue)})
            /\ UNCHANGED <<serves, held, work>>
    /\ queue' = Tail(queue)
    /\ phase' = "decide"
    /\ UNCHANGED <<pending, freeze, measured, worked>>

(***************************************************************************)
(* The connection threads: enqueue_job, refused while the channel is full, *)
(* and a client that hangs up before its answer.                           *)
(***************************************************************************)
Send(c) ==
    /\ c \notin open
    /\ Len(queue) < QCap
    /\ queue' = Append(queue, c)
    /\ open' = open \union {c}
    /\ UNCHANGED <<gone, pending, serves, held, work, freeze, measured, worked, phase>>

HangUp(c) ==
    /\ c \in open \ gone
    /\ gone' = gone \union {c}
    /\ UNCHANGED <<open, queue, pending, serves, held, work, freeze, measured, worked, phase>>

SchedInit ==
    /\ open = {} /\ gone = {}
    /\ queue = <<>> /\ pending = <<>>
    /\ serves = [s \in Slot |-> NoClient]
    /\ held = [s \in Slot |-> 0]
    /\ toRead = [s \in Slot |-> 0]
    /\ toGen = [s \in Slot |-> 0]
    /\ errs = [s \in Slot |-> 0]
    /\ freeze = FALSE /\ measured = FALSE /\ worked = FALSE
    /\ phase = "decide"

Scheduler ==
    \/ Decide
    \/ TakePick \/ TakeRefuse \/ TakeReclaim \/ TakeEnd
    \/ RecvAssign \/ RecvRefuse \/ RecvWait \/ RecvEnd
    \/ Decode
    \/ Prefill \/ PrefillHungUp \/ PrefillNone
    \/ Turn \/ WokenReclaim \/ Woken

SchedNext ==
    \/ Scheduler
    \/ \E c \in Client : Send(c) \/ HangUp(c)

(***************************************************************************)
(* The loop is one thread that never stops but in "wait"; nothing is       *)
(* assumed of the clients.                                                 *)
(***************************************************************************)
SchedSpec == SchedInit /\ [][SchedNext]_schedVars /\ WF_schedVars(Scheduler)
-----------------------------------------------------------------------------
SchedTypeOK ==
    /\ open \subseteq Client /\ gone \subseteq open
    /\ queue \in Seq(Client) /\ Len(queue) <= QCap
    /\ pending \in Seq(Client)
    /\ serves \in [Slot -> Client \union {NoClient}]
    /\ held \in [Slot -> 0 .. TotalBlocks]
    /\ toRead \in [Slot -> Nat] /\ toGen \in [Slot -> Nat]
    /\ errs \in [Slot -> 0 .. ErrMax - 1]
    /\ freeze \in BOOLEAN /\ measured \in BOOLEAN /\ worked \in BOOLEAN
    /\ phase \in {"decide", "take", "refuse", "recv", "decode", "prefill", "tail", "wait"}

(***************************************************************************)
(* A request is answered once: until then its job is in exactly one place, *)
(* the channel, the pending list or a slot, and afterwards in none.  None  *)
(* is dropped by a slot that fails, is reclaimed or loses its client, and  *)
(* none is served twice.                                                   *)
(***************************************************************************)
Places(c) ==
    {<<"queue", i>> : i \in {i \in DOMAIN queue : queue[i] = c}}
    \union {<<"pending", i>> : i \in {i \in DOMAIN pending : pending[i] = c}}
    \union {<<"slot", s>> : s \in {s \in Slot : serves[s] = c}}

AnsweredOnce == \A c \in Client :
    Cardinality(Places(c)) = IF c \in open THEN 1 ELSE 0

(***************************************************************************)
(* No overtaking: when a job enters a slot, no job that had been put back  *)
(* before it would have fitted, and under a freeze it is the head itself,  *)
(* although the free blocks are recounted as slots are reset, reclaimed    *)
(* and filled between the look at the pending list and the channel.        *)
(***************************************************************************)
Enters(c) == \E s \in Slot : serves[s] # c /\ serves'[s] = c

Ahead(c) == {i \in DOMAIN pending : \A j \in 1 .. i : pending[j] # c}

Overtaken(c) == Enters(c) /\ \E i \in Ahead(c) : freeze \/ Fits(pending[i])

NoOvertaking == [][\A c \in Client : ~Overtaken(c)]_schedVars

(***************************************************************************)
(* Once the clients stop sending, every open request is answered, through  *)
(* freezes, failures, lost clients and a full pool.                        *)
(***************************************************************************)
Drained ==
    <>[][\A c \in Client : c \in open' => c \in open]_schedVars
        => \A c \in Client : c \in open ~> c \notin open

(***************************************************************************)
(* The scheduler keeps the server's promise: a request once served is not  *)
(* put back by a failure, a freeze or a reclaim, it is served in one slot, *)
(* and there are never more of them than slots.                            *)
(***************************************************************************)
Server == INSTANCE RequestServer WITH
    Lanes <- Cardinality(Slot),
    waiting <- Range(queue) \union Range(pending),
    served <- {serves[s] : s \in Slot \ Idle}

ServesOnce == Server!ServerSpec
=============================================================================
