----------------------------- MODULE PinnedRing -----------------------------
(***************************************************************************)
(* The upload of weights through two pinned buffers (PinnedRing in mem.rs  *)
(* of w4a16_dec, used by the *_streamed uploads): a chunk is read from the *)
(* file into one buffer while the copy engine still reads the other one.   *)
(* The copies are in the order of the stream, so they are counted.         *)
(***************************************************************************)
EXTENDS Integers

CONSTANT Chunks     \* chunks of all the tensors of the upload

ASSUME RingAssumption == Chunks \in Nat

VARIABLES upload,    \* "run", "ok" or "err"
          sent,      \* seq: chunks whose copy was issued
          stage,     \* of the next chunk: "unread", or "filled" in its buffer
          buffer,    \* the chunk each buffer holds
          recorded,  \* the chunk the event of each buffer was recorded behind
          copied,    \* chunks the device has copied
          dest       \* what arrived at the place of each chunk

ringVars == <<upload, sent, stage, buffer, recorded, copied, dest>>

Side(i) == i % 2
Following == sent + 1

(***************************************************************************)
(* send: the buffer is free when the copy its event was recorded behind    *)
(* has ended; then it is filled, copied and its event recorded.  Reading   *)
(* the file may fail, and so may the driver: the upload is given up, and   *)
(* freeing the memory waits for the copies under way.                      *)
(***************************************************************************)
EventDone(b) == recorded[b] <= copied

FillLate ==     \* fault: waits from the fourth chunk on only
    /\ upload = "run" /\ stage = "unread" /\ sent < Chunks
    /\ sent > 2 => EventDone(Side(Following))
    /\ buffer' = [buffer EXCEPT ![Side(Following)] = Following]
    /\ stage' = "filled"
    /\ UNCHANGED <<upload, sent, recorded, copied, dest>>

Fill ==
    /\ upload = "run" /\ stage = "unread" /\ sent < Chunks
    /\ sent >= 2 => EventDone(Side(Following))
    /\ buffer' = [buffer EXCEPT ![Side(Following)] = Following]
    /\ stage' = "filled"
    /\ UNCHANGED <<upload, sent, recorded, copied, dest>>

Issue ==
    /\ upload = "run" /\ stage = "filled"
    /\ sent' = Following
    /\ recorded' = [recorded EXCEPT ![Side(Following)] = Following]
    /\ stage' = "unread"
    /\ UNCHANGED <<upload, buffer, copied, dest>>

GiveUpUpload ==
    /\ upload = "run"
    /\ upload' = "err"
    /\ UNCHANGED <<sent, stage, buffer, recorded, copied, dest>>

\* The device: what is in the buffer now arrives.
Arrive ==
    /\ copied < sent
    /\ copied' = copied + 1
    /\ dest' = [dest EXCEPT ![copied + 1] = buffer[Side(copied + 1)]]
    /\ UNCHANGED <<upload, sent, stage, buffer, recorded>>

\* sync; the caller registers the weights then.
Synced ==
    /\ upload = "run" /\ sent = Chunks /\ copied = sent
    /\ upload' = "ok"
    /\ UNCHANGED <<sent, stage, buffer, recorded, copied, dest>>

NoChunk == [b \in {0, 1} |-> 0]
NothingThere == [i \in 1 .. Chunks |-> 0]

RingInit ==
    /\ upload = "run" /\ sent = 0 /\ stage = "unread" /\ copied = 0
    /\ buffer = NoChunk /\ recorded = NoChunk /\ dest = NothingThere

Upload ==     \* the next upload, with a ring of its own
    /\ upload \in {"ok", "err"}
    /\ upload' = "run" /\ sent' = 0 /\ stage' = "unread" /\ copied' = 0
    /\ buffer' = NoChunk /\ recorded' = NoChunk /\ dest' = NothingThere

RingNext == Fill \/ Issue \/ GiveUpUpload \/ Arrive \/ Synced \/ Upload

RingSpec == RingInit /\ [][RingNext]_ringVars
-----------------------------------------------------------------------------
(***************************************************************************)
(* Weights are registered only when each chunk arrived as it was read: no  *)
(* buffer was filled again while the device was reading it.                *)
(***************************************************************************)
UploadExact == upload = "ok" => \A i \in 1 .. Chunks : dest[i] = i
=============================================================================
