------------------------------ MODULE KvTable ------------------------------
(***************************************************************************)
(* The block table on the device, which the attention kernels read, and    *)
(* the calls that keep it in step with the pool: kv_grow, kv_release and   *)
(* kv_release_below of w4a16_dec/upload.rs.  Each table entry is a copy to *)
(* the device of its own, and any of them may fail and end the call; what  *)
(* the pool has done by then is not taken back.  An admission that fails   *)
(* releases the slot (sched/assign.rs), a pass that fails is tried again   *)
(* or its slot is reset.                                                   *)
(*                                                                         *)
(* Rows are counted in blocks here, KvSlots counts them one by one.        *)
(***************************************************************************)
EXTENDS KvPool

VARIABLES table,        \* dblk_tab: the block an entry's address points into
          kvAssigned,   \* kv_assigned[s], in blocks
          kvFloor,      \* kv_floor[s], in blocks
          asked,        \* the highest floor a trim of s was asked for
          call          \* the call the scheduler thread is in

tableVars == <<freeVram, freeHost, slotMap, used,
               table, kvAssigned, kvFloor, asked, call>>

Extent == 0 .. MbMax
NoCall == [op |-> "none"]
Call == {NoCall} \union
    [op : {"admit", "pass"}, slot : Slot, nb : Extent] \union
    [op : {"undo"}, slot : Slot] \union
    [op : {"trim"}, slot : Slot, floor : Extent, left : SUBSET Entry]

TableInit ==
    /\ PoolInit
    /\ table = [s \in Slot |-> [e \in Entry |-> NoBlock]]
    /\ kvAssigned = [s \in Slot |-> 0]
    /\ kvFloor = [s \in Slot |-> 0]
    /\ asked = [s \in Slot |-> 0]
    /\ call = NoCall

(***************************************************************************)
(* kv_grow.  The entries it wants are those of the first nb blocks, behind *)
(* the floor in a sliding layer; a mapped one is skipped.  Called with any *)
(* extent at admission, and by a pass with one inside the reservation      *)
(* (Reserved of KvSlots); a pass that misses nothing changes nothing.      *)
(***************************************************************************)
Wanted(s, nb) == {e \in Entry :
    /\ e[2] < nb
    /\ e[1] \in Sliding => e[2] >= kvFloor[s]}

\* The loops go through the entries in an order that is fixed.
First(E) == CHOOSE e \in E : TRUE

Missing(s, nb) == {e \in Wanted(s, nb) : slotMap[s][e] = NoBlock}

Grow(s) ==
    /\ call = NoCall
    /\ \E nb \in 1 .. MbMax :
        \/ call' = [op |-> "admit", slot |-> s, nb |-> nb]
        \/ /\ nb <= kvAssigned[s] /\ Missing(s, nb) # {}
           /\ call' = [op |-> "pass", slot |-> s, nb |-> nb]
    /\ UNCHANGED <<poolVars, table, kvAssigned, kvFloor, asked>>

\* What the caller makes of an error: assign_slot gives everything back.
GrowErrKept == call' = NoCall     \* fault: the job starts all the same

GrowErr ==
    IF call.op = "admit"
    THEN call' = [op |-> "undo", slot |-> call.slot]
    ELSE call' = NoCall

GrowEntry ==
    /\ call.op \in {"admit", "pass"}
    /\ Missing(call.slot, call.nb) # {}
    /\ LET e == First(Missing(call.slot, call.nb))
       IN  /\ Ensure(call.slot, e)
           /\ \/ /\ table' = [table EXCEPT ![call.slot][e] = slotMap'[call.slot][e]]
                 /\ UNCHANGED call
              \/ GrowErr /\ UNCHANGED table
    /\ UNCHANGED <<kvAssigned, kvFloor, asked>>

GrowDry ==
    /\ call.op \in {"admit", "pass"}
    /\ Missing(call.slot, call.nb) # {}
    /\ \A b \in Block : freeVram[b] = 0 /\ freeHost[b] = 0
    /\ GrowErr
    /\ UNCHANGED <<poolVars, table, kvAssigned, kvFloor, asked>>

GrowDone ==
    /\ call.op \in {"admit", "pass"}
    /\ Missing(call.slot, call.nb) = {}
    /\ kvAssigned' = [kvAssigned EXCEPT ![call.slot] =
            IF @ < call.nb THEN call.nb ELSE @]
    /\ call' = NoCall
    /\ UNCHANGED <<poolVars, table, kvFloor, asked>>

(***************************************************************************)
(* kv_release, by reset_seq, by a reclaim or by an admission that failed.  *)
(* The table keeps the addresses.                                          *)
(***************************************************************************)
Free(s) ==
    /\ call = NoCall \/ call = [op |-> "undo", slot |-> s]
    /\ Release(s)
    /\ kvAssigned' = [kvAssigned EXCEPT ![s] = 0]
    /\ kvFloor' = [kvFloor EXCEPT ![s] = 0]
    /\ asked' = [asked EXCEPT ![s] = 0]
    /\ call' = NoCall
    /\ UNCHANGED table

(***************************************************************************)
(* kv_release_below: the pool takes the blocks back first, then the table  *)
(* entries are zeroed one by one, and last the floor is stored.  The floor *)
(* lies behind the position, which lies inside the reservation.            *)
(***************************************************************************)
Trim(s) ==
    /\ call = NoCall
    /\ \E floor \in 1 .. MbMax :
        /\ kvFloor[s] < floor /\ floor < kvAssigned[s]
        /\ ReleaseBelow(s, floor)
        /\ call' = [op |-> "trim", slot |-> s, floor |-> floor, left |-> Below(s, floor)]
        /\ asked' = [asked EXCEPT ![s] = IF @ < floor THEN floor ELSE @]
    /\ UNCHANGED <<table, kvAssigned, kvFloor>>

TrimEntry ==
    /\ call.op = "trim"
    /\ call.left # {}
    /\ \/ /\ table' = [table EXCEPT ![call.slot][First(call.left)] = NoBlock]
          /\ call' = [call EXCEPT !.left = @ \ {First(@)}]
       \/ call' = NoCall /\ UNCHANGED table
    /\ UNCHANGED <<poolVars, kvAssigned, kvFloor, asked>>

TrimDone ==
    /\ call.op = "trim"
    /\ call.left = {}
    /\ kvFloor' = [kvFloor EXCEPT ![call.slot] = call.floor]
    /\ call' = NoCall
    /\ UNCHANGED <<poolVars, table, kvAssigned, asked>>

TableNext ==
    \/ \E s \in Slot : Grow(s) \/ Free(s) \/ Trim(s)
    \/ GrowEntry \/ GrowDry \/ GrowDone
    \/ TrimEntry \/ TrimDone

TableSpec == TableInit /\ [][TableNext]_tableVars
-----------------------------------------------------------------------------
TableTypeOK ==
    /\ PoolTypeOK
    /\ table \in [Slot -> [Entry -> Block \union {NoBlock}]]
    /\ kvAssigned \in [Slot -> Extent]
    /\ kvFloor \in [Slot -> Extent]
    /\ asked \in [Slot -> Extent]
    /\ call \in Call
    /\ \A s \in Slot : kvFloor[s] <= asked[s]

\* The entries a pass of slot s reads or writes through: inside what was
\* assigned and, in a sliding layer, not below a floor that was asked for.
Live(s) == {e \in Entry :
    /\ e[2] < kvAssigned[s]
    /\ e[1] \in Sliding => e[2] >= asked[s]}

(***************************************************************************)
(* The kernels follow the table, the pool follows slot_map: an entry a     *)
(* pass goes through has a block, and the address on the device is that    *)
(* block's and no other's, whichever copies failed in earlier admissions,  *)
(* trims and retries, and whoever got the blocks meanwhile.                *)
(***************************************************************************)
TableOwned == \A s \in Slot : \A e \in Live(s) :
    slotMap[s][e] # NoBlock /\ table[s][e] = slotMap[s][e]
=============================================================================
