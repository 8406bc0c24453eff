----------------------------- MODULE VirtioDisk -----------------------------
(***************************************************************************)
(* kernel/virtio_disk.c: requests of processes, the descriptor table, the  *)
(* avail and used rings and the interrupt handler, with the device on the  *)
(* other side.  The code under vdisk_lock is one step, except in the       *)
(* interrupt handler, which the device runs alongside.                     *)
(* Process p works on a buffer of its own (its caller holds b->lock), so   *)
(* p also names the buffer.                                                *)
(***************************************************************************)
EXTENDS Naturals, FiniteSets, Sequences

CONSTANTS Proc,
          NoProc,    \* null struct buf *
          NUM,       \* descriptors; kernel/virtio.h
          UINT16     \* 2^16 in the code: the ring indices wrap here

ASSUME VirtioAssumption ==
    /\ IsFiniteSet(Proc)
    /\ NoProc \notin Proc
    /\ NUM \in Nat \ {0, 1, 2}
    /\ UINT16 \in Nat
    /\ NUM < UINT16
    /\ UINT16 % NUM = 0

Desc == 0..(NUM - 1)

VARIABLES
    free, next,          \* disk.free; desc[i].next (NUM: no NEXT flag)
    infob, status,       \* disk.info[i]: b, status (TRUE: 0xff)
    avail, availidx,     \* the avail ring
    used, usedidx,       \* the used ring
    used_idx,            \* how far the driver has looked in it
    busy,                \* b->disk
    pc, head,            \* each process: place, idx[0] (NUM: none)
    handling,            \* virtio_disk_intr() runs, with vdisk_lock
    irq,                 \* the device's interrupt is pending
    seen,                \* device: how far it has looked in avail
    inflight,            \* device: heads it works on
    served               \* processes whose transfer has happened

driver == <<free, next, infob, avail, availidx, head>>
device == <<seen, inflight, served>>
vars == <<free, next, infob, status, avail, availidx, used, usedidx, used_idx,
          busy, pc, head, handling, irq, seen, inflight, served>>

\* virtio_disk_init: all descriptors start out unused.
Init ==
    /\ free = Desc
    /\ next = [i \in Desc |-> NUM]
    /\ infob = [i \in Desc |-> NoProc]
    /\ status = [i \in Desc |-> FALSE]
    /\ avail = [i \in Desc |-> 0] /\ availidx = 0
    /\ used = [i \in Desc |-> 0] /\ usedidx = 0
    /\ used_idx = 0
    /\ busy = [p \in Proc |-> FALSE]
    /\ pc = [p \in Proc |-> "idle"]
    /\ head = [p \in Proc |-> NUM]
    /\ handling = FALSE
    /\ irq = FALSE
    /\ seen = 0 /\ inflight = {} /\ served = {}

Goto(p, l) == pc' = [pc EXCEPT ![p] = l]

\* wakeup(&disk.free[0]), then p goes on to l.
WakeAllocators(p, l) ==
    pc' = [q \in Proc |-> IF q = p THEN l
                          ELSE IF pc[q] = "alloc_asleep" THEN "alloc"
                          ELSE pc[q]]
-----------------------------------------------------------------------------
\* alloc_desc: the lowest free descriptor.
alloc_desc(S) == CHOOSE i \in S : \A j \in S : i <= j

\* alloc3_desc
First == alloc_desc(free)
Second == alloc_desc(free \ {First})
Third == alloc_desc(free \ {First, Second})

rw_call(p) ==
    /\ pc[p] = "idle"
    /\ Goto(p, "alloc")
    /\ UNCHANGED <<driver, device, status, used, usedidx, used_idx, busy,
                   handling, irq>>

RingSlotEarly == (availidx + 1) % NUM

RingSlot == availidx % NUM

\* virtio_disk_rw with three descriptors: format them, publish the chain,
\* notify the device and sleep until b->disk is cleared.
rw_submit(p) ==
    /\ pc[p] = "alloc" /\ ~handling
    /\ Cardinality(free) >= 3
    /\ free' = free \ {First, Second, Third}
    /\ next' = [next EXCEPT ![First] = Second, ![Second] = Third,
                            ![Third] = NUM]
    /\ status' = [status EXCEPT ![First] = TRUE]
    /\ busy' = [busy EXCEPT ![p] = TRUE]
    /\ infob' = [infob EXCEPT ![First] = p]
    /\ avail' = [avail EXCEPT ![RingSlot] = First]
    /\ availidx' = (availidx + 1) % UINT16
    /\ head' = [head EXCEPT ![p] = First]
    /\ Goto(p, "asleep")
    /\ UNCHANGED <<device, used, usedidx, used_idx, handling, irq>>

\* Too few: alloc3_desc gives back what it took, and free_desc wakes the
\* others that wait for descriptors.
rw_nodesc(p) ==
    /\ pc[p] = "alloc" /\ ~handling
    /\ Cardinality(free) < 3
    /\ IF free = {} THEN Goto(p, "alloc_asleep")
       ELSE WakeAllocators(p, "alloc_asleep")
    /\ UNCHANGED <<driver, device, status, used, usedidx, used_idx, busy,
                   handling, irq>>

\* kill() makes a sleeper RUNNABLE before its condition holds.
kill(p) ==
    /\ pc[p] \in {"asleep", "alloc_asleep"}
    /\ Goto(p, IF pc[p] = "asleep" THEN "woken" ELSE "alloc")
    /\ UNCHANGED <<driver, device, status, used, usedidx, used_idx, busy,
                   handling, irq>>

Awake(p) == TRUE

\* while(b->disk == 1) is over.
DiskDone(p) == ~busy[p]

rw_again(p) ==
    /\ pc[p] = "woken" /\ ~handling
    /\ ~DiskDone(p)
    /\ Goto(p, "asleep")
    /\ UNCHANGED <<driver, device, status, used, usedidx, used_idx, busy,
                   handling, irq>>

HeadOnly(i) == {i}

\* free_chain: the descriptors reached through next.
Chain(i) ==
    {i} \cup ({next[i]} \ {NUM})
        \cup (IF next[i] = NUM THEN {} ELSE {next[next[i]]} \ {NUM})

ChainWakesNone(p, l) == Goto(p, l)

ChainWakes(p, l) == WakeAllocators(p, l)

rw_finish(p) ==
    /\ pc[p] = "woken" /\ ~handling
    /\ DiskDone(p)
    /\ infob' = [infob EXCEPT ![head[p]] = NoProc]
    /\ free' = free \cup Chain(head[p])
    /\ next' = [i \in Desc |-> IF i \in Chain(head[p]) THEN NUM ELSE next[i]]
    /\ head' = [head EXCEPT ![p] = NUM]
    /\ served' = served \ {p}
    /\ ChainWakes(p, "idle")
    /\ UNCHANGED <<status, avail, availidx, used, usedidx, used_idx, busy,
                   handling, irq, seen, inflight>>
-----------------------------------------------------------------------------
\* The device takes the next chain of the avail ring ...
device_fetch ==
    /\ seen # availidx
    /\ inflight' = inflight \cup {avail[seen % NUM]}
    /\ seen' = (seen + 1) % UINT16
    /\ UNCHANGED <<driver, status, used, usedidx, used_idx, busy, pc,
                   handling, irq, served>>

\* ... and finishes requests in any order: the transfer, the status byte, the
\* used ring entry, the interrupt.
device_complete(i) ==
    /\ i \in inflight
    /\ inflight' = inflight \ {i}
    /\ served' = served \cup {infob[i]}
    /\ status' = [status EXCEPT ![i] = FALSE]
    /\ used' = [used EXCEPT ![usedidx % NUM] = i]
    /\ usedidx' = (usedidx + 1) % UINT16
    /\ irq' = TRUE
    /\ UNCHANGED <<driver, used_idx, busy, pc, handling, seen>>
-----------------------------------------------------------------------------
\* virtio_disk_intr: acknowledge first ...
intr ==
    /\ irq /\ ~handling
    /\ irq' = FALSE
    /\ handling' = TRUE
    /\ UNCHANGED <<driver, device, status, used, usedidx, used_idx, busy, pc>>

Completed == used[used_idx % NUM]

Finished == infob[Completed]

\* ... then one round of the loop: b->disk = 0, wakeup(b) ...
intr_entry ==
    /\ handling
    /\ used_idx # usedidx
    /\ busy' = [busy EXCEPT ![Finished] = FALSE]
    /\ pc' = IF pc[Finished] = "asleep" THEN [pc EXCEPT ![Finished] = "woken"]
             ELSE pc
    /\ used_idx' = (used_idx + 1) % UINT16
    /\ UNCHANGED <<driver, device, status, used, usedidx, handling, irq>>

OneRound == TRUE

UsedSeen == used_idx = usedidx

\* ... until the used ring has nothing new.
intr_done ==
    /\ handling
    /\ UsedSeen
    /\ handling' = FALSE
    /\ UNCHANGED <<driver, device, status, used, usedidx, used_idx, busy, pc,
                   irq>>
-----------------------------------------------------------------------------
Kernel(p) == rw_submit(p) \/ rw_nodesc(p) \/ rw_again(p) \/ rw_finish(p)

Device == device_fetch \/ \E i \in Desc : device_complete(i)

Handler == intr \/ intr_entry \/ intr_done

Next ==
    \/ \E p \in Proc : rw_call(p) \/ Kernel(p) \/ kill(p)
    \/ Device \/ Handler

Spec == Init /\ [][Next]_vars

\* The device works through its requests, its interrupt is taken, and a process
\* that is RUNNABLE runs while vdisk_lock stays free.  Nothing is assumed about
\* who gets the descriptors: alloc3_desc() has no queue, and a process that has
\* just finished may take them again before the one it woke runs.
FairSpec ==
    /\ Spec
    /\ WF_vars(device_fetch) /\ \A i \in Desc : WF_vars(device_complete(i))
    /\ WF_vars(Handler)
    /\ \A p \in Proc : WF_vars(Kernel(p))
-----------------------------------------------------------------------------
TypeOK ==
    /\ free \subseteq Desc
    /\ next \in [Desc -> 0..NUM]
    /\ infob \in [Desc -> Proc \cup {NoProc}]
    /\ status \in [Desc -> BOOLEAN]
    /\ avail \in [Desc -> Desc] /\ used \in [Desc -> Desc]
    /\ availidx \in 0..(UINT16 - 1) /\ usedidx \in 0..(UINT16 - 1)
    /\ used_idx \in 0..(UINT16 - 1) /\ seen \in 0..(UINT16 - 1)
    /\ busy \in [Proc -> BOOLEAN]
    /\ pc \in [Proc -> {"idle", "alloc", "alloc_asleep", "asleep", "woken"}]
    /\ head \in [Proc -> 0..NUM]
    /\ handling \in BOOLEAN /\ irq \in BOOLEAN
    /\ inflight \subseteq Desc
    /\ served \subseteq Proc

Waiting(p) == pc[p] \in {"asleep", "woken"}

\* Descriptors are neither leaked nor shared: a descriptor is free or in the
\* chain of exactly one request.  Hence free_desc never finds its descriptor
\* free already (panic "free_desc 2").
DescOwned ==
    \A i \in Desc :
        LET owners == {p \in Proc : Waiting(p) /\ i \in Chain(head[p])}
        IN  IF i \in free THEN owners = {} ELSE Cardinality(owners) = 1

\* virtio_disk_rw does not return before the device has done its transfer,
\* however often the sleeper is woken and however completions are ordered.
NoEarlyReturn ==
    [][\A p \in Proc : Waiting(p) /\ pc'[p] = "idle" => p \in served]_vars

\* What the handler reads is a finished request: status 0 (its panic) and a
\* buffer to wake.
HandlerSafe ==
    handling /\ used_idx # usedidx =>
        ~status[Completed] /\ infob[Completed] \in Proc

\* No completion is forgotten: with the handler out, either the used ring
\* has been seen to its end or an interrupt is pending.
NoLostInterrupt == ~handling => irq \/ used_idx = usedidx

\* Nobody sleeps for descriptors while there are enough for a request.
AllocatorsMustWait ==
    \A p \in Proc : pc[p] = "alloc_asleep" => Cardinality(free) < 3

\* Every request that was submitted is done at last: b->disk is cleared and the
\* process is RUNNABLE, so that it returns when it next gets vdisk_lock.  And
\* the disk does not come to a halt while calls wait for descriptors, asleep or
\* waking each other round and round in alloc3_desc(): either all calls return,
\* or calls return again and again.
RequestDone ==
    /\ \A p \in Proc : pc[p] = "asleep" ~> pc[p] = "woken" /\ ~busy[p]
    /\ \/ []<>(\A p \in Proc : pc[p] = "idle")
       \/ []<><<\E p \in Proc : rw_finish(p)>>_vars
=============================================================================
