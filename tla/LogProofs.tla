----------------------------- MODULE LogProofs -----------------------------
(***************************************************************************)
(* Proofs about Log for every set of processes, blocks and contents and    *)
(* every size of the log: its invariants, that it implements AtomicStore   *)
(* whatever step of commit or of recovery a crash interrupts, that the     *)
(* reservation of begin_op guarantees space, and that no process sleeps in *)
(* begin_op without a reason.                                              *)
(***************************************************************************)
EXTENDS Log, FiniteSetTheorems, TLAPS

Inv == TypeOK /\ CommitQuiescent /\ PinsMatchLog /\ StageInv

\* Types are kept: install_trans never drops a pin that log_write did not
\* take, and the loops of commit and recovery stay inside the header.
LEMMA TypeStep == Inv /\ [Next]_vars => TypeOK'
<1> SUFFICES ASSUME Inv, [Next]_vars PROVE TypeOK'
    OBVIOUS
<1>0. TypeOK
  BY DEF Inv
<1> USE DEF TypeOK, CommitPc
<1>1. ASSUME NEW p \in Proc, begin_op(p) PROVE TypeOK'
  BY <1>0, <1>1 DEF begin_op, disk
<1>2. ASSUME NEW p \in Proc, begin_op_sleep(p) PROVE TypeOK'
  BY <1>0, <1>2 DEF begin_op_sleep, disk
<1>3. ASSUME NEW p \in Proc, end_op(p) PROVE TypeOK'
  BY <1>0, <1>3 DEF end_op, EndWakeup, wakeup, disk
<1>4. ASSUME NEW p \in Proc, end_op_commit(p) PROVE TypeOK'
  BY <1>0, <1>4 DEF end_op_commit, disk
<1>5. ASSUME NEW p \in Proc, commit_done(p) PROVE TypeOK'
  BY Zenon, <1>0, <1>5 DEF commit_done, EndWakeup, wakeup, disk
<1>6. ASSUME NEW p \in Proc, write_log(p) PROVE TypeOK'
  <2>1. tail + 1 \in DOMAIN lh
    BY <1>0, <1>6 DEF write_log, StageInv, CommitStage, Inv
  <2>2. bread(lh[tail + 1]) \in Val
    BY <1>0, <2>1 DEF bread
  <2>3. logblk' \in [1..LOGSIZE -> Val]
    BY Zenon, <1>0, <1>6, <2>2 DEF write_log
  <2>4. pc' \in [Proc -> {"user", "asleep", "woken", "op"} \cup CommitPc]
    BY <1>0, <1>6 DEF write_log, Last
  <2> QED
    BY <1>0, <1>6, <2>3, <2>4 DEF write_log
<1>7. ASSUME NEW p \in Proc, write_head(p) PROVE TypeOK'
  BY <1>0, <1>7 DEF write_head
<1>8. ASSUME NEW p \in Proc, erase(p) PROVE TypeOK'
  BY <1>0, <1>8 DEF erase
<1>9. ASSUME NEW p \in Proc, install_trans(p) PROVE TypeOK'
  <2> DEFINE b == lh[tail + 1]
  <2>1. tail + 1 \in DOMAIN lh /\ Len(lh) <= LOGSIZE
    BY <1>0, <1>9 DEF install_trans, StageInv, CommitStage, LogBounded, Inv
  <2>2. b \in Block /\ logblk[tail + 1] \in Val
    BY <1>0, <2>1, LogAssumption
  <2>3. boot = "up"
    BY <1>9 DEF install_trans, StageInv, BootStage, Inv
  <2>4. b \in Uninstalled
    BY <1>0, <1>9, <2>1 DEF install_trans, Uninstalled
  <2>5. pin[b] = 1
    BY <2>2, <2>3, <2>4 DEF PinsMatchLog, Inv
  <2>6. pin' \in [Block -> Nat]
    BY <1>0, <1>9, <2>2, <2>5 DEF install_trans, Bunpin
  <2> QED
    BY SMTT(30), <1>0, <1>9, <2>2, <2>6 DEF install_trans, CopyHome
<1>10. ASSUME NEW p \in Proc, NEW b \in Block, NEW v \in Val,
              log_write(p, b, v)
       PROVE TypeOK'
  <2>1. lh' \in Seq(Block)
    BY <1>0, <1>10 DEF log_write, Absorb
  <2>2. pin' \in [Block -> Nat]
    BY <1>0, <1>10 DEF log_write, Bpin
  <2> QED
    BY Zenon, <1>0, <1>10, <2>1, <2>2 DEF log_write, disk
<1>11. ASSUME NEW p \in Proc, NEW b \in Block, log_write_panic(p, b)
       PROVE TypeOK'
  BY <1>0, <1>11 DEF log_write_panic, disk
<1>12. ASSUME NEW b \in Block, Evict(b) PROVE TypeOK'
  BY <1>0, <1>12 DEF Evict, disk
<1>13. ASSUME NEW b \in Block, Fill(b) PROVE TypeOK'
  BY <1>0, <1>13 DEF Fill, disk
<1>14. CASE Crash
  <2>1. home' = home /\ logblk' = logblk /\ head' = head
    BY <1>14 DEF Crash, disk
  <2>2. /\ buf' \in [Block -> Val \cup {NoBuf}]
        /\ pin' \in [Block -> Nat]
    BY <1>14 DEF Crash
  <2>3. /\ pc' \in [Proc -> {"user", "asleep", "woken", "op"} \cup CommitPc]
        /\ wrote' \in [Proc -> SUBSET Block]
    BY <1>14 DEF Crash
  <2>4. committing' \in BOOLEAN /\ panicked' \in BOOLEAN
    BY ZenonT(40), <1>14 DEF Crash
  <2>5. lh' \in Seq(Block) /\ outstanding' \in Nat /\ tail' \in Nat
    BY <1>14 DEF Crash
  <2>6. boot' \in {"up", "read_head", "install", "erase"}
    BY <1>14 DEF Crash
  <2> QED
    BY SMTT(30), <1>0, <2>1, <2>2, <2>3, <2>4, <2>5, <2>6
<1>15. CASE read_head
  BY <1>0, <1>15 DEF read_head, disk
<1>16. CASE recover_install
  <2>1. tail + 1 \in DOMAIN lh /\ Len(lh) <= LOGSIZE
    BY <1>0, <1>16
    DEF recover_install, StageInv, BootStage, LogBounded, Inv
  <2> QED
    BY SMTT(30), <1>0, <1>16, <2>1, LogAssumption DEF recover_install, CopyHome
<1>17. CASE recover_erase
  BY <1>0, <1>17 DEF recover_erase
<1>18. CASE UNCHANGED vars
  BY <1>0, <1>18 DEF vars
<1> QED
  BY ZenonT(30), <1>1, <1>2, <1>3, <1>4, <1>5, <1>6, <1>7, <1>8, <1>9, <1>10, <1>11,
     <1>12, <1>13, <1>14, <1>15, <1>16, <1>17, <1>18, Zenon
  DEF Next, Kernel, Recovery

LEMMA ActiveFinite == IsFiniteSet(Active) /\ Cardinality(Active) \in Nat
BY LogAssumption, FS_Subset, FS_CardinalityType DEF Active

\* Commit is exclusive: begin_op keeps out while log.committing is set, and
\* end_op sets it only when the last operation leaves.
LEMMA QuiescentStep == Inv /\ [Next]_vars => CommitQuiescent'
<1> SUFFICES ASSUME Inv, [Next]_vars PROVE CommitQuiescent'
    OBVIOUS
<1>0. TypeOK /\ CommitQuiescent
  BY DEF Inv
<1> USE DEF CommitQuiescent, CommitPc
<1>a. ASSUME UNCHANGED <<pc, outstanding, committing>>
      PROVE CommitQuiescent'
  BY <1>0, <1>a DEF Active
\* Inside commit only the place of the committing process changes.
<1>b. ASSUME NEW p \in Proc, pc[p] \in CommitPc,
             NEW x \in CommitPc, pc' = [pc EXCEPT ![p] = x],
             UNCHANGED <<outstanding, committing>>
      PROVE CommitQuiescent'
  <2>1. Active' = Active
    BY <1>0, <1>b DEF Active, TypeOK
  <2> QED
    BY <1>0, <1>b, <2>1 DEF TypeOK
<1>1. ASSUME NEW p \in Proc, begin_op(p) PROVE CommitQuiescent'
  <2>1. Active' = Active \cup {p} /\ p \notin Active
    BY <1>0, <1>1 DEF begin_op, Active, TypeOK
  <2>2. outstanding' = Cardinality(Active')
    BY Zenon, <1>0, <1>1, <2>1, ActiveFinite, FS_AddElement DEF begin_op
  <2>3. ~committing /\ ~committing'
    BY <1>1 DEF begin_op, Admit
  <2>4. \A q \in Proc : pc'[q] \notin CommitPc
    BY <1>0, <1>1, <2>3 DEF begin_op, TypeOK
  <2> QED
    BY <2>2, <2>3, <2>4
<1>2. ASSUME NEW p \in Proc, begin_op_sleep(p) PROVE CommitQuiescent'
  <2>1. Active' = Active
    BY <1>0, <1>2 DEF begin_op_sleep, Active, TypeOK
  <2>2. \A q \in Proc : pc'[q] \in CommitPc <=> pc[q] \in CommitPc
    BY SMTT(30), <1>0, <1>2 DEF begin_op_sleep, TypeOK
  <2> QED
    BY <1>0, <1>2, <2>1, <2>2 DEF begin_op_sleep
<1>3. ASSUME NEW p \in Proc, end_op(p) PROVE CommitQuiescent'
  <2>1. Active' = Active \ {p} /\ p \in Active
    BY <1>0, <1>3 DEF end_op, EndWakeup, wakeup, Active, TypeOK
  <2>2. outstanding' = Cardinality(Active')
    BY Zenon, <1>0, <1>3, <2>1, ActiveFinite, FS_RemoveElement DEF end_op
  <2>3. ~committing /\ ~committing'
    BY <1>0, <1>3 DEF end_op
  <2>4. \A q \in Proc : pc'[q] \notin CommitPc
    BY <1>0, <1>3, <2>3 DEF end_op, EndWakeup, wakeup, TypeOK
  <2> QED
    BY <2>2, <2>3, <2>4
<1>4. ASSUME NEW p \in Proc, end_op_commit(p) PROVE CommitQuiescent'
  <2>1. Active' = Active \ {p} /\ p \in Active
    BY <1>0, <1>4 DEF end_op_commit, Active, TypeOK
  <2>2. outstanding' = Cardinality(Active')
    <3>1. Cardinality(Active \ {p}) = Cardinality(Active) - 1
      BY <2>1, ActiveFinite, FS_RemoveElement
    <3>2. outstanding = 1 /\ outstanding' = 0 /\ outstanding = Cardinality(Active)
      BY <1>0, <1>4 DEF end_op_commit
    <3> QED
      BY <2>1, <3>1, <3>2
  <2>3. ~committing /\ committing' /\ outstanding' = 0
    BY <1>0, <1>4 DEF end_op_commit
  <2>4. \A q \in Proc : pc'[q] \in CommitPc <=> q = p
    BY <1>0, <1>4, <2>3 DEF end_op_commit, TypeOK
  <2> QED
    BY <2>2, <2>3, <2>4
<1>5. ASSUME NEW p \in Proc, commit_done(p) PROVE CommitQuiescent'
  <2>1. Active' = Active
    BY <1>0, <1>5 DEF commit_done, EndWakeup, wakeup, Active, TypeOK
  <2>2. ~committing' /\ outstanding' = outstanding
    BY <1>5 DEF commit_done
  <2>3. \A q \in Proc : pc'[q] \notin CommitPc
    BY <1>0, <1>5 DEF commit_done, EndWakeup, wakeup, TypeOK
  <2> QED
    BY <1>0, <2>1, <2>2, <2>3
<1>6. ASSUME NEW p \in Proc, write_log(p) PROVE CommitQuiescent'
  BY ZenonT(30), <1>0, <1>6, <1>b DEF write_log, TypeOK
<1>7. ASSUME NEW p \in Proc, write_head(p) PROVE CommitQuiescent'
  BY ZenonT(30), <1>7, <1>b DEF write_head
<1>8. ASSUME NEW p \in Proc, erase(p) PROVE CommitQuiescent'
  BY Zenon, <1>8, <1>b DEF erase
<1>9. ASSUME NEW p \in Proc, install_trans(p) PROVE CommitQuiescent'
  BY ZenonT(30), <1>0, <1>9, <1>b DEF install_trans, TypeOK
<1>10. ASSUME NEW p \in Proc, NEW b \in Block, NEW v \in Val,
              log_write(p, b, v)
       PROVE CommitQuiescent'
  BY <1>10, <1>a DEF log_write
<1>11. ASSUME NEW p \in Proc, NEW b \in Block, log_write_panic(p, b)
       PROVE CommitQuiescent'
  BY <1>11, <1>a DEF log_write_panic
<1>12. ASSUME NEW b \in Block, Evict(b) \/ Fill(b) PROVE CommitQuiescent'
  BY <1>12, <1>a DEF Evict, Fill
<1>13. CASE Crash
  <2>1. Active' = {} /\ outstanding' = 0 /\ ~committing'
    BY <1>13 DEF Crash, Active
  <2>2. \A q \in Proc : pc'[q] \notin CommitPc
    BY <1>13 DEF Crash
  <2> QED
    BY <2>1, <2>2, FS_EmptySet
<1>14. CASE Recovery
  BY <1>14, <1>a DEF Recovery, read_head, recover_install, recover_erase
<1>15. CASE UNCHANGED vars
  BY <1>15, <1>a DEF vars
<1> QED
  BY ZenonT(30), <1>1, <1>2, <1>3, <1>4, <1>5, <1>6, <1>7, <1>8, <1>9, <1>10, <1>11,
     <1>12, <1>13, <1>14, <1>15
  DEF Next, Kernel

\* While an operation is open nothing is being committed.
LEMMA OpQuiet ==
    ASSUME Inv, NEW p \in Proc, pc[p] = "op"
    PROVE  /\ outstanding > 0 /\ ~committing
           /\ \A q \in Proc : pc[q] \notin CommitPc
           /\ boot = "up" /\ head = << >> /\ Uninstalled = Logged
<1>1. TypeOK /\ CommitQuiescent /\ StageInv
  BY DEF Inv
<1>2. p \in Active
  BY DEF Active
<1>3. Active # {} /\ Cardinality(Active) # 0
  BY <1>2, ActiveFinite, FS_EmptySet
<1>4. outstanding > 0
  BY <1>1, <1>3, ActiveFinite DEF CommitQuiescent
<1>5. ~committing
  BY <1>1, <1>4 DEF CommitQuiescent, TypeOK
<1>6. \A q \in Proc : pc[q] \notin CommitPc
  BY <1>1, <1>5 DEF CommitQuiescent
<1>7. boot = "up"
  BY <1>1 DEF StageInv, BootStage
<1>8. head = << >>
  BY <1>1, <1>5, <1>7 DEF StageInv, LogBounded
<1> QED
  BY <1>4, <1>5, <1>6, <1>7, <1>8 DEF Uninstalled, CommitPc

\* While one process commits no other one does, and none is in an operation.
LEMMA CommitAlone ==
    ASSUME Inv, NEW p \in Proc, pc[p] \in CommitPc
    PROVE  /\ committing /\ outstanding = 0 /\ boot = "up"
           /\ \A q \in Proc : pc[q] \in CommitPc => q = p
           /\ \A q \in Proc : pc[q] # "op"
<1>1. TypeOK /\ CommitQuiescent /\ StageInv
  BY DEF Inv
<1>2. committing /\ outstanding = 0 /\ \A q \in Proc : pc[q] \in CommitPc => q = p
  BY <1>1 DEF CommitQuiescent
<1>3. boot = "up"
  BY <1>1 DEF StageInv, BootStage, CommitPc
<1>4. Active = {}
  BY Zenon, <1>1, <1>2, ActiveFinite, FS_EmptySet DEF CommitQuiescent
<1> QED
  BY <1>2, <1>3, <1>4 DEF Active

\* Absorption: the header gains the block, at its end if it was not there.
LEMMA AbsorbFacts ==
    ASSUME NEW b \in Block, lh \in Seq(Block), lh' = Absorb(b)
    PROVE  /\ Logged' = Logged \cup {b}
           /\ Injective(lh) => Injective(lh')
           /\ Len(lh') <= Len(lh) + 1
<1>1. CASE b \in Logged
  <2>1. lh' = lh
    BY <1>1 DEF Absorb
  <2> QED
    BY <1>1, <2>1 DEF Logged, Injective
<1>2. CASE b \notin Logged
  <2>1. lh' = Append(lh, b)
    BY <1>2 DEF Absorb
  <2>2. /\ DOMAIN lh' = 1..(Len(lh) + 1) /\ Len(lh') = Len(lh) + 1
        /\ DOMAIN lh = 1..Len(lh) /\ Len(lh) \in Nat
        /\ \A i \in 1..Len(lh) : lh'[i] = lh[i]
        /\ lh'[Len(lh) + 1] = b
    BY <2>1
  <2>3. \A i \in 1..Len(lh) : lh[i] # b
    BY <1>2, <2>2 DEF Logged
  <2>4. Logged' = Logged \cup {b}
    <3>1. ASSUME NEW x \in Logged' PROVE x \in Logged \cup {b}
      BY <2>2 DEF Logged
    <3>2. ASSUME NEW x \in Logged PROVE x \in Logged'
      BY <2>2 DEF Logged
    <3>3. b \in Logged'
      BY <2>2 DEF Logged
    <3> QED
      BY <3>1, <3>2, <3>3
  <2>5. Injective(lh) => Injective(lh')
    BY <2>2, <2>3 DEF Injective
  <2> QED
    BY <2>2, <2>4, <2>5
<1> QED
  BY <1>1, <1>2

\* The log holds exactly one pin on each block it has yet to install.
LEMMA PinsStep == Inv /\ [Next]_vars => PinsMatchLog'
<1> SUFFICES ASSUME Inv, [Next]_vars PROVE PinsMatchLog'
    OBVIOUS
<1>0. TypeOK /\ PinsMatchLog /\ StageInv
  BY DEF Inv
<1>a. ASSUME UNCHANGED <<lh, pin, tail, boot>>,
             \A q \in Proc : pc'[q] = "install" <=> pc[q] = "install",
             \A q \in Proc : pc'[q] = "erase" <=> pc[q] = "erase"
      PROVE PinsMatchLog'
  <2>1. Uninstalled' = Uninstalled
    BY <1>a DEF Uninstalled, Logged
  <2> QED
    BY SMTT(30), <1>0, <1>a, <2>1 DEF PinsMatchLog
<1>1. ASSUME NEW p \in Proc, begin_op(p) PROVE PinsMatchLog'
  BY <1>0, <1>1, <1>a DEF begin_op, TypeOK
<1>2. ASSUME NEW p \in Proc, begin_op_sleep(p) PROVE PinsMatchLog'
  BY SMTT(30), <1>0, <1>2, <1>a DEF begin_op_sleep, TypeOK
<1>3. ASSUME NEW p \in Proc, end_op(p) PROVE PinsMatchLog'
  BY <1>0, <1>3, <1>a DEF end_op, EndWakeup, wakeup, TypeOK
<1>4. ASSUME NEW p \in Proc, end_op_commit(p) PROVE PinsMatchLog'
  <2>1. \A q \in Proc : pc'[q] \notin {"install", "erase"}
    BY <1>0, <1>4, OpQuiet DEF end_op_commit, CommitPc, TypeOK
  <2>2. Uninstalled' = Logged /\ Uninstalled = Logged
    BY <1>4, <2>1, OpQuiet DEF end_op_commit, Uninstalled, Logged
  <2> QED
    BY <1>0, <1>4, <2>2 DEF end_op_commit, PinsMatchLog
<1>5. ASSUME NEW p \in Proc, commit_done(p) PROVE PinsMatchLog'
  BY <1>0, <1>5, <1>a DEF commit_done, EndWakeup, wakeup, TypeOK
<1>6. ASSUME NEW p \in Proc, write_log(p) PROVE PinsMatchLog'
  <2>1. \A q \in Proc : pc'[q] \notin {"install", "erase"}
    BY <1>0, <1>6, CommitAlone DEF write_log, CommitPc, TypeOK
  <2>2. \A q \in Proc : pc[q] \notin {"install", "erase"}
    BY <1>6, CommitAlone DEF write_log, CommitPc
  <2>3. Uninstalled' = Logged /\ Uninstalled = Logged
    BY <1>6, <2>1, <2>2 DEF write_log, Uninstalled, Logged
  <2> QED
    BY <1>0, <1>6, <2>3 DEF write_log, PinsMatchLog
<1>7. ASSUME NEW p \in Proc, write_head(p) PROVE PinsMatchLog'
  <2>1. \A q \in Proc : pc[q] \notin {"install", "erase"}
    BY <1>7, CommitAlone DEF write_head, CommitPc
  <2>2. Uninstalled = Logged
    BY <2>1 DEF Uninstalled
  <2>3. pc'[p] = "install" /\ tail' = 0 /\ lh' = lh
    BY <1>0, <1>7 DEF write_head, TypeOK
  <2>4. Uninstalled' = Logged
    BY <1>0, <2>3 DEF Uninstalled, Logged, TypeOK
  <2> QED
    BY <1>0, <1>7, <2>2, <2>4 DEF write_head, PinsMatchLog
<1>8. ASSUME NEW p \in Proc, erase(p) PROVE PinsMatchLog'
  <2>1. \A q \in Proc : pc[q] # "install"
    BY <1>8, CommitAlone DEF erase, CommitPc
  <2>2. Uninstalled = {}
    BY <1>8, <2>1 DEF erase, Uninstalled
  <2>3. \A q \in Proc : pc'[q] \notin {"install", "erase"}
    BY <1>0, <1>8, CommitAlone DEF erase, CommitPc, TypeOK
  <2>4. Uninstalled' = {}
    BY <1>8, <2>3 DEF erase, Uninstalled, Logged
  <2> QED
    BY SMTT(30), <1>0, <1>8, <2>2, <2>4 DEF erase, PinsMatchLog
<1>9. ASSUME NEW p \in Proc, install_trans(p) PROVE PinsMatchLog'
  <2> DEFINE b == lh[tail + 1]
  <2>1. boot = "up" /\ \A q \in Proc : pc[q] \in CommitPc => q = p
    BY SMTT(30), <1>9, CommitAlone DEF install_trans, CommitPc
  <2>2. tail + 1 \in DOMAIN lh /\ Injective(lh) /\ b \in Block
    BY <1>0, <1>9
    DEF install_trans, StageInv, CommitStage, LogBounded, TypeOK
  <2>3. Uninstalled = {lh[i] : i \in {j \in DOMAIN lh : j > tail}}
    BY ZenonT(30), <1>9 DEF install_trans, Uninstalled
  <2>4. Uninstalled' = Uninstalled \ {b}
    <3>1. CASE Last
      <4>1. pc'[p] = "erase" /\ \A q \in Proc : pc'[q] # "install"
        BY SMTT(30), <1>0, <1>9, <2>1, <3>1 DEF install_trans, CommitPc, TypeOK
      <4>2. Uninstalled' = {}
        BY <4>1 DEF Uninstalled
      <4>3. \A j \in DOMAIN lh : j > tail => j = tail + 1
        BY <1>0, <3>1 DEF Last, TypeOK
      <4> QED
        BY SMTT(30), <2>3, <4>2, <4>3
    <3>2. CASE ~Last
      <4>1. pc'[p] = "install" /\ lh' = lh /\ tail' = tail + 1
        BY <1>0, <1>9, <3>2 DEF install_trans, CopyHome, TypeOK
      <4>2. Uninstalled' = {lh[i] : i \in {j \in DOMAIN lh : j > tail + 1}}
        BY <4>1 DEF Uninstalled
      <4>3. \A j \in DOMAIN lh : j > tail + 1 <=> j > tail /\ lh[j] # b
        BY SMTT(30), <1>0, <2>2 DEF Injective, TypeOK
      <4> QED
        BY <2>3, <4>2, <4>3
    <3> QED
      BY <3>1, <3>2
  <2>5. pin' = [pin EXCEPT ![b] = @ - 1]
    BY <1>9 DEF install_trans, Bunpin
  <2>6. b \in Uninstalled
    BY SMTT(30), <1>0, <2>2, <2>3 DEF TypeOK
  <2> QED
    BY SMTT(30), <1>0, <2>1, <2>2, <2>4, <2>5, <2>6 DEF PinsMatchLog, TypeOK
<1>10. ASSUME NEW p \in Proc, NEW b \in Block, NEW v \in Val,
              log_write(p, b, v)
       PROVE PinsMatchLog'
  <2>1. /\ boot = "up" /\ Uninstalled = Logged
        /\ \A q \in Proc : pc[q] \notin CommitPc
    BY <1>10, OpQuiet DEF log_write, MayWrite
  <2>2. Uninstalled' = Logged'
    BY ZenonT(30), <1>10, <2>1 DEF log_write, Uninstalled, CommitPc
  <2>3. Logged' = Logged \cup {b}
    BY SMTT(30), <1>0, <1>10, AbsorbFacts DEF log_write, TypeOK
  <2>4. pin' = IF b \in Logged THEN pin ELSE [pin EXCEPT ![b] = @ + 1]
    BY <1>10 DEF log_write, Bpin
  <2> QED
    BY SMTT(30), <1>0, <2>1, <2>2, <2>3, <2>4 DEF PinsMatchLog, TypeOK
<1>11. ASSUME NEW p \in Proc, NEW b \in Block, log_write_panic(p, b)
       PROVE PinsMatchLog'
  BY <1>11, <1>a DEF log_write_panic
<1>12. ASSUME NEW b \in Block, Evict(b) PROVE PinsMatchLog'
  BY ZenonT(30), <1>12, <1>a DEF Evict
<1>13. ASSUME NEW b \in Block, Fill(b) PROVE PinsMatchLog'
  BY ZenonT(30), <1>13, <1>a DEF Fill
<1>14. CASE Crash \/ read_head \/ recover_install
  BY <1>0, <1>14 DEF Crash, read_head, recover_install, PinsMatchLog
<1>15. CASE recover_erase
  <2>1. pin' = pin /\ \A b \in Block : pin[b] = 0
    BY <1>0, <1>15 DEF recover_erase, StageInv, BootStage
  <2>2. \A q \in Proc : pc'[q] = "user"
    BY <1>0, <1>15 DEF recover_erase, StageInv, BootStage
  <2>3. Uninstalled' = {}
    BY <1>15, <2>2 DEF recover_erase, Uninstalled, Logged
  <2> QED
    BY <2>1, <2>3 DEF PinsMatchLog
<1>16. CASE UNCHANGED vars
  BY <1>16, <1>a DEF vars
<1> QED
  BY SMTT(30), <1>1, <1>2, <1>3, <1>4, <1>5, <1>6, <1>7, <1>8, <1>9, <1>10, <1>11,
     <1>12, <1>13, <1>14, <1>15, <1>16
  DEF Next, Kernel, Recovery

\* The header never names a block twice nor grows past the log, and it is
\* empty, on disk and in memory, whenever nothing is pending.
LEMMA BoundedStep == Inv /\ [Next]_vars => LogBounded'
<1> SUFFICES ASSUME Inv, [Next]_vars PROVE LogBounded'
    OBVIOUS
<1>0. TypeOK /\ LogBounded /\ BootStage /\ \A p \in Proc : CommitStage(p)
  BY DEF Inv, StageInv
<1>e. Injective(<< >>) /\ Len(<< >>) <= LOGSIZE
  BY LogAssumption DEF Injective
<1>1. ASSUME NEW p \in Proc, begin_op(p) PROVE LogBounded'
  BY <1>0, <1>1 DEF begin_op, disk, LogBounded, Injective, TypeOK
<1>2. ASSUME NEW p \in Proc, begin_op_sleep(p) PROVE LogBounded'
  BY SMTT(30), <1>0, <1>2 DEF begin_op_sleep, disk, LogBounded, Injective
<1>3. ASSUME NEW p \in Proc, end_op(p) PROVE LogBounded'
  BY SMTT(30), <1>0, <1>3 DEF end_op, disk, LogBounded, Injective, TypeOK
<1>4. ASSUME NEW p \in Proc, end_op_commit(p) PROVE LogBounded'
  BY SMTT(30), <1>0, <1>4 DEF end_op_commit, disk, LogBounded, Injective
<1>5. ASSUME NEW p \in Proc, commit_done(p) PROVE LogBounded'
  BY <1>0, <1>5 DEF commit_done, disk, LogBounded, Injective, CommitStage
<1>6. ASSUME NEW p \in Proc, write_log(p) PROVE LogBounded'
  BY <1>0, <1>6 DEF write_log, LogBounded, Injective
<1>7. ASSUME NEW p \in Proc, write_head(p) PROVE LogBounded'
  <2>1. committing /\ committing'
    BY <1>7, CommitAlone DEF write_head, CommitPc
  <2> QED
    BY <1>0, <1>7, <2>1 DEF write_head, LogBounded, Injective
<1>8. ASSUME NEW p \in Proc, erase(p) PROVE LogBounded'
  BY SMTT(30), <1>e, <1>8 DEF erase, LogBounded, Injective
<1>9. ASSUME NEW p \in Proc, install_trans(p) PROVE LogBounded'
  BY SMTT(30), <1>0, <1>9 DEF install_trans, LogBounded, Injective
<1>10. ASSUME NEW p \in Proc, NEW b \in Block, NEW v \in Val,
              log_write(p, b, v)
       PROVE LogBounded'
  <2>1. outstanding > 0 /\ head = << >>
    BY ZenonT(30), <1>10, OpQuiet DEF log_write, MayWrite
  <2>2. Injective(lh') /\ Len(lh') <= Len(lh) + 1
    BY <1>0, <1>10, AbsorbFacts DEF log_write, LogBounded, TypeOK
  <2>3. Len(lh) < LOGSIZE
    BY <1>0, <1>10, LogAssumption DEF log_write, TooBig, TypeOK
  <2>4. Len(lh') <= LOGSIZE
    <3>1. lh' \in Seq(Block)
      BY <1>10, TypeStep DEF TypeOK
    <3> QED
      BY SMTT(30), <1>0, <2>2, <2>3, <3>1, LogAssumption DEF TypeOK
  <2> QED
    BY SMTT(30), <1>0, <1>10, <2>1, <2>2, <2>4
    DEF log_write, disk, LogBounded, Injective, TypeOK
<1>11. ASSUME NEW p \in Proc, NEW b \in Block, log_write_panic(p, b)
       PROVE LogBounded'
  BY <1>0, <1>11 DEF log_write_panic, disk, LogBounded, Injective
<1>12. ASSUME NEW b \in Block, Evict(b) PROVE LogBounded'
  BY SMTT(30), <1>0, <1>12 DEF Evict, disk, LogBounded, Injective
<1>13. ASSUME NEW b \in Block, Fill(b) PROVE LogBounded'
  BY SMTT(30), <1>0, <1>13 DEF Fill, disk, LogBounded, Injective
<1>14. CASE Crash
  BY SMTT(30), <1>0, <1>e, <1>14 DEF Crash, disk, LogBounded, Injective
<1>15. CASE read_head
  BY SMTT(30), <1>0, <1>15 DEF read_head, disk, LogBounded, Injective
<1>16. CASE recover_install
  BY <1>0, <1>16 DEF recover_install, LogBounded, Injective
<1>17. CASE recover_erase
  BY <1>e, <1>17 DEF recover_erase, LogBounded, Injective
<1>18. CASE UNCHANGED vars
  BY SMTT(30), <1>0, <1>18 DEF vars, LogBounded, Injective
<1> QED
  BY <1>1, <1>2, <1>3, <1>4, <1>5, <1>6, <1>7, <1>8, <1>9, <1>10, <1>11,
     <1>12, <1>13, <1>14, <1>15, <1>16, <1>17, <1>18, Zenon
  DEF Next, Kernel, Recovery

\* No buffer that may be recycled holds an update the disk lacks.
LEMMA CleanStep == Inv /\ [Next]_vars => CacheClean'
<1> SUFFICES ASSUME Inv, [Next]_vars PROVE CacheClean'
    OBVIOUS
<1>0. TypeOK /\ PinsMatchLog /\ CacheClean /\ BootStage /\ LogBounded
      /\ \A p \in Proc : CommitStage(p)
  BY DEF Inv, StageInv
<1>b. CacheClean
  BY <1>0
<1>a. ASSUME UNCHANGED <<home, buf, pin>> PROVE CacheClean'
  BY SMTT(30), <1>b, <1>a DEF CacheClean
<1>1. ASSUME NEW p \in Proc,
             \/ begin_op(p) \/ begin_op_sleep(p)
             \/ end_op(p) \/ end_op_commit(p) \/ commit_done(p)
      PROVE CacheClean'
  BY SMTT(30), <1>1, <1>a
  DEF begin_op, begin_op_sleep, end_op, end_op_commit, commit_done, disk
<1>2. ASSUME NEW p \in Proc, write_log(p) \/ write_head(p) \/ erase(p)
      PROVE CacheClean'
  BY <1>2, <1>a DEF write_log, write_head, erase
<1>3. ASSUME NEW p \in Proc, install_trans(p) PROVE CacheClean'
  <2> DEFINE b == lh[tail + 1]
  <2>1. /\ tail + 1 \in DOMAIN lh /\ Len(lh) <= LOGSIZE
        /\ boot = "up" /\ b \in Block /\ b \in Uninstalled
    <3>1. pc[p] = "install" /\ pc[p] \in CommitPc
      BY <1>3 DEF install_trans, CommitPc
    <3>2. boot = "up"
      BY SMTT(30), <3>1, CommitAlone
    <3>3. tail + 1 \in DOMAIN lh /\ Len(lh) <= LOGSIZE /\ b \in Block
      BY SMTT(30), <1>0, <3>1 DEF CommitStage, LogBounded, TypeOK
    <3>4. tail + 1 > tail
      BY <1>0 DEF TypeOK
    <3>5. Uninstalled = {lh[i] : i \in {j \in DOMAIN lh : j > tail}}
      BY ZenonT(30), <3>1 DEF Uninstalled
    <3> QED
      BY ONLY SMTT(30), <3>2, <3>3, <3>4, <3>5
  <2>2. pin'[b] = 0 /\ buf'[b] = home'[b]
    BY <1>0, <1>3, <2>1
    DEF install_trans, CopyHome, Bunpin, PinsMatchLog, TypeOK
  <2>3. \A c \in Block : c # b =>
           home'[c] = home[c] /\ buf'[c] = buf[c] /\ pin'[c] = pin[c]
    BY Zenon, <1>0, <1>3 DEF install_trans, CopyHome, Bunpin, TypeOK
  <2> SUFFICES ASSUME NEW c \in Block
               PROVE  /\ pin'[c] = 0 => buf'[c] \in {NoBuf, home'[c]}
                      /\ pin'[c] > 0 => buf'[c] # NoBuf
    BY DEF CacheClean
  <2>4. CASE c = b
    BY ONLY <2>2, <2>4
  <2>5. CASE c # b
    <3>1. /\ pin[c] = 0 => buf[c] \in {NoBuf, home[c]}
          /\ pin[c] > 0 => buf[c] # NoBuf
      BY <1>b DEF CacheClean
    <3> QED
      BY ZenonT(30), <2>3, <2>5, <3>1
  <2> QED
    BY ZenonT(30), <2>4, <2>5
<1>4. ASSUME NEW p \in Proc, NEW b \in Block, NEW v \in Val,
             log_write(p, b, v)
      PROVE CacheClean'
  <2>1. boot = "up" /\ Uninstalled = Logged
    BY ZenonT(30), <1>4, OpQuiet DEF log_write, MayWrite
  <2>2. pin'[b] = 1 /\ buf'[b] # NoBuf
    BY SMTT(30), <1>0, <1>4, <2>1, LogAssumption
    DEF log_write, Bpin, PinsMatchLog, TypeOK
  <2>3. \A c \in Block : c # b =>
           home'[c] = home[c] /\ buf'[c] = buf[c] /\ pin'[c] = pin[c]
    BY <1>0, <1>4 DEF log_write, Bpin, disk, TypeOK
  <2> SUFFICES ASSUME NEW c \in Block
               PROVE  /\ pin'[c] = 0 => buf'[c] \in {NoBuf, home'[c]}
                      /\ pin'[c] > 0 => buf'[c] # NoBuf
    BY DEF CacheClean
  <2>4. CASE c = b
    BY ONLY SMTT(30), <2>2, <2>4
  <2>5. CASE c # b
    <3>1. /\ pin[c] = 0 => buf[c] \in {NoBuf, home[c]}
          /\ pin[c] > 0 => buf[c] # NoBuf
      BY <1>b DEF CacheClean
    <3> QED
      BY SMTT(30), <2>3, <2>5, <3>1
  <2> QED
    BY ZenonT(30), <2>4, <2>5
<1>5. ASSUME NEW p \in Proc, NEW b \in Block, log_write_panic(p, b)
      PROVE CacheClean'
  BY <1>5, <1>a DEF log_write_panic, disk
<1>6. ASSUME NEW b \in Block, Evict(b) PROVE CacheClean'
  BY <1>0, <1>6 DEF Evict, disk, CacheClean, TypeOK
<1>7. ASSUME NEW b \in Block, Fill(b) PROVE CacheClean'
  <2>1. home[b] # NoBuf
    BY SMTT(30), <1>0, LogAssumption DEF TypeOK
  <2> QED
    BY <1>0, <1>7, <2>1 DEF Fill, disk, CacheClean, TypeOK
<1>8. CASE Crash
  <2>1. \A c \in Block : pin'[c] = 0 /\ buf'[c] = NoBuf
    BY <1>8 DEF Crash
  <2> QED
    BY <2>1 DEF CacheClean
<1>9. CASE read_head \/ recover_erase
  BY <1>9, <1>a DEF read_head, recover_erase, disk
<1>10. CASE recover_install
  <2>1. \A c \in Block : pin'[c] = 0 /\ pin[c] = 0
    BY SMTT(30), <1>0, <1>10 DEF recover_install, BootStage
  <2>2. \A c \in Block : (buf'[c] = buf[c] /\ home'[c] = home[c])
                         \/ buf'[c] = home'[c]
    BY <1>0, <1>10 DEF recover_install, CopyHome, TypeOK
  <2> QED
    BY <1>0, <2>1, <2>2 DEF CacheClean
<1>11. CASE UNCHANGED vars
  BY <1>11, <1>a DEF vars
<1> QED
  BY SMTT(30), <1>1, <1>2, <1>3, <1>4, <1>5, <1>6, <1>7, <1>8, <1>9, <1>10, <1>11
  DEF Next, Kernel, Recovery

\* Installing one more block of an injective header undoes none of the
\* blocks installed before it.
LEMMA InstallOne ==
    ASSUME TypeOK, LogBounded, tail < Len(lh), Installed(tail),
           CopyHome(lh[tail + 1]), UNCHANGED <<lh, logblk>>
    PROVE  /\ Installed(tail)' /\ tail' = tail + 1
           /\ tail + 1 \in 1..Len(lh)
<1>1. tail + 1 \in 1..Len(lh) /\ tail \in Nat /\ tail' = tail + 1
  BY SMTT(30) DEF TypeOK, CopyHome
<1>2. lh[tail + 1] \in Block /\ tail + 1 \in DOMAIN logblk
  BY SMTT(30), <1>1, LogAssumption DEF TypeOK, LogBounded
<1>3. home'[lh[tail + 1]] = logblk[tail + 1]
  BY <1>2 DEF CopyHome, TypeOK
<1>4. \A i \in 1..tail : home'[lh[i]] = home[lh[i]]
  <2> TAKE i \in 1..tail
  <2>1. i \in DOMAIN lh /\ tail + 1 \in DOMAIN lh /\ i # tail + 1
    BY <1>1 DEF TypeOK
  <2>2. lh[i] # lh[tail + 1] /\ lh[i] \in Block
    BY <2>1 DEF LogBounded, Injective, TypeOK
  <2> QED
    BY <2>2 DEF CopyHome, TypeOK
<1>5. \A i \in 1..(tail + 1) : i \in 1..tail \/ i = tail + 1
  BY <1>1
<1> QED
  BY SMTT(30), <1>1, <1>3, <1>4, <1>5 DEF Installed

\* Recovery has at each point installed the blocks it passed, and runs with
\* no operation, pin or commit left over from before the crash.
LEMMA BootStep == Inv /\ [Next]_vars => BootStage'
<1> SUFFICES ASSUME Inv, [Next]_vars PROVE BootStage'
    OBVIOUS
<1>0. TypeOK /\ BootStage /\ LogBounded
  BY DEF Inv, StageInv
<1>a. ASSUME boot' = "up" PROVE BootStage'
  BY SMTT(30), <1>a DEF BootStage
<1>1. ASSUME NEW p \in Proc,
             \/ begin_op(p) \/ begin_op_sleep(p)
             \/ end_op(p) \/ end_op_commit(p) \/ commit_done(p)
      PROVE BootStage'
  BY <1>1, <1>a
  DEF begin_op, begin_op_sleep, end_op, end_op_commit, commit_done, Running
<1>2. ASSUME NEW p \in Proc,
             \/ write_log(p) \/ write_head(p) \/ install_trans(p) \/ erase(p)
      PROVE BootStage'
  <2>1. pc[p] \in CommitPc /\ boot' = boot
    BY <1>2 DEF write_log, write_head, install_trans, erase, CommitPc
  <2> QED
    BY <2>1, <1>a, CommitAlone
<1>3. ASSUME NEW p \in Proc, NEW b \in Block, NEW v \in Val,
             log_write(p, b, v) \/ log_write_panic(p, b)
      PROVE BootStage'
  BY <1>3, <1>a DEF log_write, log_write_panic, MayWrite, Running
<1>4. ASSUME NEW p \in Proc, NEW b \in Block, log_write_panic(p, b)
      PROVE BootStage'
  BY <1>4, <1>a DEF log_write_panic, MayWrite, Running
<1>5. ASSUME NEW b \in Block, Evict(b) \/ Fill(b) PROVE BootStage'
  BY <1>5, <1>a DEF Evict, Fill
<1>6. CASE Crash
  BY <1>6 DEF Crash, BootStage
<1>7. CASE read_head
  <2>1. /\ outstanding' = 0 /\ ~committing' /\ ~panicked'
        /\ pin' = [b \in Block |-> 0]
        /\ \A p \in Proc : pc'[p] = "user" /\ wrote'[p] = {}
    BY <1>0, <1>7 DEF read_head, BootStage
  <2>2. CASE head = << >>
    <3>1. head' = head /\ lh' = head /\ boot' = "erase"
      BY <1>7, <2>2 DEF read_head, disk
    <3>2. Installed(Len(lh))'
      BY <2>2, <3>1 DEF Installed
    <3> QED
      BY <2>1, <3>1, <3>2 DEF BootStage
  <2>3. CASE head # << >>
    <3>1. head' = head /\ lh' = head /\ tail' = 0 /\ boot' = "install"
      BY <1>7, <2>3 DEF read_head, disk
    <3>2. 0 < Len(head)
      BY <1>0, <2>3 DEF TypeOK
    <3>3. Installed(tail)'
      BY <3>1 DEF Installed
    <3> QED
      BY <2>1, <3>1, <3>2, <3>3 DEF BootStage
  <2> QED
    BY SMTT(30), <2>2, <2>3
<1>8. CASE recover_install
  <2>1. /\ outstanding' = 0 /\ ~committing' /\ ~panicked'
        /\ pin' = [b \in Block |-> 0]
        /\ \A p \in Proc : pc'[p] = "user" /\ wrote'[p] = {}
    BY <1>0, <1>8 DEF recover_install, BootStage
  <2>2. lh' = lh /\ head' = head /\ lh = head
    BY <1>0, <1>8 DEF recover_install, BootStage
  <2>3. /\ Installed(tail)' /\ tail' = tail + 1
        /\ tail + 1 \in 1..Len(lh)
    BY ZenonT(30), <1>0, <1>8, InstallOne DEF recover_install, BootStage
  <2>4. CASE Last
    <3>1. boot' = "erase" /\ Installed(Len(lh))'
      BY ZenonT(30), <1>8, <2>2, <2>3, <2>4 DEF recover_install, Last, Installed
    <3> QED
      BY <2>1, <2>2, <3>1 DEF BootStage
  <2>5. CASE ~Last
    <3>1. boot' = "install"
      BY <1>8, <2>5 DEF recover_install
    <3>2. tail + 1 < Len(lh)
      BY <1>0, <2>3, <2>5 DEF Last, TypeOK
    <3> QED
      BY <2>1, <2>2, <2>3, <3>1, <3>2 DEF BootStage, Installed
  <2> QED
    BY <2>4, <2>5
<1>9. CASE recover_erase
  BY SMTT(30), <1>9, <1>a DEF recover_erase
<1>10. CASE UNCHANGED vars
  BY SMTT(30), <1>0, <1>10 DEF vars, BootStage, Installed
<1> QED
  BY SMTT(30), <1>1, <1>2, <1>3, <1>4, <1>5, <1>6, <1>7, <1>8, <1>9, <1>10
  DEF Next, Kernel, Recovery

\* Recycling or reading a buffer does not change what bread() returns.
LEMMA BreadStable ==
    ASSUME Inv, NEW b \in Block, Evict(b) \/ Fill(b)
    PROVE  \A c \in Block : bread(c)' = bread(c)
<1>1. TypeOK /\ CacheClean
  BY SMTT(30) DEF Inv, StageInv
<1>2. home' = home
  BY DEF Evict, Fill, disk
<1>3. home[b] # NoBuf
  BY SMTT(30), <1>1, LogAssumption DEF TypeOK
<1>4. CASE Evict(b)
  BY SMTT(30), <1>1, <1>2, <1>4 DEF Evict, CacheClean, bread, TypeOK
<1>5. CASE Fill(b)
  BY SMTT(30), <1>1, <1>2, <1>3, <1>5 DEF Fill, bread, TypeOK
<1> QED
  BY <1>4, <1>5

\* At each point of commit the disk holds what a crash there would need.
LEMMA CommitStep == Inv /\ [Next]_vars => \A q \in Proc : CommitStage(q)'
<1> SUFFICES ASSUME Inv, [Next]_vars PROVE \A q \in Proc : CommitStage(q)'
    OBVIOUS
<1>0. /\ TypeOK /\ BootStage /\ LogBounded /\ CacheClean
      /\ \A p \in Proc : CommitStage(p)
  BY DEF Inv, StageInv
<1>a. ASSUME \A q \in Proc : pc'[q] \notin CommitPc
      PROVE  \A q \in Proc : CommitStage(q)'
  BY SMTT(30), <1>a DEF CommitStage, CommitPc
\* A step of the committing process concerns that process only.
<1>b. ASSUME NEW p \in Proc, pc[p] \in CommitPc,
             NEW x, pc' = [pc EXCEPT ![p] = x], CommitStage(p)'
      PROVE  \A q \in Proc : CommitStage(q)'
  <2>1. \A q \in Proc : q # p => pc'[q] \notin CommitPc
    BY SMTT(30), <1>0, <1>b, CommitAlone DEF TypeOK
  <2> QED
    BY SMTT(30), <1>b, <2>1 DEF CommitStage, CommitPc
<1>1. ASSUME NEW p \in Proc, begin_op(p)
      PROVE  \A q \in Proc : CommitStage(q)'
  <2>1. \A q \in Proc : pc[q] \notin CommitPc
    BY <1>1 DEF begin_op, Admit, Inv, CommitQuiescent
  <2> QED
    BY <1>0, <1>1, <1>a, <2>1 DEF begin_op, CommitPc, TypeOK
<1>2. ASSUME NEW p \in Proc, begin_op_sleep(p)
      PROVE  \A q \in Proc : CommitStage(q)'
  <2> TAKE q \in Proc
  <2>1. CASE q = p
    BY <1>0, <1>2, <2>1 DEF begin_op_sleep, CommitStage, TypeOK
  <2>2. CASE q # p
    BY ZenonT(30), <1>0, <1>2, <2>2
    DEF begin_op_sleep, disk, CommitStage, LogHolds, Installed, bread, TypeOK
  <2> QED
    BY <2>1, <2>2
<1>3. ASSUME NEW p \in Proc, end_op(p)
      PROVE  \A q \in Proc : CommitStage(q)'
  <2>1. \A q \in Proc : pc[q] \notin CommitPc
    BY <1>3, OpQuiet DEF end_op
  <2> QED
    BY <1>0, <1>3, <1>a, <2>1 DEF end_op, EndWakeup, wakeup, CommitPc, TypeOK
<1>4. ASSUME NEW p \in Proc, end_op_commit(p)
      PROVE  \A q \in Proc : CommitStage(q)'
  <2>1. head = << >> /\ \A q \in Proc : pc[q] \notin CommitPc
    BY <1>4, OpQuiet DEF end_op_commit
  <2>2. \A q \in Proc : q # p => pc'[q] \notin CommitPc
    BY <1>0, <1>4, <2>1 DEF end_op_commit, TypeOK
  <2>3. lh' = lh /\ head' = << >> /\ tail' = 0
    BY <1>4, <2>1 DEF end_op_commit, disk
  <2>4. CommitStage(p)'
    <3>1. CASE lh = << >>
      <4>1. pc'[p] = "finish"
        BY SMTT(30), <1>0, <1>4, <3>1 DEF end_op_commit, TypeOK
      <4> QED
        BY SMTT(30), <2>3, <3>1, <4>1 DEF CommitStage
    <3>2. CASE lh # << >>
      <4>1. pc'[p] = "write_log"
        BY <1>0, <1>4, <3>2 DEF end_op_commit, TypeOK
      <4>2. 0 < Len(lh)
        BY SMTT(30), <1>0, <3>2 DEF TypeOK
      <4> QED
        BY SMTT(30), <2>3, <4>1, <4>2 DEF CommitStage, LogHolds
    <3> QED
      BY <3>1, <3>2
  <2> QED
    BY <2>2, <2>4 DEF CommitStage, CommitPc
<1>5. ASSUME NEW p \in Proc, commit_done(p)
      PROVE  \A q \in Proc : CommitStage(q)'
  <2>1. \A q \in Proc : pc[q] \in CommitPc => q = p
    BY <1>5, CommitAlone DEF commit_done, CommitPc
  <2> QED
    BY SMTT(30), <1>0, <1>5, <1>a, <2>1
    DEF commit_done, EndWakeup, wakeup, CommitPc, TypeOK
<1>6. ASSUME NEW p \in Proc, write_log(p)
      PROVE  \A q \in Proc : CommitStage(q)'
  <2>1. pc[p] = "write_log" /\ pc[p] \in CommitPc
    BY <1>6 DEF write_log, CommitPc
  <2>2. /\ lh' = lh /\ head' = << >> /\ tail' = tail + 1
        /\ home' = home /\ buf' = buf
        /\ tail + 1 \in 1..Len(lh) /\ Len(lh) <= LOGSIZE /\ LogHolds(tail)
    <3>1. lh' = lh /\ head' = head /\ tail' = tail + 1
          /\ home' = home /\ buf' = buf
      BY <1>6 DEF write_log
    <3>2. head = << >> /\ tail < Len(lh) /\ LogHolds(tail)
      BY <1>0, <2>1 DEF CommitStage
    <3>3. tail \in Nat /\ Len(lh) \in Nat /\ Len(lh) <= LOGSIZE
      BY <1>0 DEF LogBounded, TypeOK
    <3>4. tail + 1 \in 1..Len(lh)
      BY ONLY <3>2, <3>3
    <3> QED
      BY <3>1, <3>2, <3>3, <3>4
  <2>3. logblk' = [logblk EXCEPT ![tail + 1] = bread(lh[tail + 1])]
    BY SMTT(30), <1>6 DEF write_log
  <2>4. LogHolds(tail)'
    <3>1. \A i \in 1..(tail + 1) : i \in 1..tail \/ i = tail + 1
      BY <1>0 DEF TypeOK
    <3>2. 1..(tail + 1) \subseteq 1..LOGSIZE /\ DOMAIN logblk = 1..LOGSIZE
      <4>1. tail \in Nat /\ Len(lh) \in Nat /\ DOMAIN logblk = 1..LOGSIZE
        BY <1>0 DEF TypeOK
      <4> QED
        BY ONLY <2>2, <4>1, LogAssumption
    <3>3. \A i \in 1..tail : logblk'[i] = logblk[i]
      BY SMTT(30), <1>0, <2>3, <3>2 DEF TypeOK
    <3>4. logblk'[tail + 1] = bread(lh[tail + 1])
      BY <2>2, <2>3, <3>2
    <3> QED
      BY <2>2, <3>1, <3>3, <3>4 DEF LogHolds, bread
  <2>5. CASE Last
    <3>1. pc' = [pc EXCEPT ![p] = "write_head"] /\ pc'[p] = "write_head"
      BY SMTT(30), <1>0, <1>6, <2>5 DEF write_log, TypeOK
    <3>2. LogHolds(Len(lh))'
      BY <2>2, <2>4, <2>5 DEF Last, LogHolds, bread
    <3>3. lh # << >>
      BY SMTT(30), <2>2
    <3>4. CommitStage(p)'
      BY <2>2, <3>1, <3>2, <3>3 DEF CommitStage
    <3> QED
      BY ZenonT(30), <1>b, <2>1, <3>1, <3>4
  <2>6. CASE ~Last
    <3>1. pc' = [pc EXCEPT ![p] = pc[p]] /\ pc'[p] = "write_log"
      BY SMTT(30), <1>0, <1>6, <2>1, <2>6 DEF write_log, TypeOK
    <3>2. tail + 1 < Len(lh)
      BY <1>0, <2>2, <2>6 DEF Last, TypeOK
    <3>3. CommitStage(p)'
      BY <2>2, <2>4, <3>1, <3>2 DEF CommitStage
    <3> QED
      BY <1>b, <2>1, <3>1, <3>3, Zenon
  <2> QED
    BY <2>5, <2>6
<1>7. ASSUME NEW p \in Proc, write_head(p)
      PROVE  \A q \in Proc : CommitStage(q)'
  <2>1. pc[p] = "write_head" /\ pc[p] \in CommitPc
    BY <1>7 DEF write_head, CommitPc
  <2>2. pc' = [pc EXCEPT ![p] = "install"] /\ pc'[p] = "install"
    BY <1>0, <1>7 DEF write_head, TypeOK
  <2>3. /\ lh' = lh /\ head' = lh /\ tail' = 0 /\ LogHolds(Len(lh))'
    BY ZenonT(30), <1>0, <1>7, <2>1 DEF write_head, CommitStage, LogHolds, bread
  <2>4. 0 < Len(lh)
    BY SMTT(30), <1>0, <2>1 DEF CommitStage, TypeOK
  <2>5. CommitStage(p)'
    BY <2>2, <2>3, <2>4 DEF CommitStage, Installed
  <2> QED
    BY <1>b, <2>1, <2>2, <2>5, Zenon
<1>8. ASSUME NEW p \in Proc, erase(p)
      PROVE  \A q \in Proc : CommitStage(q)'
  <2>1. pc' = [pc EXCEPT ![p] = "finish"] /\ pc'[p] = "finish"
    BY <1>0, <1>8 DEF erase, TypeOK
  <2>2. CommitStage(p)'
    BY SMTT(30), <1>8, <2>1 DEF erase, CommitStage
  <2> QED
    BY ZenonT(40), <1>8, <1>b, <2>1, <2>2 DEF erase, CommitPc
<1>9. ASSUME NEW p \in Proc, install_trans(p)
      PROVE  \A q \in Proc : CommitStage(q)'
  <2>1. pc[p] = "install" /\ pc[p] \in CommitPc
    BY <1>9 DEF install_trans, CommitPc
  <2>2. /\ lh' = lh /\ head' = head /\ head = lh /\ logblk' = logblk
        /\ tail < Len(lh) /\ LogHolds(Len(lh)) /\ Installed(tail)
    BY SMTT(30), <1>0, <1>9, <2>1 DEF install_trans, CommitStage
  <2>3. /\ Installed(tail)' /\ tail' = tail + 1 /\ tail + 1 \in 1..Len(lh)
    BY <1>0, <1>9, <2>2, InstallOne DEF install_trans
  <2>4. LogHolds(Len(lh))'
    <3> SUFFICES ASSUME NEW i \in 1..Len(lh) PROVE logblk[i] = bread(lh[i])'
      BY <2>2 DEF LogHolds
    <3>1. /\ i \in DOMAIN lh /\ tail + 1 \in DOMAIN lh
          /\ lh[i] \in Block /\ lh[tail + 1] \in Block
          /\ logblk[tail + 1] \in Val
      BY SMTT(30), <1>0, <2>3, LogAssumption DEF TypeOK, LogBounded
    <3>2. CASE i = tail + 1
      BY SMTT(30), <1>0, <1>9, <2>2, <3>1, <3>2, LogAssumption
      DEF install_trans, CopyHome, bread, TypeOK
    <3>3. CASE i # tail + 1
      <4>1. lh[i] # lh[tail + 1]
        BY ZenonT(30), <1>0, <3>1, <3>3 DEF LogBounded, Injective
      <4>2. bread(lh[i])' = bread(lh[i])
        BY <1>0, <1>9, <2>2, <3>1, <4>1
        DEF install_trans, CopyHome, bread, TypeOK
      <4> QED
        BY <2>2, <4>2 DEF LogHolds
    <3> QED
      BY <3>2, <3>3
  <2>5. CASE Last
    <3>1. pc' = [pc EXCEPT ![p] = "erase"] /\ pc'[p] = "erase"
      BY <1>0, <1>9, <2>5 DEF install_trans, TypeOK
    <3>2. Installed(Len(lh))'
      BY <2>2, <2>3, <2>5 DEF Last, Installed
    <3>3. CommitStage(p)'
      BY <2>2, <2>4, <3>1, <3>2 DEF CommitStage
    <3> QED
      BY ZenonT(30), <1>b, <2>1, <3>1, <3>3
  <2>6. CASE ~Last
    <3>1. pc' = [pc EXCEPT ![p] = pc[p]] /\ pc'[p] = "install"
      BY <1>0, <1>9, <2>1, <2>6 DEF install_trans, TypeOK
    <3>2. tail + 1 < Len(lh)
      BY <1>0, <2>3, <2>6 DEF Last, TypeOK
    <3>3. CommitStage(p)'
      BY <2>2, <2>3, <2>4, <3>1, <3>2 DEF CommitStage
    <3> QED
      BY <1>b, <2>1, <3>1, <3>3, Zenon
  <2> QED
    BY <2>5, <2>6
<1>10. ASSUME NEW p \in Proc, NEW b \in Block, NEW v \in Val,
              log_write(p, b, v)
       PROVE  \A q \in Proc : CommitStage(q)'
  <2>1. \A q \in Proc : pc[q] \notin CommitPc
    BY <1>10, OpQuiet DEF log_write, MayWrite
  <2>2. pc' = pc
    BY <1>10 DEF log_write
  <2> QED
    BY ZenonT(30), <1>a, <2>1, <2>2
<1>11. ASSUME NEW p \in Proc, NEW b \in Block, log_write_panic(p, b)
       PROVE  \A q \in Proc : CommitStage(q)'
  <2>1. \A q \in Proc : pc[q] \notin CommitPc
    BY Zenon, <1>11, OpQuiet DEF log_write_panic, MayWrite
  <2>2. pc' = pc
    BY <1>11 DEF log_write_panic
  <2> QED
    BY <1>a, <2>1, <2>2
<1>12. ASSUME NEW b \in Block, Evict(b) \/ Fill(b)
       PROVE  \A q \in Proc : CommitStage(q)'
  <2>1. UNCHANGED <<home, logblk, head, lh, tail, pc>>
    BY <1>12 DEF Evict, Fill, disk
  <2>a. \A c \in Block : bread(c)' = bread(c)
    BY <1>12, BreadStable
  <2>b. \A i \in 1..Len(lh) : lh[i] \in Block
    BY SMTT(30), <1>0 DEF TypeOK
  <2>2. \A i \in 1..Len(lh) : bread(lh[i])' = bread(lh[i])
    BY <2>1, <2>a, <2>b DEF bread
  <2>3. LogHolds(Len(lh)) => LogHolds(Len(lh))'
    BY <2>1, <2>2 DEF LogHolds
  <2>4. tail < Len(lh) /\ LogHolds(tail) => LogHolds(tail)'
    BY <1>0, <2>1, <2>2 DEF LogHolds, TypeOK
  <2>5. /\ Installed(tail) => Installed(tail)'
        /\ Installed(Len(lh)) => Installed(Len(lh))'
    BY <2>1 DEF Installed
  <2> TAKE q \in Proc
  <2>6. CommitStage(q)
    BY <1>0
  <2> QED
    BY ZenonT(30), <2>1, <2>3, <2>4, <2>5, <2>6 DEF CommitStage
<1>13. CASE Crash
  BY ZenonT(30), <1>13, <1>a DEF Crash, CommitPc
<1>14. CASE Recovery
  <2>1. boot # "up" /\ pc' = pc
    BY <1>14 DEF Recovery, read_head, recover_install, recover_erase
  <2> QED
    BY <1>0, <1>a, <2>1 DEF BootStage, CommitPc
<1>15. CASE UNCHANGED vars
  BY ZenonT(30), <1>0, <1>15 DEF vars, CommitStage, LogHolds, Installed, bread
<1> QED
  BY SMTT(30), <1>1, <1>2, <1>3, <1>4, <1>5, <1>6, <1>7, <1>8, <1>9, <1>10, <1>11,
     <1>12, <1>13, <1>14, <1>15
  DEF Next, Kernel

LEMMA InvInit == Init => Inv
<1> SUFFICES ASSUME Init PROVE Inv
    BY SMTT(30)
<1> USE LogAssumption
<1>1. TypeOK
  <2>1. logblk \in [1..LOGSIZE -> Val]
    BY DEF Init
  <2>2. /\ buf \in [Block -> Val \cup {NoBuf}] /\ pin \in [Block -> Nat]
        /\ pc \in [Proc -> {"user", "asleep", "woken", "op"} \cup CommitPc]
        /\ wrote \in [Proc -> SUBSET Block]
    BY DEF Init
  <2>3. committing \in BOOLEAN /\ panicked \in BOOLEAN
    BY Zenon DEF Init
  <2>4. head \in Seq(Block) /\ lh \in Seq(Block)
    BY DEF Init
  <2> QED
    BY <2>1, <2>2, <2>3, <2>4 DEF Init, TypeOK
<1>2. CommitQuiescent
  <2>1. Active = {}
    BY DEF Init, Active
  <2> QED
    BY <2>1, FS_EmptySet DEF Init, CommitQuiescent, CommitPc
<1>3. PinsMatchLog
  BY DEF Init, PinsMatchLog
<1>4. StageInv
  <2>1. \A p \in Proc : CommitStage(p)
    <3>1. \A p \in Proc : pc[p] = "user"
      BY DEF Init
    <3> QED
      BY <3>1 DEF CommitStage
  <2>2. BootStage
    BY DEF Init, BootStage
  <2>3. CacheClean
    <3>1. \A b \in Block : buf[b] = NoBuf /\ pin[b] = 0
      BY DEF Init
    <3> QED
      BY <3>1 DEF CacheClean
  <2>4. LogBounded
    <3>1. lh = << >> /\ head = << >> /\ boot = "read_head"
      BY DEF Init
    <3> QED
      BY <3>1 DEF LogBounded, Injective
  <2> QED
    BY <2>1, <2>2, <2>3, <2>4 DEF StageInv
<1> QED
  BY <1>1, <1>2, <1>3, <1>4 DEF Inv

\* The inductive invariant of log.c: types, exclusion of commit and
\* operations, pins, and what each point of commit and recovery can rely on.
THEOREM Invariance == Spec => []Inv
<1>1. Inv /\ [Next]_vars => Inv'
  BY TypeStep, QuiescentStep, PinsStep, BoundedStep, CleanStep, BootStep,
     CommitStep
  DEF Inv, StageInv
<1> QED
  BY InvInit, <1>1, PTL DEF Spec

\* Types.
THEOREM TypeCorrect == Spec => []TypeOK
BY Invariance, PTL DEF Inv

\* commit() is exclusive: one process, no open operation.
THEOREM CommitExclusive == Spec => []CommitQuiescent
BY Invariance, PTL DEF Inv

\* One pin for every logged block until it is installed.
THEOREM PinsExact == Spec => []PinsMatchLog
BY Invariance, PTL DEF Inv

\* The facts commit and recovery rely on.
THEOREM StagesSafe == Spec => []StageInv
BY Invariance, PTL DEF Inv

-----------------------------------------------------------------------------
\* What recovery makes of a block, without the CHOOSE.
LEMMA RecoveredValue ==
    ASSUME Injective(head)
    PROVE  /\ \A i \in DOMAIN head :
                 head[i] \in Block => Recovered[head[i]] = logblk[i]
           /\ \A b \in Block :
                 (\A i \in DOMAIN head : head[i] # b) => Recovered[b] = home[b]
<1>1. ASSUME NEW i \in DOMAIN head, head[i] \in Block
      PROVE  Recovered[head[i]] = logblk[i]
  <2>1. \A j \in DOMAIN head : head[j] = head[i] => j = i
    BY DEF Injective
  <2>2. (CHOOSE j \in DOMAIN head : head[j] = head[i]) = i
    BY <2>1
  <2> QED
    BY Zenon, <1>1, <2>2 DEF Recovered
<1>2. ASSUME NEW b \in Block, \A i \in DOMAIN head : head[i] # b
      PROVE  Recovered[b] = home[b]
  BY <1>2 DEF Recovered
<1> QED
  BY <1>1, <1>2

LEMMA RecoveredEmpty ==
    ASSUME TypeOK, head = << >>
    PROVE  Recovered = home
BY DEF Recovered, TypeOK

LEMMA RecoveredInstalled ==
    ASSUME TypeOK, Injective(head), lh = head, Installed(Len(lh))
    PROVE  Recovered = home
<1>1. DOMAIN head = 1..Len(lh) /\ \A i \in DOMAIN head : head[i] \in Block
  BY DEF TypeOK
<1>2. \A b \in Block : Recovered[b] = home[b]
  <2> TAKE b \in Block
  <2>1. CASE \E i \in DOMAIN head : head[i] = b
    BY <1>1, <2>1, RecoveredValue DEF Installed
  <2>2. CASE \A i \in DOMAIN head : head[i] # b
    BY <2>2, RecoveredValue
  <2> QED
    BY ZenonT(30), <2>1, <2>2
<1> QED
  BY <1>2 DEF Recovered, TypeOK

\* Installing a block of the committed log does not change what recovery
\* would leave.
LEMMA RecoveredCopy ==
    ASSUME TypeOK, lh = head, tail + 1 \in DOMAIN lh,
           CopyHome(lh[tail + 1]), UNCHANGED <<logblk, head>>
    PROVE  Recovered' = Recovered
<1>1. \A b \in Block : (\A i \in DOMAIN head : head[i] # b) => home'[b] = home[b]
  BY DEF CopyHome, TypeOK
<1> QED
  BY <1>1 DEF Recovered

\* One step of log.c is one step of the atomic store, or none.
LEMMA StoreStep ==
    Inv /\ [Next]_vars => [Store!Next]_<<View, Recovered, Active>>
<1> SUFFICES ASSUME Inv, [Next]_vars
             PROVE  [Store!Next]_<<View, Recovered, Active>>
    OBVIOUS
<1>0. /\ TypeOK /\ PinsMatchLog /\ BootStage /\ LogBounded /\ CacheClean
      /\ \A p \in Proc : CommitStage(p)
  BY DEF Inv, StageInv
<1>t. TypeOK'
  BY TypeStep
<1>s. ASSUME UNCHANGED <<View, Recovered, Active>>
      PROVE  [Store!Next]_<<View, Recovered, Active>>
  BY <1>s
<1>v. ASSUME UNCHANGED <<home, buf, boot>> PROVE View' = View \/ boot # "up"
  BY <1>v DEF View, bread
<1>r. ASSUME UNCHANGED <<home, logblk, head>> PROVE Recovered' = Recovered
  BY <1>r DEF Recovered
<1>1. ASSUME NEW p \in Proc, begin_op(p)
      PROVE  [Store!Next]_<<View, Recovered, Active>>
  <2>1. Active' = Active \cup {p} /\ p \notin Active
    BY <1>0, <1>1 DEF begin_op, Active, TypeOK
  <2>2. UNCHANGED <<View, Recovered>>
    BY <1>1, <1>v, <1>r DEF begin_op, Running, disk
  <2> QED
    BY <2>1, <2>2 DEF Store!Next, Store!Begin
<1>2. ASSUME NEW p \in Proc, begin_op_sleep(p)
      PROVE  [Store!Next]_<<View, Recovered, Active>>
  <2>1. Active' = Active
    BY <1>0, <1>2 DEF begin_op_sleep, Active, TypeOK
  <2>2. UNCHANGED <<View, Recovered>>
    BY <1>2, <1>v, <1>r DEF begin_op_sleep, Running, disk
  <2> QED
    BY <2>1, <2>2, <1>s
<1>3. ASSUME NEW p \in Proc, end_op(p)
      PROVE  [Store!Next]_<<View, Recovered, Active>>
  <2>1. Active' = Active \ {p} /\ p \in Active
    BY <1>0, <1>3 DEF end_op, EndWakeup, wakeup, Active, TypeOK
  <2>2. UNCHANGED <<View, Recovered>>
    BY ZenonT(30), <1>3, <1>v, <1>r DEF end_op, Running, disk
  <2> QED
    BY ZenonT(30), <2>1, <2>2 DEF Store!Next, Store!End
<1>4. ASSUME NEW p \in Proc, end_op_commit(p)
      PROVE  [Store!Next]_<<View, Recovered, Active>>
  <2>1. Active' = Active \ {p} /\ p \in Active
    BY <1>0, <1>4 DEF end_op_commit, Active, TypeOK
  <2>2. UNCHANGED <<View, Recovered>>
    BY SMTT(30), <1>4, <1>v, <1>r DEF end_op_commit, Running, disk
  <2> QED
    BY <2>1, <2>2 DEF Store!Next, Store!End
<1>5. ASSUME NEW p \in Proc, commit_done(p)
      PROVE  [Store!Next]_<<View, Recovered, Active>>
  <2>1. Active' = Active
    BY <1>0, <1>5 DEF commit_done, EndWakeup, wakeup, Active, TypeOK
  <2>2. UNCHANGED <<View, Recovered>>
    BY <1>5, <1>v, <1>r DEF commit_done, Running, disk
  <2> QED
    BY <2>1, <2>2, <1>s
\* Before the commit point the log area is not part of the image.
<1>6. ASSUME NEW p \in Proc, write_log(p)
      PROVE  [Store!Next]_<<View, Recovered, Active>>
  <2>1. boot = "up" /\ head = << >>
    BY <1>0, <1>6, CommitAlone DEF write_log, CommitStage, CommitPc
  <2>2. Recovered = home /\ Recovered' = home'
    BY <1>0, <1>6, <2>1 DEF write_log, Recovered, TypeOK
  <2>3. View' = View /\ home' = home
    BY ZenonT(30), <1>6, <1>v, <2>1 DEF write_log
  <2>4. Active' = Active
    BY <1>0, <1>6 DEF write_log, Active, TypeOK
  <2> QED
    BY <2>2, <2>3, <2>4, <1>s
\* The commit point: the whole of memory becomes the durable image.
<1>7. ASSUME NEW p \in Proc, write_head(p)
      PROVE  [Store!Next]_<<View, Recovered, Active>>
  <2>1. boot = "up" /\ Active = {}
    BY <1>7, CommitAlone DEF write_head, CommitPc, Active
  <2>2. Active' = Active
    BY <1>0, <1>7 DEF write_head, Active, TypeOK
  <2>3. View' = View
    BY ZenonT(30), <1>7, <1>v, <2>1 DEF write_head
  <2>4. /\ head' = lh /\ logblk' = logblk /\ home' = home
        /\ Injective(lh) /\ LogHolds(Len(lh))
        /\ DOMAIN lh = 1..Len(lh) /\ \A i \in DOMAIN lh : lh[i] \in Block
    BY <1>0, <1>7 DEF write_head, CommitStage, LogBounded, TypeOK
  <2>5. \A q \in Proc : pc[q] \notin {"install", "erase"}
    BY <1>7, CommitAlone DEF write_head, CommitPc
  <2>6. \A b \in Block : b \notin Logged => bread(b) = home[b]
    BY <1>0, <2>1, <2>5
    DEF PinsMatchLog, Uninstalled, CacheClean, bread
  <2>7. \A b \in Block : Recovered'[b] = bread(b)
    <3> TAKE b \in Block
    <3>1. CASE b \in Logged
      <4>1. PICK i \in DOMAIN lh : lh[i] = b
        BY <3>1 DEF Logged
      <4>2. (CHOOSE j \in DOMAIN lh : lh[j] = b) = i
        BY <2>4, <4>1 DEF Injective
      <4>3. Recovered'[b] = logblk[i]
        BY ZenonT(30), <2>4, <4>1, <4>2 DEF Recovered
      <4> QED
        BY <2>4, <4>1, <4>3 DEF LogHolds
    <3>2. CASE b \notin Logged
      BY <2>4, <2>6, <3>2 DEF Recovered, Logged
    <3> QED
      BY <3>1, <3>2
  <2>8. Recovered' = View
    BY <2>1, <2>7 DEF Recovered, View
  <2> QED
    BY <2>1, <2>2, <2>3, <2>8 DEF Store!Next, Store!Commit
<1>8. ASSUME NEW p \in Proc, install_trans(p)
      PROVE  [Store!Next]_<<View, Recovered, Active>>
  <2>1. boot = "up" /\ boot' = "up"
    BY ZenonT(30), <1>8, CommitAlone DEF install_trans, CommitPc
  <2>2. /\ head = lh /\ tail + 1 \in DOMAIN lh /\ LogHolds(Len(lh))
        /\ tail + 1 \in 1..LOGSIZE
    BY SMTT(30), <1>0, <1>8, LogAssumption
    DEF install_trans, CommitStage, LogBounded, TypeOK
  <2>3. Recovered' = Recovered
    BY <1>0, <1>8, <2>2, RecoveredCopy DEF install_trans
  <2>4. \A b \in Block : bread(b)' = bread(b)
    <3> TAKE b \in Block
    <3>1. logblk[tail + 1] \in Val /\ logblk[tail + 1] # NoBuf
      BY <1>0, <2>2, LogAssumption DEF TypeOK
    <3>2. CASE b = lh[tail + 1]
      <4>1. buf'[b] = logblk[tail + 1]
        BY SMTT(30), <1>0, <1>8, <3>2 DEF install_trans, CopyHome, TypeOK
      <4>2. bread(b) = logblk[tail + 1]
        BY SMTT(30), <1>0, <2>2, <3>2 DEF LogHolds, TypeOK
      <4> QED
        BY ZenonT(30), <3>1, <4>1, <4>2 DEF bread
    <3>3. CASE b # lh[tail + 1]
      BY SMTT(30), <1>0, <1>8, <3>3 DEF install_trans, CopyHome, bread, TypeOK
    <3> QED
      BY <3>2, <3>3
  <2>5. View' = View
    BY SMTT(30), <2>1, <2>4 DEF View
  <2>6. Active' = Active
    BY <1>0, <1>8 DEF install_trans, Active, TypeOK
  <2> QED
    BY <2>3, <2>5, <2>6, <1>s
<1>9. ASSUME NEW p \in Proc, erase(p)
      PROVE  [Store!Next]_<<View, Recovered, Active>>
  <2>1. boot = "up" /\ head = lh /\ Installed(Len(lh))
    BY <1>0, <1>9, CommitAlone DEF erase, CommitStage, CommitPc
  <2>2. Recovered = home
    BY SMTT(30), <1>0, <2>1, RecoveredInstalled DEF LogBounded
  <2>3. Recovered' = home'
    BY <1>t, <1>9 DEF erase, Recovered, TypeOK
  <2>4. View' = View /\ home' = home
    BY SMTT(30), <1>9, <1>v, <2>1 DEF erase
  <2>5. Active' = Active
    BY <1>0, <1>9 DEF erase, Active, TypeOK
  <2> QED
    BY SMTT(30), <2>2, <2>3, <2>4, <2>5, <1>s
<1>10. ASSUME NEW p \in Proc, NEW b \in Block, NEW v \in Val,
              log_write(p, b, v)
       PROVE  [Store!Next]_<<View, Recovered, Active>>
  <2>1. boot = "up" /\ boot' = "up" /\ p \in Active /\ Active' = Active
    BY Zenon, <1>10 DEF log_write, MayWrite, Running, Active
  <2>2. Recovered' = Recovered
    BY ZenonT(30), <1>10, <1>r DEF log_write, disk
  <2>3. \A c \in Block : bread(c)' = IF c = b THEN v ELSE bread(c)
    BY <1>0, <1>10, LogAssumption DEF log_write, disk, bread, TypeOK
  <2>4. View' = [View EXCEPT ![b] = v]
    BY ZenonT(30), <2>1, <2>3 DEF View
  <2> QED
    BY ZenonT(30), <2>1, <2>2, <2>4 DEF Store!Next, Store!Write
<1>11. ASSUME NEW p \in Proc, NEW b \in Block, log_write_panic(p, b)
       PROVE  [Store!Next]_<<View, Recovered, Active>>
  <2>1. UNCHANGED <<View, Recovered, Active>>
    BY <1>11, <1>v, <1>r DEF log_write_panic, MayWrite, Running, Active, disk
  <2> QED
    BY ZenonT(30), <2>1, <1>s
<1>12. ASSUME NEW b \in Block, Evict(b) \/ Fill(b)
       PROVE  [Store!Next]_<<View, Recovered, Active>>
  <2>1. boot = "up" /\ boot' = "up" /\ Active' = Active
    BY ZenonT(30), <1>12 DEF Evict, Fill, Active
  <2>2. View' = View
    BY <1>12, <2>1, BreadStable DEF View
  <2>3. Recovered' = Recovered
    BY ZenonT(30), <1>12, <1>r DEF Evict, Fill, disk
  <2> QED
    BY ZenonT(30), <2>1, <2>2, <2>3, <1>s
<1>13. CASE Crash
  <2>1. Recovered' = Recovered
    BY <1>13, <1>r DEF Crash, disk
  <2>2. View' = Recovered
    BY <1>13, <2>1 DEF Crash, View
  <2>3. Active' = {}
    BY <1>13 DEF Crash, Active
  <2> QED
    BY <2>1, <2>2, <2>3 DEF Store!Next, Store!Crash
<1>14. CASE read_head
  <2>1. Recovered' = Recovered /\ Active' = Active
    BY <1>14, <1>r DEF read_head, disk, Active
  <2>2. boot # "up" /\ boot' # "up"
    BY ZenonT(30), <1>14 DEF read_head
  <2> QED
    BY <2>1, <2>2, <1>s DEF View
<1>15. CASE recover_install
  <2>1. lh = head /\ tail + 1 \in DOMAIN lh
    BY <1>0, <1>15 DEF recover_install, BootStage, TypeOK
  <2>2. Recovered' = Recovered /\ Active' = Active
    BY SMTT(30), <1>0, <1>15, <2>1, RecoveredCopy DEF recover_install, Active
  <2>3. boot # "up" /\ boot' # "up"
    BY <1>15 DEF recover_install
  <2> QED
    BY <2>2, <2>3, <1>s DEF View
<1>16. CASE recover_erase
  <2>1. Recovered = home
    BY SMTT(30), <1>0, <1>16, RecoveredInstalled
    DEF recover_erase, BootStage, LogBounded
  <2>2. Recovered' = home'
    BY <1>t, <1>16 DEF recover_erase, Recovered, TypeOK
  <2>3. home' = home /\ buf' = buf /\ boot = "erase" /\ boot' = "up"
    BY <1>16 DEF recover_erase
  <2>4. \A b \in Block : bread(b)' = home[b]
    BY SMTT(30), <1>0, <2>3 DEF BootStage, CacheClean, bread
  <2>5. View' = View
    BY <1>0, <2>1, <2>3, <2>4 DEF View, TypeOK
  <2>6. Active' = Active
    BY <1>16 DEF recover_erase, Active
  <2> QED
    BY ZenonT(30), <2>1, <2>2, <2>3, <2>5, <2>6, <1>s
<1>17. CASE UNCHANGED vars
  BY ZenonT(30), <1>17, <1>s DEF vars, View, Recovered, Active, bread
<1> QED
  BY ZenonT(30), <1>1, <1>2, <1>3, <1>4, <1>5, <1>6, <1>7, <1>8, <1>9, <1>10, <1>11,
     <1>12, <1>13, <1>14, <1>15, <1>16, <1>17
  DEF Next, Kernel, Recovery

LEMMA StoreInit == Init => Store!Init
<1> SUFFICES ASSUME Init PROVE Store!Init
    OBVIOUS
<1>1. TypeOK
  BY InvInit DEF Inv
<1>2. Recovered = home
  BY <1>1, RecoveredEmpty DEF Init
<1>3. View = Recovered /\ Active = {}
  BY DEF Init, View, Active
<1> QED
  BY <1>1, <1>2, <1>3 DEF Store!Init, TypeOK

\* Crash atomicity of log.c, for every log size and number of processes.
THEOREM CrashAtomicity == Spec => CrashAtomic
<1>1. Inv /\ [Next]_vars => [Store!Next]_<<View, Recovered, Active>>
  BY ZenonT(30), StoreStep
<1> QED
  BY StoreInit, <1>1, Invariance, PTL DEF Spec, CrashAtomic, Store!Spec
-----------------------------------------------------------------------------

\* What an operation has written is in the header until it ends, and stays
\* within the operation's own bound.
WroteInv ==
    \A p \in Proc :
        /\ IsFiniteSet(wrote[p])
        /\ Cardinality(wrote[p]) <= OPBLOCKS
        /\ wrote[p] \subseteq Logged
        /\ pc[p] # "op" => wrote[p] = {}

SpaceInv == WroteInv /\ ReservationFits

LEMMA WroteStep == Inv /\ WroteInv /\ [Next]_vars => WroteInv'
<1> SUFFICES ASSUME Inv, WroteInv, [Next]_vars PROVE WroteInv'
    OBVIOUS
<1>0. TypeOK /\ StageInv /\ \A q \in Proc : wrote[q] \in SUBSET Block
  BY DEF Inv, TypeOK
<1>e. IsFiniteSet({}) /\ Cardinality({}) <= OPBLOCKS
  BY FS_EmptySet, LogAssumption
<1>a. ASSUME UNCHANGED <<wrote, lh>>,
             \A q \in Proc : pc[q] = "op" => pc'[q] = "op"
      PROVE WroteInv'
  BY ZenonT(30), <1>a DEF WroteInv, Logged
\* Nobody is in an operation while lh is emptied.
<1>b. ASSUME UNCHANGED wrote, \A q \in Proc : wrote[q] = {}
      PROVE WroteInv'
  BY <1>b, <1>e DEF WroteInv
<1>1. ASSUME NEW p \in Proc, begin_op(p) \/ begin_op_sleep(p)
      PROVE WroteInv'
  <2>1. UNCHANGED <<wrote, lh>> /\ pc[p] # "op"
    BY <1>1 DEF begin_op, begin_op_sleep
  <2>2. \A q \in Proc : q # p => pc'[q] = pc[q]
    BY <1>0, <1>1 DEF begin_op, begin_op_sleep, TypeOK
  <2> QED
    BY SMTT(30), <1>a, <2>1, <2>2
<1>2. ASSUME NEW p \in Proc, end_op(p) PROVE WroteInv'
  <2>1. /\ wrote'[p] = {} /\ Logged' = Logged
        /\ \A q \in Proc : q # p => wrote'[q] = wrote[q]
    BY <1>0, <1>2 DEF end_op, Logged, TypeOK
  <2>2. \A q \in Proc : q # p /\ pc[q] = "op" => pc'[q] = "op"
    BY ZenonT(30), <1>0, <1>2 DEF end_op, EndWakeup, wakeup, TypeOK
  <2> QED
    BY ZenonT(30), <1>e, <2>1, <2>2 DEF WroteInv
<1>3. ASSUME NEW p \in Proc, end_op_commit(p) PROVE WroteInv'
  BY <1>0, <1>3, <1>e DEF end_op_commit, WroteInv, Logged, TypeOK
<1>4. ASSUME NEW p \in Proc,
             \/ write_log(p) \/ write_head(p) \/ install_trans(p) \/ erase(p)
             \/ commit_done(p)
      PROVE WroteInv'
  <2>1. pc[p] \in CommitPc /\ wrote' = wrote
    BY <1>4
    DEF write_log, write_head, install_trans, erase, commit_done, CommitPc
  <2>2. \A q \in Proc : wrote[q] = {}
    BY ZenonT(30), <2>1, CommitAlone DEF WroteInv
  <2> QED
    BY ZenonT(30), <2>1, <2>2, <1>b
<1>5. ASSUME NEW p \in Proc, NEW b \in Block, NEW v \in Val,
             log_write(p, b, v)
      PROVE WroteInv'
  <2>1. Logged' = Logged \cup {b}
    BY <1>0, <1>5, AbsorbFacts DEF log_write, TypeOK
  <2>2. /\ wrote' = [wrote EXCEPT ![p] = @ \cup {b}]
        /\ pc' = pc /\ pc[p] = "op"
        /\ Cardinality(wrote[p] \cup {b}) <= OPBLOCKS
    BY ZenonT(30), <1>5 DEF log_write, MayWrite
  <2>3. IsFiniteSet(wrote[p] \cup {b})
    BY Zenon, FS_AddElement DEF WroteInv
  <2>4. wrote'[p] = wrote[p] \cup {b}
        /\ \A q \in Proc : q # p => wrote'[q] = wrote[q]
    BY <1>0, <2>2 DEF TypeOK
  <2> QED
    BY ZenonT(30), <2>1, <2>2, <2>3, <2>4 DEF WroteInv
<1>6. ASSUME NEW p \in Proc, NEW b \in Block, log_write_panic(p, b)
      PROVE WroteInv'
  BY <1>6, <1>a DEF log_write_panic
<1>7. ASSUME NEW b \in Block, Evict(b) \/ Fill(b) PROVE WroteInv'
  BY ZenonT(30), <1>7, <1>a DEF Evict, Fill
<1>8. CASE Crash
  BY ZenonT(30), <1>8, <1>e DEF Crash, WroteInv
<1>9. CASE Recovery
  <2>1. boot # "up" /\ wrote' = wrote
    BY <1>9 DEF Recovery, read_head, recover_install, recover_erase
  <2> QED
    BY ZenonT(30), <1>0, <1>b, <2>1 DEF StageInv, BootStage
<1>10. CASE UNCHANGED vars
  BY SMTT(30), <1>10, <1>a DEF vars
<1> QED
  BY ZenonT(30), <1>1, <1>2, <1>3, <1>4, <1>5, <1>6, <1>7, <1>8, <1>9, <1>10
  DEF Next, Kernel

\* The outstanding credits never exceed MAXOPBLOCKS for each operation.
CreditsOK ==
    /\ IsFiniteSet(Active)
    /\ IsFiniteSet(Credits) /\ Cardinality(Credits) \in Nat
    /\ Cardinality(Credits) <= Cardinality(Active) * MAXOPBLOCKS

LEMMA CreditsBound == CreditsOK
<1>1. IsFiniteSet(1..MAXOPBLOCKS) /\ Cardinality(1..MAXOPBLOCKS) = MAXOPBLOCKS
  <2>1. 1 \in Int /\ MAXOPBLOCKS \in Int /\ MAXOPBLOCKS > 0
    BY LogAssumption
  <2> QED
    BY <2>1, FS_Interval
<1>2. /\ IsFiniteSet(Active \X (1..MAXOPBLOCKS))
      /\ Cardinality(Active \X (1..MAXOPBLOCKS))
            = Cardinality(Active) * MAXOPBLOCKS
  BY ZenonT(30), <1>1, ActiveFinite, FS_Product
<1>3. Credits \in SUBSET (Active \X (1..MAXOPBLOCKS))
  BY DEF Credits
<1> QED
  BY <1>2, <1>3, ActiveFinite, FS_Subset, FS_CardinalityType DEF CreditsOK

\* The same facts after a step.
LEMMA BoundsAfter == CreditsOK'
BY CreditsBound, PTL

LEMMA FitsStep == Inv /\ SpaceInv /\ [Next]_vars => ReservationFits'
<1> SUFFICES ASSUME Inv, SpaceInv, [Next]_vars, boot' = "up"
             PROVE  Len(lh') + Cardinality(Credits') <= LOGSIZE
    BY DEF ReservationFits
<1>0. /\ TypeOK /\ CommitQuiescent /\ StageInv /\ LogBounded /\ WroteInv
      /\ ReservationFits
  BY DEF Inv, StageInv, SpaceInv
<1>t. TypeOK' /\ CommitQuiescent' /\ LogBounded' /\ WroteInv'
  BY ZenonT(30), TypeStep, QuiescentStep, BoundedStep, WroteStep DEF SpaceInv
<1>n. /\ Len(lh) \in Nat /\ Len(lh') \in Nat
      /\ Cardinality(Credits) \in Nat /\ Cardinality(Credits') \in Nat
      /\ LOGSIZE \in Nat /\ IsFiniteSet(Credits)
  BY SMTT(30), <1>0, <1>t, CreditsBound, BoundsAfter, LogAssumption
  DEF TypeOK, CreditsOK
\* Without open operations there are no credits.
<1>a. ASSUME Active' = {}
      PROVE  Len(lh') + Cardinality(Credits') <= LOGSIZE
  <2>1. Credits' = {}
    BY <1>a DEF Credits
  <2> QED
    BY <1>t, <1>n, <2>1, FS_EmptySet DEF LogBounded
\* Credits only shrink and the log does not grow.
<1>b. ASSUME boot = "up", lh' = lh, Credits' \subseteq Credits
      PROVE  Len(lh') + Cardinality(Credits') <= LOGSIZE
  <2>1. Cardinality(Credits') <= Cardinality(Credits)
    BY <1>b, <1>n, FS_Subset
  <2>2. Len(lh) + Cardinality(Credits) <= LOGSIZE
    BY <1>0, <1>b DEF ReservationFits
  <2> QED
    BY <1>b, <1>n, <2>1, <2>2
<1>1. ASSUME NEW p \in Proc, begin_op(p)
      PROVE  Len(lh') + Cardinality(Credits') <= LOGSIZE
  <2>1. Cardinality(Credits') <= Cardinality(Active') * MAXOPBLOCKS
    BY BoundsAfter DEF CreditsOK
  <2>2. Cardinality(Active') = outstanding + 1
    BY <1>1, <1>t DEF begin_op, CommitQuiescent
  <2>3. Len(lh) + (outstanding + 1) * MAXOPBLOCKS <= LOGSIZE /\ lh' = lh
    BY <1>1 DEF begin_op, Admit, Room
  <2>4. (outstanding + 1) * MAXOPBLOCKS \in Nat
    BY SMTT(30), <1>0, LogAssumption DEF TypeOK
  <2> QED
    BY <1>n, <2>1, <2>2, <2>3, <2>4
<1>2. ASSUME NEW p \in Proc, begin_op_sleep(p)
      PROVE  Len(lh') + Cardinality(Credits') <= LOGSIZE
  <2>1. Active' = Active
    BY <1>0, <1>2 DEF begin_op_sleep, Active, TypeOK
  <2> QED
    BY SMTT(30), <1>2, <1>b, <2>1 DEF begin_op_sleep, Running, Credits
<1>3. ASSUME NEW p \in Proc, end_op(p)
      PROVE  Len(lh') + Cardinality(Credits') <= LOGSIZE
  <2>1. Active' = Active \ {p}
    BY SMTT(30), <1>0, <1>3 DEF end_op, EndWakeup, wakeup, Active, TypeOK
  <2>2. \A q \in Active' : wrote'[q] = wrote[q]
    BY SMTT(30), <1>0, <1>3, <2>1 DEF end_op, Active, TypeOK
  <2>3. Credits' \subseteq Credits
    BY <2>1, <2>2 DEF Credits
  <2> QED
    BY SMTT(30), <1>3, <1>b, <2>3 DEF end_op, Running
<1>4. ASSUME NEW p \in Proc, end_op_commit(p)
      PROVE  Len(lh') + Cardinality(Credits') <= LOGSIZE
  <2>1. Cardinality(Active') = 0
    BY ZenonT(30), <1>4, <1>t DEF end_op_commit, CommitQuiescent
  <2> QED
    BY <1>a, <2>1, BoundsAfter, FS_EmptySet DEF CreditsOK
<1>5. ASSUME NEW p \in Proc,
             \/ write_log(p) \/ write_head(p) \/ install_trans(p) \/ erase(p)
             \/ commit_done(p)
      PROVE  Len(lh') + Cardinality(Credits') <= LOGSIZE
  <2>1. pc[p] \in CommitPc /\ outstanding' = outstanding
    BY ZenonT(30), <1>5
    DEF write_log, write_head, install_trans, erase, commit_done, CommitPc
  <2>2. Cardinality(Active') = 0
    BY <1>t, <2>1, CommitAlone DEF CommitQuiescent
  <2> QED
    BY <1>a, <2>2, BoundsAfter, FS_EmptySet DEF CreditsOK
<1>6. ASSUME NEW p \in Proc, NEW b \in Block, NEW v \in Val,
             log_write(p, b, v)
      PROVE  Len(lh') + Cardinality(Credits') <= LOGSIZE
  <2> DEFINE w == Cardinality(wrote[p])
             c == <<p, w + 1>>
  <2>1. /\ boot = "up" /\ pc' = pc /\ p \in Active /\ Active' = Active
        /\ wrote' = [wrote EXCEPT ![p] = @ \cup {b}]
    BY ZenonT(30), <1>6 DEF log_write, MayWrite, Running, Active
  <2>2. w \in Nat /\ IsFiniteSet(wrote[p]) /\ wrote[p] \subseteq Logged
    BY ZenonT(30), <1>0, FS_CardinalityType DEF WroteInv
  <2>3. Cardinality(wrote[p] \cup {b}) = IF b \in wrote[p] THEN w ELSE w + 1
    BY Zenon, <2>2, FS_AddElement
  <2>4. Cardinality(wrote[p] \cup {b}) <= MAXOPBLOCKS
    <3>1. Cardinality(wrote[p] \cup {b}) <= OPBLOCKS
      BY Zenon, <1>6 DEF log_write, MayWrite
    <3>2. /\ OPBLOCKS \in Nat /\ MAXOPBLOCKS \in Nat /\ OPBLOCKS <= MAXOPBLOCKS
          /\ Cardinality(wrote[p] \cup {b}) \in Nat
      BY <2>2, <2>3, LogAssumption
    <3> QED
      BY ONLY <3>1, <3>2
  <2>5. \A q \in Proc : wrote'[q] = IF q = p THEN wrote[p] \cup {b} ELSE wrote[q]
    BY <1>0, <2>1 DEF TypeOK
  <2>6. Credits' \subseteq Credits
    <3> SUFFICES ASSUME NEW q \in Active, NEW i \in 1..MAXOPBLOCKS,
                        i > Cardinality(wrote'[q])
                 PROVE  i > Cardinality(wrote[q])
      BY SMTT(30), <2>1 DEF Credits
    <3>1. q \in Proc
      BY DEF Active
    <3>2. CASE q = p
      <4>1. Cardinality(wrote'[q]) = Cardinality(wrote[p] \cup {b})
        BY ZenonT(30), <2>5, <3>1, <3>2
      <4>2. w <= Cardinality(wrote[p] \cup {b})
            /\ Cardinality(wrote[p] \cup {b}) \in Nat
        BY SMTT(30), <2>2, <2>3
      <4> QED
        BY ONLY <2>2, <3>2, <4>1, <4>2, i \in 1..MAXOPBLOCKS, LogAssumption,
                i > Cardinality(wrote'[q])
    <3>3. CASE q # p
      <4>1. wrote'[q] = wrote[q]
        BY ZenonT(30), <2>5, <3>1, <3>3
      <4> QED
        BY <4>1
    <3> QED
      BY <3>2, <3>3
  <2>7. CASE b \in Logged
    BY SMTT(30), <1>6, <1>b, <2>1, <2>6, <2>7 DEF log_write, Absorb
  <2>8. CASE b \notin Logged
    <3>1. b \notin wrote[p]
      BY SMTT(30), <2>2, <2>8
    <3>2. w + 1 \in 1..MAXOPBLOCKS
      BY SMTT(30), <2>2, <2>3, <2>4, <3>1, LogAssumption
    <3>3. c \in Credits
      BY SMTT(30), <2>1, <2>2, <3>2 DEF Credits
    <3>4. c \notin Credits'
      <4>1. Cardinality(wrote'[p]) = w + 1
        BY ZenonT(30), <2>3, <2>5, <3>1
      <4> QED
        BY <2>2, <4>1 DEF Credits
    <3>5. Cardinality(Credits \ {c}) = Cardinality(Credits) - 1
          /\ IsFiniteSet(Credits \ {c})
      <4>1. IsFiniteSet(Credits)
        BY ZenonT(30), <1>n
      <4> QED
        BY ONLY <3>3, <4>1, FS_RemoveElement
    <3>6. Cardinality(Credits') <= Cardinality(Credits) - 1
      BY SMTT(30), <2>6, <3>4, <3>5, FS_Subset
    <3>7. Len(lh') = Len(lh) + 1
      BY <1>0, <1>6, <2>8 DEF log_write, Absorb, TypeOK
    <3>8. Len(lh) + Cardinality(Credits) <= LOGSIZE
      BY ZenonT(30), <1>0, <2>1 DEF ReservationFits
    <3> QED
      BY SMTT(30), <1>n, <3>6, <3>7, <3>8
  <2> QED
    BY <2>7, <2>8
<1>7. ASSUME NEW p \in Proc, NEW b \in Block, log_write_panic(p, b)
      PROVE  Len(lh') + Cardinality(Credits') <= LOGSIZE
  BY ZenonT(30), <1>7, <1>b DEF log_write_panic, MayWrite, Running, Credits, Active
<1>8. ASSUME NEW b \in Block, Evict(b) \/ Fill(b)
      PROVE  Len(lh') + Cardinality(Credits') <= LOGSIZE
  BY <1>8, <1>b DEF Evict, Fill, Credits, Active
<1>9. CASE Crash
  BY <1>9 DEF Crash
<1>10. CASE Recovery
  <2>1. boot # "up" /\ pc' = pc
    BY ZenonT(30), <1>10 DEF Recovery, read_head, recover_install, recover_erase
  <2>2. Active' = {}
    BY ZenonT(30), <1>0, <2>1 DEF StageInv, BootStage, Active
  <2> QED
    BY <1>a, <2>2
<1>11. CASE UNCHANGED vars
  BY ZenonT(30), <1>11, <1>b DEF vars, Credits, Active
<1> QED
  BY SMTT(30), <1>1, <1>2, <1>3, <1>4, <1>5, <1>6, <1>7, <1>8, <1>9, <1>10, <1>11
  DEF Next, Kernel

LEMMA SpaceInit == Init => SpaceInv
BY FS_EmptySet, LogAssumption DEF Init, SpaceInv, WroteInv, ReservationFits

\* begin_op's reservation holds for every log size: what is in the log and
\* what the open operations may still add always fit.
THEOREM ReservationSafe == Spec => []ReservationFits
<1>1. Inv /\ SpaceInv /\ [Next]_vars => SpaceInv'
  BY WroteStep, FitsStep DEF SpaceInv
<1>2. SpaceInv => ReservationFits
  BY SMTT(30) DEF SpaceInv
<1> QED
  BY SpaceInit, <1>1, <1>2, Invariance, PTL DEF Spec

\* An operation that logs fewer blocks than it reserves leaves that many
\* slots of the log free at each of its writes.
LEMMA SlackAtWrite ==
    ASSUME Inv, SpaceInv, NEW p \in Proc, NEW b \in Block, MayWrite(p, b)
    PROVE  Len(lh) + MAXOPBLOCKS <= LOGSIZE + OPBLOCKS
<1> DEFINE w == Cardinality(wrote[p])
           S == {p} \X ((w + 1)..MAXOPBLOCKS)
<1>1. boot = "up" /\ p \in Active
  BY ZenonT(30) DEF MayWrite, Running, Active
<1>2. w \in Nat /\ w <= OPBLOCKS
  BY FS_CardinalityType DEF SpaceInv, WroteInv
<1>3. w <= MAXOPBLOCKS
  BY <1>2, LogAssumption
<1>4. /\ IsFiniteSet((w + 1)..MAXOPBLOCKS)
      /\ Cardinality((w + 1)..MAXOPBLOCKS) = MAXOPBLOCKS - w
  <2>1. w + 1 \in Int /\ MAXOPBLOCKS \in Int
    BY SMTT(30), <1>2, LogAssumption
  <2>2. /\ IsFiniteSet((w + 1)..MAXOPBLOCKS)
        /\ Cardinality((w + 1)..MAXOPBLOCKS)
              = IF w + 1 > MAXOPBLOCKS THEN 0 ELSE MAXOPBLOCKS - (w + 1) + 1
    BY <2>1, FS_Interval
  <2> HIDE DEF w
  <2> QED
    BY <1>2, <1>3, <2>2, LogAssumption
<1>5. Cardinality(S) = Cardinality({p}) * Cardinality((w + 1)..MAXOPBLOCKS)
  BY ZenonT(30), <1>4, FS_Singleton, FS_Product
<1>6. Cardinality(S) = MAXOPBLOCKS - w
  <2>1. Cardinality({p}) = 1
    BY FS_Singleton
  <2> HIDE DEF w
  <2> QED
    BY <1>2, <1>3, <1>4, <1>5, <2>1, LogAssumption
<1>7. S \in SUBSET Credits
  BY <1>1, <1>2 DEF Credits
<1>8. IsFiniteSet(Credits) /\ Cardinality(Credits) \in Nat
  BY ZenonT(30), CreditsBound DEF CreditsOK
<1>9. MAXOPBLOCKS - w <= Cardinality(Credits)
  BY <1>6, <1>7, <1>8, FS_Subset
<1>10. Len(lh) + Cardinality(Credits) <= LOGSIZE /\ Len(lh) \in Nat
  BY <1>1 DEF SpaceInv, ReservationFits, Inv, TypeOK
<1> QED
  BY <1>2, <1>8, <1>9, <1>10, LogAssumption

\* log_write never panics when operations stay far enough below their
\* reservation.  With mkfs's nlog = LOGSIZE that is two blocks below.
THEOREM NoPanicSafe ==
    ASSUME OPBLOCKS < MAXOPBLOCKS, LOGSIZE + OPBLOCKS + 1 < NLOG + MAXOPBLOCKS
    PROVE  Spec => []NoPanic
<1>1. Inv /\ SpaceInv /\ [Next]_vars => SpaceInv'
  BY WroteStep, FitsStep DEF SpaceInv
<1>2. Inv /\ SpaceInv /\ NoPanic /\ [Next]_vars => NoPanic'
  <2> SUFFICES ASSUME Inv, SpaceInv, NoPanic, [Next]_vars PROVE NoPanic'
      OBVIOUS
  <2>1. ASSUME NEW p \in Proc, NEW b \in Block, log_write_panic(p, b)
        PROVE  FALSE
    <3>1. Len(lh) + MAXOPBLOCKS <= LOGSIZE + OPBLOCKS
      BY <2>1, SlackAtWrite DEF log_write_panic
    <3>2. Len(lh) \in Nat
      BY DEF Inv, TypeOK
    <3>3. Len(lh) < LOGSIZE /\ Len(lh) < NLOG - 1
      BY <3>1, <3>2, LogAssumption
    <3> QED
      BY <2>1, <3>2, <3>3, LogAssumption DEF log_write_panic, TooBig
  <2>2. ASSUME NEW p \in Proc,
               begin_op(p) \/ begin_op_sleep(p) \/ Kernel(p)
        PROVE  NoPanic'
    BY ZenonT(30), <2>2
    DEF NoPanic, Kernel, begin_op, begin_op_sleep, end_op, end_op_commit,
        write_log, write_head, install_trans, erase, commit_done
  <2>3. ASSUME NEW p \in Proc, NEW b \in Block, NEW v \in Val,
               log_write(p, b, v)
        PROVE  NoPanic'
    BY ZenonT(30), <2>3 DEF NoPanic, log_write
  <2>4. ASSUME NEW b \in Block, Evict(b) \/ Fill(b) PROVE NoPanic'
    BY <2>4 DEF NoPanic, Evict, Fill
  <2>5. CASE Crash \/ Recovery
    BY <2>5
    DEF NoPanic, Crash, Recovery, read_head, recover_install, recover_erase
  <2>6. CASE UNCHANGED vars
    BY <2>6 DEF NoPanic, vars
  <2> QED
    BY <2>1, <2>2, <2>3, <2>4, <2>5, <2>6 DEF Next
<1>3. Init => NoPanic
  BY DEF Init, NoPanic
<1> QED
  BY SpaceInit, <1>1, <1>2, <1>3, Invariance, PTL DEF Spec

\* No process sleeps in begin_op that begin_op would now let in: end_op and
\* the end of commit wake all sleepers, and nothing else makes room.
THEOREM NoLostWakeup == Spec => []SleepersMustWait
<1>1. Inv /\ SleepersMustWait /\ [Next]_vars => SleepersMustWait'
  <2> SUFFICES ASSUME Inv, SleepersMustWait, [Next]_vars,
                      NEW q \in Proc, pc'[q] = "asleep"
               PROVE  ~Admit'
      BY DEF SleepersMustWait
  <2>0. TypeOK /\ StageInv
    BY DEF Inv
  <2>a. ASSUME pc[q] = "asleep", UNCHANGED <<lh, outstanding, committing>>
        PROVE  ~Admit'
    BY <2>a DEF SleepersMustWait, Admit, Room
  <2>1. ASSUME NEW p \in Proc, begin_op(p) PROVE ~Admit'
    <3>1. pc[q] = "asleep"
      BY <2>0, <2>1 DEF begin_op, TypeOK
    <3> QED
      BY <2>1, <3>1 DEF begin_op, SleepersMustWait
  <2>2. ASSUME NEW p \in Proc, begin_op_sleep(p) PROVE ~Admit'
    BY <2>2 DEF begin_op_sleep, Admit, Room
  <2>3. ASSUME NEW p \in Proc, end_op(p) \/ commit_done(p) PROVE FALSE
    BY ZenonT(30), <2>0, <2>3 DEF end_op, commit_done, EndWakeup, wakeup, TypeOK
  <2>4. ASSUME NEW p \in Proc, end_op_commit(p) PROVE ~Admit'
    BY <2>4 DEF end_op_commit, Admit
  <2>5. ASSUME NEW p \in Proc,
               write_log(p) \/ write_head(p) \/ install_trans(p) \/ erase(p)
        PROVE  ~Admit'
    <3>1. pc[p] \in CommitPc /\ committing' = committing
      BY <2>5 DEF write_log, write_head, install_trans, erase, CommitPc
    <3> QED
      BY ZenonT(30), <3>1, CommitAlone DEF Admit
  <2>6. ASSUME NEW p \in Proc, NEW b \in Block, NEW v \in Val,
               log_write(p, b, v)
        PROVE  ~Admit'
    <3>1. UNCHANGED <<pc, outstanding, committing>> /\ pc[q] = "asleep"
      BY SMTT(30), <2>6 DEF log_write
    <3>2. Len(lh) <= Len(lh') /\ Len(lh) \in Nat /\ Len(lh') \in Nat
      BY SMTT(30), <2>0, <2>6 DEF log_write, Absorb, TypeOK
    <3>3. (outstanding + 1) * MAXOPBLOCKS \in Nat
      BY <2>0, LogAssumption DEF TypeOK
    <3>4. ~Admit
      BY <3>1 DEF SleepersMustWait
    <3> QED
      BY SMTT(30), <3>1, <3>2, <3>3, <3>4, LogAssumption DEF Admit, Room
  <2>7. ASSUME NEW p \in Proc, NEW b \in Block, log_write_panic(p, b)
        PROVE  ~Admit'
    BY ZenonT(30), <2>7, <2>a DEF log_write_panic
  <2>8. ASSUME NEW b \in Block, Evict(b) \/ Fill(b) PROVE ~Admit'
    BY <2>8, <2>a DEF Evict, Fill
  <2>9. CASE Crash
    BY ZenonT(30), <2>9 DEF Crash
  <2>10. CASE Recovery
    BY SMTT(30), <2>0, <2>10
    DEF Recovery, read_head, recover_install, recover_erase, StageInv,
        BootStage
  <2>11. CASE UNCHANGED vars
    BY <2>11, <2>a DEF vars
  <2> QED
    BY ZenonT(30), <2>1, <2>2, <2>3, <2>4, <2>5, <2>6, <2>7, <2>8, <2>9, <2>10,
       <2>11
    DEF Next, Kernel
<1>2. Init => SleepersMustWait
  BY DEF Init, SleepersMustWait
<1> QED
  BY <1>1, <1>2, Invariance, PTL DEF Spec
=============================================================================
