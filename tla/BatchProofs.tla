---------------------------- MODULE BatchProofs ----------------------------
(***************************************************************************)
(* Theorems of Batch, for any number of items, drivers and requests.       *)
(* Each layer is an invariant proved inductive relative to the layers      *)
(* before it: types, the runs in flight, what the copies claim; then what  *)
(* the copies hold while writes work, which runs are over while nothing    *)
(* was lost, and who owns the batch while no two requests raced.           *)
(***************************************************************************)
EXTENDS Batch, SequenceTheorems, TLAPS

\* What a driver is doing while it owns an item, and while it owns a run.
OnItem == {"item", "prepared", "execute", "executing", "readback"}
OnRun  == {"prepared", "execute", "executing", "readback"}

----------------------------------------------------------------------------
(* Operators on batch records.                                             *)

\* setItem changes one item and nothing else.
LEMMA SetItemFacts ==
    ASSUME NEW b \in BatchRecord, NEW i \in Items,
           NEW status \in ItemStatus, NEW e \in Nat
    PROVE  /\ SetItem(b, i, status, e) \in BatchRecord
           /\ SetItem(b, i, status, e).status = b.status
           /\ SetItem(b, i, status, e).items[i].status = status
           /\ e # 0 => SetItem(b, i, status, e).items[i].execution = e
           /\ \A j \in Items \ {i} : SetItem(b, i, status, e).items[j] = b.items[j]
  BY DEF SetItem, BatchRecord, BatchItem

\* Resetting keeps completed items, or none, and makes the others wait.
LEMMA ResetFacts ==
    ASSUME NEW b \in BatchRecord, NEW restart \in BOOLEAN
    PROVE  /\ Reset(b, restart) \in BatchRecord
           /\ Reset(b, restart).status = "queued"
           /\ \A j \in Items :
                 \/ Reset(b, restart).items[j] = Waiting
                 \/ /\ Reset(b, restart).items[j] = b.items[j]
                    /\ b.items[j].status = "completed"
  BY DEF Reset, BatchRecord, BatchItem, Waiting, ItemStatus, BatchStatus

\* Cancelling what waits leaves completed items alone and completes none.
LEMMA CancelWaitingFacts ==
    ASSUME NEW b \in BatchRecord
    PROVE  /\ CancelWaiting(b) \in BatchRecord
           /\ CancelWaiting(b).status = "cancelled"
           /\ \A j \in Items : \/ CancelWaiting(b).items[j] = b.items[j]
                               \/ /\ CancelWaiting(b).items[j].status = "cancelled"
                                  /\ b.items[j].status \in {"pending", "running"}
  BY DEF CancelWaiting, BatchRecord, BatchItem, ItemStatus, BatchStatus

\* The verdict of a cancelled driver is "cancelled"; otherwise no item changes
\* and the verdict is "failed" exactly when an item failed.
LEMMA VerdictFacts ==
    ASSUME NEW b \in BatchRecord, NEW cancelled \in BOOLEAN
    PROVE  /\ Verdict(b, cancelled) \in BatchRecord
           /\ cancelled => Verdict(b, cancelled) = CancelWaiting(b)
           /\ ~cancelled => /\ Verdict(b, cancelled).items = b.items
                            /\ Verdict(b, cancelled).status \in {"failed", "completed"}
                            /\ Verdict(b, cancelled).status = "completed" =>
                                 \A j \in Items : b.items[j].status # "failed"
  <1>1. CASE cancelled
    BY <1>1, CancelWaitingFacts DEF Verdict
  <1>2. CASE ~cancelled
    BY <1>2 DEF Verdict, BatchRecord, BatchStatus
  <1>3. QED
    BY <1>1, <1>2

LEMMA NoBatchType == NoBatch \in BatchRecord
  BY DEF NoBatch, Waiting, BatchRecord, BatchItem, ItemStatus, BatchStatus

----------------------------------------------------------------------------
(* Types.                                                                  *)

ItemInRange == \A d \in Drivers : driver[d].pc \in OnItem => driver[d].i \in Items

\* Every driver on a run is on one that exists and is for the item it is on.
RunInRange ==
    \A d \in Drivers : driver[d].pc \in OnRun =>
        driver[d].run \in 1..Len(runs) /\ runs[driver[d].run].item = driver[d].i

TypeInv == TypeOK /\ ItemInRange /\ RunInRange

\* The idle values of drivers and requests are of their types.
LEMMA IdleTypes == IdleDriver \in DriverRecord /\ IdleRequest \in RequestRecord
  BY NoBatchType, BatchAssumption
     DEF IdleDriver, IdleRequest, DriverRecord, RequestRecord, DriverPC, RequestPC

LEMMA TypeInit == Init => TypeInv
  <1> SUFFICES ASSUME Init PROVE TypeInv
    OBVIOUS
  <1>a. driver \in [Drivers -> DriverRecord] /\ request \in [Requests -> RequestRecord]
    BY IdleTypes DEF Init
  <1>b. runs \in Seq(RunRecord)
    BY DEF Init
  <1>c. batchStop \in Drivers \cup {NoDriver} /\ ctxDone \subseteq Drivers
    BY DEF Init
  <1>d. /\ file \in BatchRecord /\ asked \in Nat /\ faults \in Nat
        /\ stops \in Nat /\ raced \in BOOLEAN
    BY NoBatchType DEF Init
  <1>1. TypeOK
    BY <1>a, <1>b, <1>c, <1>d DEF TypeOK
  <1>2. ItemInRange /\ RunInRange
    BY DEF Init, ItemInRange, RunInRange, IdleDriver, OnItem, OnRun
  <1>3. QED
    BY <1>1, <1>2 DEF TypeInv

\* Writing a record of the right type keeps the file's type, failed or not.
LEMMA PersistFacts ==
    ASSUME NEW b \in BatchRecord, file \in BatchRecord, faults \in Nat, Persist(b)
    PROVE  /\ file' \in BatchRecord /\ faults' \in Nat /\ faults' >= faults
           /\ file' \in {file, b}
           /\ faults' = 0 => file' = b
  BY DEF Persist, Mishap

\* Writing a run changes that run's status, or nothing when the write fails.
LEMMA PersistRunFacts ==
    ASSUME TypeOK, NEW r \in 1..Len(runs), NEW status \in RunStatus, PersistRun(r, status)
    PROVE  /\ runs' \in Seq(RunRecord) /\ Len(runs') = Len(runs)
           /\ \A k \in 1..Len(runs) : k # r => runs'[k] = runs[k]
           /\ runs'[r].item = runs[r].item
           /\ runs'[r].status \in {status, runs[r].status}
           /\ faults' \in Nat /\ faults' >= faults
           /\ faults' = 0 => runs'[r].status = status
  <1> DEFINE e == [runs[r] EXCEPT !.status = status]
  <1>1. runs \in Seq(RunRecord) /\ faults \in Nat
    BY DEF TypeOK
  <1>2. runs[r] \in RunRecord
    BY <1>1, ElementOfSeq
  <1>3. e \in RunRecord /\ e.status = status /\ e.item = runs[r].item
    BY <1>2 DEF RunRecord
  <1>4. CASE runs' = [runs EXCEPT ![r] = e] /\ faults' = faults
    <2> HIDE DEF e
    <2>1. runs' \in Seq(RunRecord) /\ Len(runs') = Len(runs)
      BY <1>1, <1>3, <1>4, ExceptSeq
    <2>2. \A k \in 1..Len(runs) : runs'[k] = IF k = r THEN e ELSE runs[k]
      BY <1>1, <1>3, <1>4, ExceptSeq
    <2>3. QED
      BY <1>1, <1>3, <1>4, <2>1, <2>2
  <1>5. CASE runs' = runs /\ faults' = faults + 1
    BY <1>1, <1>5
  <1>6. QED
    BY <1>4, <1>5 DEF PersistRun

\* A run appended leaves the earlier ones where they are.
LEMMA AppendRunFacts ==
    ASSUME runs \in Seq(RunRecord), NEW r \in RunRecord, runs' = Append(runs, r)
    PROVE  /\ runs' \in Seq(RunRecord) /\ Len(runs) \in Nat /\ Len(runs') = Len(runs) + 1
           /\ \A k \in 1..Len(runs) : runs'[k] = runs[k]
           /\ runs'[Len(runs')] = r
  <1>1. Len(runs) \in Nat
    BY LenProperties
  <1>2. QED
    BY <1>1, AppendProperties

\* A step of one driver, whatever it does to the runs, keeps the others in range.
RunsKept ==
    /\ runs' \in Seq(RunRecord) /\ Len(runs) \in Nat /\ Len(runs') \in Nat
    /\ Len(runs) <= Len(runs')
    /\ \A k \in 1..Len(runs) : runs'[k].item = runs[k].item

Moves(d, r) == driver' = [driver EXCEPT ![d] = r]

LEMMA OneMoves ==
    ASSUME TypeInv, NEW d \in Drivers, NEW r \in DriverRecord, Moves(d, r), RunsKept,
           r.pc \in OnItem => r.i \in Items,
           r.pc \in OnRun => r.run \in 1..Len(runs') /\ runs'[r.run].item = r.i
    PROVE  driver' \in [Drivers -> DriverRecord] /\ ItemInRange' /\ RunInRange'
  <1> USE DEF TypeInv, TypeOK, Moves
  <1>1. driver' \in [Drivers -> DriverRecord]
    OBVIOUS
  <1>2. driver'[d] = r /\ \A e \in Drivers : e # d => driver'[e] = driver[e]
    OBVIOUS
  <1>3. ItemInRange'
    BY <1>2 DEF ItemInRange
  <1>4. RunInRange'
    <2> SUFFICES ASSUME NEW e \in Drivers, driver'[e].pc \in OnRun
                 PROVE  /\ driver'[e].run \in 1..Len(runs')
                        /\ runs'[driver'[e].run].item = driver'[e].i
      BY DEF RunInRange
    <2>1. CASE e = d
      BY <1>2, <2>1
    <2>2. CASE e # d
      <3>1. driver'[e] = driver[e]
        BY <1>2, <2>2
      <3>2. driver[e].run \in 1..Len(runs) /\ runs[driver[e].run].item = driver[e].i
        BY <3>1 DEF RunInRange
      <3>3. QED
        BY <3>1, <3>2 DEF RunsKept
    <2>3. QED
      BY <2>1, <2>2
  <1>5. QED
    BY <1>1, <1>3, <1>4

LEMMA RunsUnchanged == TypeOK /\ UNCHANGED runs => RunsKept
  BY LenProperties DEF TypeOK, RunsKept

LEMMA NothingMoves ==
    ASSUME TypeInv, UNCHANGED <<driver, runs>>
    PROVE  driver' \in [Drivers -> DriverRecord] /\ ItemInRange' /\ RunInRange'
  BY DEF TypeInv, TypeOK, ItemInRange, RunInRange

\* The records the driver's actions leave behind.

LEMMA AdvancedType ==
    ASSUME NEW d \in Drivers, driver[d].i \in Items, NEW b \in BatchRecord
    PROVE  Advanced(d, b) \in DriverRecord
  BY BatchAssumption DEF Advanced, DriverRecord, DriverPC, Items

WithBatch(r, pc, b) == [r EXCEPT !.pc = pc, !.batch = b]

LEMMA PcBatchType ==
    ASSUME NEW r \in DriverRecord, NEW b \in BatchRecord, NEW pc \in DriverPC
    PROVE  /\ WithBatch(r, pc, b) \in DriverRecord
           /\ WithBatch(r, pc, b).pc = pc /\ WithBatch(r, pc, b).batch = b
           /\ WithBatch(r, pc, b).i = r.i /\ WithBatch(r, pc, b).run = r.run
  BY DEF DriverRecord, WithBatch

LEMMA PcType ==
    ASSUME NEW r \in DriverRecord, NEW pc \in DriverPC
    PROVE  LET s == [r EXCEPT !.pc = pc]
           IN  /\ s \in DriverRecord
               /\ s.pc = pc /\ s.batch = r.batch /\ s.i = r.i /\ s.run = r.run
  BY DEF DriverRecord

LEMMA TypeNext == TypeInv /\ [Next]_vars => TypeInv'
  <1> SUFFICES ASSUME TypeInv, [Next]_vars PROVE TypeInv'
    OBVIOUS
  <1> USE DEF TypeInv
  <1>a. ASSUME NEW d \in Drivers
        PROVE  /\ driver[d] \in DriverRecord /\ driver[d].batch \in BatchRecord
               /\ driver[d].run \in Nat /\ driver[d].i \in 1..(N+1) /\ driver[d].pc \in DriverPC
    BY <1>a DEF TypeOK, DriverRecord
  <1>b. ASSUME NEW q \in Requests
        PROVE  /\ request[q] \in RequestRecord /\ request[q].batch \in BatchRecord
    BY <1>b DEF TypeOK, RequestRecord
  <1>c. \A pc \in OnRun : pc \in OnItem /\ pc \in DriverPC
    BY DEF OnRun, OnItem, DriverPC
  <1>1. ASSUME NEW d \in Drivers, Register(d) PROVE TypeInv'
    <2> DEFINE r == [driver[d] EXCEPT !.pc = "registered"]
    <2>1. r \in DriverRecord /\ r.pc = "registered" /\ r.i = driver[d].i /\ r.run = driver[d].run
      <3>1. "registered" \in DriverPC
        BY DEF DriverPC
      <3>2. QED
        BY <1>a, <3>1, PcType
    <2>2. Moves(d, r) /\ RunsKept
      BY <1>1, RunsUnchanged DEF Register, Moves
    <2>3. driver' \in [Drivers -> DriverRecord] /\ ItemInRange' /\ RunInRange'
      <3> HIDE DEF r
      <3> QED
        BY <1>a, <1>1, <2>1, <2>2, OneMoves, BatchAssumption DEF Register, OnItem, OnRun, Items
    <2>4. QED
      BY <1>1, <2>3 DEF Register, TypeOK
  <1>2. ASSUME NEW d \in Drivers, MarkRunning(d) PROVE TypeInv'
    <2> DEFINE b == [driver[d].batch EXCEPT !.status = "running"]
               r == WithBatch(driver[d], "loop", b)
    <2>1. b \in BatchRecord
      BY <1>a DEF BatchRecord, BatchStatus
    <2>2. r \in DriverRecord /\ r.pc = "loop" /\ r.i = driver[d].i /\ r.run = driver[d].run
      <3> HIDE DEF b
      <3>1. "loop" \in DriverPC
        BY DEF DriverPC
      <3>2. QED
        BY <1>a, <2>1, <3>1, PcBatchType
    <2>3. Moves(d, r) /\ Persist(b) /\ RunsKept
      BY <1>2, RunsUnchanged DEF MarkRunning, Moves, WithBatch
    <2>4. r.pc \in OnItem => r.i \in Items
      BY <1>2, <2>2 DEF MarkRunning, ItemInRange, OnItem
    <2>5. r.pc \in OnRun => r.run \in 1..Len(runs') /\ runs'[r.run].item = r.i
      BY <1>2, <2>2 DEF MarkRunning, RunInRange, OnRun
    <2>6. driver' \in [Drivers -> DriverRecord] /\ ItemInRange' /\ RunInRange'
      <3> HIDE DEF r
      <3> QED
        BY <2>2, <2>3, <2>4, <2>5, OneMoves
    <2>7. file' \in BatchRecord /\ faults' \in Nat
      <3> HIDE DEF b
      <3> QED
        BY <2>1, <2>3, PersistFacts DEF TypeOK
    <2>8. QED
      BY <1>2, <2>6, <2>7 DEF MarkRunning, TypeOK
  <1>3. ASSUME NEW d \in Drivers, SkipCompleted(d) PROVE TypeInv'
    <2> DEFINE r == [driver[d] EXCEPT !.i = driver[d].i + 1]
    <2>1. driver[d].i + 1 \in 1..(N+1)
      BY <1>3, <1>a, BatchAssumption DEF SkipCompleted
    <2>2. r \in DriverRecord /\ r.pc = "loop"
      BY <1>3, <1>a, <2>1 DEF DriverRecord, SkipCompleted
    <2>3. Moves(d, r) /\ RunsKept
      BY <1>3, RunsUnchanged DEF SkipCompleted, Moves
    <2>4. driver' \in [Drivers -> DriverRecord] /\ ItemInRange' /\ RunInRange'
      <3> HIDE DEF r
      <3> QED
        BY <2>2, <2>3, OneMoves DEF OnItem, OnRun
    <2>5. QED
      BY <1>3, <2>4 DEF SkipCompleted, TypeOK
  <1>4. ASSUME NEW d \in Drivers, TakeItem(d) PROVE TypeInv'
    <2> DEFINE r == [driver[d] EXCEPT !.pc = "item"]
    <2>1. r \in DriverRecord /\ r.pc = "item" /\ r.i = driver[d].i /\ r.run = driver[d].run
      <3>1. "item" \in DriverPC
        BY DEF DriverPC
      <3>2. QED
        BY <1>a, <3>1, PcType
    <2>2. Moves(d, r) /\ RunsKept
      BY <1>4, RunsUnchanged DEF TakeItem, Moves
    <2>3. driver' \in [Drivers -> DriverRecord] /\ ItemInRange' /\ RunInRange'
      <3> HIDE DEF r
      <3> QED
        BY <1>a, <1>4, <2>1, <2>2, OneMoves, BatchAssumption DEF TakeItem, OnItem, OnRun, Items
    <2>4. QED
      BY <1>4, <2>3 DEF TakeItem, TypeOK
  <1>5. ASSUME NEW d \in Drivers, RefuseItem(d) PROVE TypeInv'
    <2> DEFINE b == SetItem(driver[d].batch, driver[d].i, "failed", 0)
    <2>1. b \in BatchRecord
      BY <1>5, <1>a, SetItemFacts DEF RefuseItem, ItemInRange, OnItem, ItemStatus
    <2>2. driver[d].i \in Items
      BY <1>5 DEF RefuseItem, ItemInRange, OnItem
    <2>3. Moves(d, Advanced(d, b)) /\ Persist(b) /\ RunsKept
      BY <1>5, RunsUnchanged DEF RefuseItem, Moves, Advanced
    <2> HIDE DEF b
    <2>4. driver' \in [Drivers -> DriverRecord] /\ ItemInRange' /\ RunInRange'
      <3>1. Advanced(d, b) \in DriverRecord /\ Advanced(d, b).pc \notin OnItem \cup OnRun
        BY <2>1, <2>2, AdvancedType DEF Advanced, OnItem, OnRun
      <3>2. QED
        BY <2>3, <3>1, OneMoves
    <2>5. file' \in BatchRecord /\ faults' \in Nat
      BY <2>1, <2>3, PersistFacts DEF TypeOK
    <2>6. QED
      BY <1>5, <2>4, <2>5 DEF RefuseItem, TypeOK
  <1>6. ASSUME NEW d \in Drivers, PrepareRun(d) PROVE TypeInv'
    <2> DEFINE r == [driver[d] EXCEPT !.pc = "prepared", !.run = Len(runs) + 1]
               new == [item |-> driver[d].i, status |-> "queued"]
    <2>1. driver[d].i \in Items
      BY <1>6 DEF PrepareRun, ItemInRange, OnItem
    <2>2. new \in RunRecord /\ new.item = driver[d].i
      BY <2>1 DEF RunRecord, RunStatus
    <2>3. /\ runs' \in Seq(RunRecord) /\ Len(runs) \in Nat /\ Len(runs') = Len(runs) + 1
          /\ \A k \in 1..Len(runs) : runs'[k] = runs[k]
          /\ runs'[Len(runs')] = new
      <3> HIDE DEF new
      <3>1. runs' = Append(runs, new)
        BY <1>6 DEF PrepareRun, new
      <3>2. QED
        BY <2>2, <3>1, AppendRunFacts DEF TypeOK
    <2>4. RunsKept
      BY <2>3 DEF RunsKept
    <2>5. r \in DriverRecord /\ r.pc = "prepared" /\ r.run = Len(runs') /\ r.i = driver[d].i
      <3>1. Len(runs) + 1 \in Nat /\ Len(runs) + 1 = Len(runs')
        BY <2>3
      <3>2. "prepared" \in DriverPC
        BY DEF DriverPC
      <3> HIDE DEF new
      <3>3. QED
        BY <1>a, <3>1, <3>2 DEF DriverRecord
    <2>6. Moves(d, r)
      BY <1>6 DEF PrepareRun, Moves
    <2>7. driver' \in [Drivers -> DriverRecord] /\ ItemInRange' /\ RunInRange'
      <3> HIDE DEF r, new
      <3> QED
        BY <2>1, <2>2, <2>3, <2>4, <2>5, <2>6, OneMoves
    <2>8. QED
      BY <1>6, <2>3, <2>7 DEF PrepareRun, TypeOK
  <1>7. ASSUME NEW d \in Drivers, MarkItemRunning(d) PROVE TypeInv'
    <2> DEFINE b == SetItem(driver[d].batch, driver[d].i, "running", driver[d].run)
               r == WithBatch(driver[d], "execute", b)
    <2>1. b \in BatchRecord
      BY <1>7, <1>a, SetItemFacts DEF MarkItemRunning, ItemInRange, OnItem, ItemStatus
    <2>2. r \in DriverRecord /\ r.pc = "execute" /\ r.i = driver[d].i /\ r.run = driver[d].run
      <3> HIDE DEF b
      <3>1. "execute" \in DriverPC
        BY DEF DriverPC
      <3>2. QED
        BY <1>a, <2>1, <3>1, PcBatchType
    <2>3. Moves(d, r) /\ Persist(b) /\ RunsKept
      BY <1>7, RunsUnchanged DEF MarkItemRunning, Moves, WithBatch
    <2>4. r.pc \in OnItem => r.i \in Items
      BY <1>7, <2>2 DEF MarkItemRunning, ItemInRange, OnItem
    <2>5. r.pc \in OnRun => r.run \in 1..Len(runs') /\ runs'[r.run].item = r.i
      BY <1>7, <2>2 DEF MarkItemRunning, RunInRange, OnRun
    <2>6. driver' \in [Drivers -> DriverRecord] /\ ItemInRange' /\ RunInRange'
      <3> HIDE DEF r
      <3> QED
        BY <2>2, <2>3, <2>4, <2>5, OneMoves
    <2>7. file' \in BatchRecord /\ faults' \in Nat
      <3> HIDE DEF b
      <3> QED
        BY <2>1, <2>3, PersistFacts DEF TypeOK
    <2>8. QED
      BY <1>7, <2>6, <2>7 DEF MarkItemRunning, TypeOK
  <1>8. ASSUME NEW d \in Drivers, StartRun(d) PROVE TypeInv'
    <2> DEFINE r == [driver[d] EXCEPT !.pc = "executing"]
    <2>1. r \in DriverRecord /\ r.pc = "executing" /\ r.i = driver[d].i /\ r.run = driver[d].run
      <3>1. "executing" \in DriverPC
        BY DEF DriverPC
      <3>2. QED
        BY <1>a, <3>1, PcType
    <2>2. /\ driver[d].i \in Items /\ driver[d].run \in 1..Len(runs)
          /\ runs[driver[d].run].item = driver[d].i
      BY <1>8 DEF StartRun, ItemInRange, RunInRange, OnItem, OnRun
    <2>3. PICK status \in RunStatus : PersistRun(driver[d].run, status)
      BY <1>8 DEF StartRun, RunStatus
    <2>4. /\ RunsKept /\ runs' \in Seq(RunRecord) /\ faults' \in Nat
          /\ driver[d].run \in 1..Len(runs') /\ runs'[driver[d].run].item = driver[d].i
      BY <2>2, <2>3, PersistRunFacts, LenProperties DEF RunsKept, TypeOK
    <2>5. Moves(d, r)
      BY <1>8 DEF StartRun, Moves
    <2>6. driver' \in [Drivers -> DriverRecord] /\ ItemInRange' /\ RunInRange'
      <3> HIDE DEF r
      <3> QED
        BY <2>1, <2>2, <2>4, <2>5, OneMoves
    <2>7. QED
      BY <1>8, <2>4, <2>6 DEF StartRun, TypeOK
  <1>9. ASSUME NEW d \in Drivers, EndRun(d) PROVE TypeInv'
    <2> DEFINE r == [driver[d] EXCEPT !.pc = "readback"]
    <2>1. r \in DriverRecord /\ r.pc = "readback" /\ r.i = driver[d].i /\ r.run = driver[d].run
      <3>1. "readback" \in DriverPC
        BY DEF DriverPC
      <3>2. QED
        BY <1>a, <3>1, PcType
    <2>2. /\ driver[d].i \in Items /\ driver[d].run \in 1..Len(runs)
          /\ runs[driver[d].run].item = driver[d].i
      BY <1>9 DEF EndRun, ItemInRange, RunInRange, OnItem, OnRun
    <2>3. PICK status \in RunStatus : PersistRun(driver[d].run, status)
      BY <1>9 DEF EndRun, RunStatus, RunOutcome
    <2>4. /\ RunsKept /\ runs' \in Seq(RunRecord) /\ faults' \in Nat
          /\ driver[d].run \in 1..Len(runs') /\ runs'[driver[d].run].item = driver[d].i
      BY <2>2, <2>3, PersistRunFacts, LenProperties DEF RunsKept, TypeOK
    <2>5. Moves(d, r)
      BY <1>9 DEF EndRun, Moves
    <2>6. driver' \in [Drivers -> DriverRecord] /\ ItemInRange' /\ RunInRange'
      <3> HIDE DEF r
      <3> QED
        BY <2>1, <2>2, <2>4, <2>5, OneMoves
    <2>7. QED
      BY <1>9, <2>4, <2>6 DEF EndRun, TypeOK
  <1>10. ASSUME NEW d \in Drivers, SettleItem(d) PROVE TypeInv'
    <2>0. PICK status \in ReadBack(driver[d].run) :
             LET b == SetItem(driver[d].batch, driver[d].i, status, driver[d].run) IN
             driver' = [driver EXCEPT ![d] = Advanced(d, b)] /\ Persist(b)
      BY <1>10 DEF SettleItem
    <2> DEFINE b == SetItem(driver[d].batch, driver[d].i, status, driver[d].run)
    <2>1. b \in BatchRecord
      <3>1. driver[d].i \in Items /\ driver[d].run \in 1..Len(runs)
        BY <1>10 DEF SettleItem, ItemInRange, RunInRange, OnItem, OnRun
      <3>2. runs[driver[d].run] \in RunRecord
        BY <3>1, ElementOfSeq DEF TypeOK
      <3>3. status \in ItemStatus
        BY <2>0, <3>2 DEF ReadBack, RunRecord, RunStatus, ItemStatus
      <3>4. QED
        BY <1>a, <3>1, <3>3, SetItemFacts
    <2>2. driver[d].i \in Items
      BY <1>10 DEF SettleItem, ItemInRange, OnItem
    <2>3. Moves(d, Advanced(d, b)) /\ Persist(b) /\ RunsKept
      BY <1>10, <2>0, RunsUnchanged DEF SettleItem, Moves
    <2> HIDE DEF b
    <2>4. driver' \in [Drivers -> DriverRecord] /\ ItemInRange' /\ RunInRange'
      <3>1. Advanced(d, b) \in DriverRecord /\ Advanced(d, b).pc \notin OnItem \cup OnRun
        BY <2>1, <2>2, AdvancedType DEF Advanced, OnItem, OnRun
      <3>2. QED
        BY <2>3, <3>1, OneMoves
    <2>5. file' \in BatchRecord /\ faults' \in Nat
      BY <2>1, <2>3, PersistFacts DEF TypeOK
    <2>6. QED
      BY <1>10, <2>4, <2>5 DEF SettleItem, TypeOK
  <1>11. ASSUME NEW d \in Drivers, Finish(d) PROVE TypeInv'
    <2> DEFINE b == Verdict(driver[d].batch, d \in ctxDone)
               r == WithBatch(driver[d], "leaving", b)
    <2>1. b \in BatchRecord
      <3>1. (d \in ctxDone) \in BOOLEAN
        OBVIOUS
      <3>2. QED
        BY <1>a, <3>1, VerdictFacts
    <2>2. r \in DriverRecord /\ r.pc = "leaving" /\ r.i = driver[d].i /\ r.run = driver[d].run
      <3> HIDE DEF b
      <3>1. "leaving" \in DriverPC
        BY DEF DriverPC
      <3>2. QED
        BY <1>a, <2>1, <3>1, PcBatchType
    <2>3. Moves(d, r) /\ Persist(b) /\ RunsKept
      BY <1>11, RunsUnchanged DEF Finish, Moves, WithBatch
    <2>4. r.pc \in OnItem => r.i \in Items
      BY <1>11, <2>2 DEF Finish, ItemInRange, OnItem
    <2>5. r.pc \in OnRun => r.run \in 1..Len(runs') /\ runs'[r.run].item = r.i
      BY <1>11, <2>2 DEF Finish, RunInRange, OnRun
    <2>6. driver' \in [Drivers -> DriverRecord] /\ ItemInRange' /\ RunInRange'
      <3> HIDE DEF r
      <3> QED
        BY <2>2, <2>3, <2>4, <2>5, OneMoves
    <2>7. file' \in BatchRecord /\ faults' \in Nat
      <3> HIDE DEF b
      <3> QED
        BY <2>1, <2>3, PersistFacts DEF TypeOK
    <2>8. QED
      BY <1>11, <2>6, <2>7 DEF Finish, TypeOK
  <1>12. ASSUME NEW d \in Drivers, Leave(d) PROVE TypeInv'
    <2>1. Moves(d, IdleDriver) /\ RunsKept
      BY <1>12, RunsUnchanged DEF Leave, Moves
    <2>2. IdleDriver \in DriverRecord /\ IdleDriver.pc \notin OnItem \cup OnRun
      BY IdleTypes DEF IdleDriver, OnItem, OnRun
    <2>3. driver' \in [Drivers -> DriverRecord] /\ ItemInRange' /\ RunInRange'
      BY <2>1, <2>2, OneMoves
    <2>4. QED
      BY <1>12, <2>3 DEF Leave, TypeOK
  <1>13. ASSUME NEW q \in Requests, CreateBatch(q) PROVE TypeInv'
    <2> DEFINE b == [NoBatch EXCEPT !.status = "queued"]
    <2>1. b \in BatchRecord
      BY NoBatchType DEF BatchRecord, BatchStatus
    <2>2. [pc |-> "spawn", kind |-> "create", batch |-> b] \in RequestRecord
      BY <2>1 DEF RequestRecord, RequestPC
    <2> HIDE DEF b
    <2>3. file' \in BatchRecord /\ faults' \in Nat
      BY <1>13, <2>1, SMTT(30) DEF CreateBatch, TypeOK, b
    <2>4. request' \in [Requests -> RequestRecord]
      BY <1>13, <2>2 DEF CreateBatch, TypeOK, b
    <2>5. QED
      BY <1>13, <2>3, <2>4, NothingMoves DEF CreateBatch, TypeOK
  <1>14. ASSUME NEW q \in Requests, NEW kind \in {"retry", "restart", "cancel"}, ReadBatch(q, kind)
         PROVE TypeInv'
    <2>1. request' \in [Requests -> RequestRecord]
      BY <1>14 DEF ReadBatch, TypeOK, RequestRecord, RequestPC
    <2>2. QED
      BY <1>14, <2>1, NothingMoves DEF ReadBatch, TypeOK
  <1>15. ASSUME NEW q \in Requests, CheckNotRunning(q) PROVE TypeInv'
    <2> DEFINE b == Reset(request[q].batch, request[q].kind = "restart")
    <2>1. b \in BatchRecord
      <3>1. (request[q].kind = "restart") \in BOOLEAN
        OBVIOUS
      <3>2. QED
        BY <1>b, <3>1, ResetFacts
    <2>2. [request[q] EXCEPT !.pc = "save", !.batch = b] \in RequestRecord
      <3> HIDE DEF b
      <3> QED
        BY <1>b, <2>1 DEF RequestRecord, RequestPC
    <2>3. request' \in [Requests -> RequestRecord]
      BY <1>15, <2>2, IdleTypes DEF CheckNotRunning, TypeOK
    <2>4. QED
      BY <1>15, <2>3, NothingMoves DEF CheckNotRunning, TypeOK
  <1>16. ASSUME NEW q \in Requests, SaveRetry(q) PROVE TypeInv'
    <2>1. request' \in [Requests -> RequestRecord]
      BY <1>16, IdleTypes DEF SaveRetry, TypeOK, RequestRecord, RequestPC
    <2>2. file' \in BatchRecord /\ faults' \in Nat
      BY <1>16, <1>b DEF SaveRetry, TypeOK
    <2>3. raced' \in BOOLEAN
      BY <1>16, Zenon DEF SaveRetry, TypeOK
    <2>4. QED
      BY <1>16, <2>1, <2>2, <2>3, NothingMoves DEF SaveRetry, TypeOK
  <1>17. ASSUME NEW q \in Requests, NEW d \in Drivers, Spawn(q, d) PROVE TypeInv'
    <2> DEFINE r == WithBatch(IdleDriver, "spawned", request[q].batch)
    <2>1. r \in DriverRecord /\ r.pc = "spawned"
      <3>1. "spawned" \in DriverPC
        BY DEF DriverPC
      <3>2. QED
        BY <1>b, <3>1, IdleTypes, PcBatchType
    <2>2. Moves(d, r) /\ RunsKept
      BY <1>17, RunsUnchanged DEF Spawn, Moves, WithBatch
    <2>3. driver' \in [Drivers -> DriverRecord] /\ ItemInRange' /\ RunInRange'
      <3> HIDE DEF r
      <3> QED
        BY <2>1, <2>2, OneMoves DEF OnItem, OnRun
    <2>4. request' \in [Requests -> RequestRecord]
      BY <1>17, IdleTypes DEF Spawn, TypeOK
    <2>5. QED
      BY <1>17, <2>3, <2>4 DEF Spawn, TypeOK
  <1>18. ASSUME NEW q \in Requests, LookupStop(q) PROVE TypeInv'
    <2> DEFINE b == CancelWaiting(request[q].batch)
    <2>1. b \in BatchRecord
      BY <1>b, CancelWaitingFacts
    <2>2. [request[q] EXCEPT !.pc = "settle", !.batch = b] \in RequestRecord
      <3> HIDE DEF b
      <3> QED
        BY <1>b, <2>1 DEF RequestRecord, RequestPC
    <2>3. request' \in [Requests -> RequestRecord]
      BY <1>18, <2>2, IdleTypes DEF LookupStop, TypeOK
    <2>4. ctxDone' \subseteq Drivers
      BY <1>18 DEF LookupStop, TypeOK
    <2>5. QED
      BY <1>18, <2>3, <2>4, NothingMoves DEF LookupStop, TypeOK
  <1>19. ASSUME NEW q \in Requests, SettleCancel(q) PROVE TypeInv'
    <2>1. request' \in [Requests -> RequestRecord]
      BY <1>19, IdleTypes DEF SettleCancel, TypeOK
    <2>2. file' \in BatchRecord /\ faults' \in Nat
      BY <1>19, <1>b DEF SettleCancel, TypeOK
    <2>3. raced' \in BOOLEAN
      BY <1>19, Zenon DEF SettleCancel, TypeOK
    <2>4. QED
      BY <1>19, <2>1, <2>2, <2>3, NothingMoves DEF SettleCancel, TypeOK
  <1>20. CASE Stop
    <2>1. driver' \in [Drivers -> DriverRecord] /\ request' \in [Requests -> RequestRecord]
      BY <1>20, IdleTypes DEF Stop
    <2>2. ItemInRange' /\ RunInRange'
      BY <1>20 DEF Stop, ItemInRange, RunInRange, OnItem, OnRun, IdleDriver
    <2>3. QED
      BY <1>20, <2>1, <2>2 DEF Stop, TypeOK
  <1>21. CASE UNCHANGED vars
    BY <1>21 DEF vars, TypeOK, ItemInRange, RunInRange
  <1>22. QED
    BY <1>1, <1>2, <1>3, <1>4, <1>5, <1>6, <1>7, <1>8, <1>9, <1>10, <1>11, <1>12, <1>13,
       <1>14, <1>15, <1>16, <1>17, <1>18, <1>19, <1>20, <1>21
       DEF Next, DriverStep, Ask, Serve

\* Every variable keeps its type: what TLC checks on a small instance, for
\* every number of items, drivers and requests.
THEOREM TypeCorrect == Spec => []TypeOK
  <1>1. Spec => []TypeInv
    BY TypeInit, TypeNext, PTL DEF Spec
  <1>2. TypeInv => TypeOK
    BY DEF TypeInv
  <1>3. QED
    BY <1>1, <1>2, PTL

----------------------------------------------------------------------------
(* A completed item names a completed run of its own.  The file only ever  *)
(* holds copies, so the claim is carried for every copy there is; a run    *)
(* that is completed is never written again because no two drivers share a *)
(* run and a driver writes its run only before it is completed.            *)

OpenRun == {"prepared", "execute", "executing"}

RunsDistinct ==
    \A d, e \in Drivers : d # e /\ driver[d].pc \in OnRun /\ driver[e].pc \in OnRun =>
        driver[d].run # driver[e].run

OpenRunsOpen ==
    \A d \in Drivers : driver[d].pc \in OpenRun => runs[driver[d].run].status # "completed"

DriverClaims  == \A d \in Drivers : ItemsProven(runs, driver[d].batch)
RequestClaims == \A q \in Requests : ItemsProven(runs, request[q].batch)

ClaimInv ==
    /\ RunsDistinct /\ OpenRunsOpen
    /\ CompletedItemHasRun /\ DriverClaims /\ RequestClaims

\* A record whose completed items are those of a proven one is proven.
LEMMA ProvenSubset ==
    ASSUME NEW files, NEW b, NEW c, ItemsProven(files, b),
           \A j \in Items : c.items[j].status = "completed" => c.items[j] = b.items[j]
    PROVE  ItemsProven(files, c)
  BY DEF ItemsProven

\* What no longer changes stays proven.
CompletedKept ==
    \A k \in 1..Len(runs) : runs[k].status = "completed" =>
        k \in DOMAIN runs' /\ runs'[k] = runs[k]

LEMMA ProvenKept ==
    ASSUME TypeInv, CompletedKept, NEW b, ItemsProven(runs, b)
    PROVE  ItemsProven(runs', b)
  <1>1. DOMAIN runs = 1..Len(runs)
    BY LenProperties DEF TypeInv, TypeOK
  <1>2. SUFFICES ASSUME NEW i \in Items, b.items[i].status = "completed"
                 PROVE  /\ b.items[i].execution \in DOMAIN runs'
                        /\ runs'[b.items[i].execution] = [item |-> i, status |-> "completed"]
    BY DEF ItemsProven
  <1>3. /\ b.items[i].execution \in 1..Len(runs)
        /\ runs[b.items[i].execution] = [item |-> i, status |-> "completed"]
    BY <1>1, <1>2 DEF ItemsProven
  <1>4. QED
    BY <1>3 DEF CompletedKept

LEMMA IdleProven ==
    ASSUME NEW files
    PROVE  /\ ItemsProven(files, NoBatch)
           /\ ItemsProven(files, [NoBatch EXCEPT !.status = "queued"])
           /\ ItemsProven(files, IdleDriver.batch)
           /\ ItemsProven(files, IdleRequest.batch)
  BY DEF ItemsProven, NoBatch, Waiting, IdleDriver, IdleRequest

\* The items as a record with another status.
LEMMA StatusProven ==
    ASSUME NEW files, NEW b \in BatchRecord, NEW s \in BatchStatus, ItemsProven(files, b)
    PROVE  ItemsProven(files, [b EXCEPT !.status = s])
  BY DEF ItemsProven, BatchRecord

LEMMA ClaimInit == Init => ClaimInv
  <1> SUFFICES ASSUME Init PROVE ClaimInv
    OBVIOUS
  <1>1. RunsDistinct /\ OpenRunsOpen
    BY DEF Init, RunsDistinct, OpenRunsOpen, OnRun, OpenRun, IdleDriver
  <1>2. CompletedItemHasRun /\ DriverClaims /\ RequestClaims
    BY IdleProven DEF Init, CompletedItemHasRun, DriverClaims, RequestClaims
  <1>3. QED
    BY <1>1, <1>2 DEF ClaimInv

\* One driver moves to r: what has to hold of r for every claim to survive.
LEMMA OneClaims ==
    ASSUME TypeInv, ClaimInv, NEW d \in Drivers, NEW r \in DriverRecord, Moves(d, r),
           CompletedKept,
           \A e \in Drivers \ {d} : driver[e].pc \in OnRun =>
               /\ runs'[driver[e].run] = runs[driver[e].run]
               /\ r.pc \in OnRun => driver[e].run # r.run,
           r.pc \in OpenRun => runs'[r.run].status # "completed",
           ItemsProven(runs', r.batch),
           file' \in {file, r.batch},
           \A q \in Requests : ItemsProven(runs', request'[q].batch)
    PROVE  ClaimInv'
  <1>1. driver'[d] = r /\ \A e \in Drivers \ {d} : driver'[e] = driver[e]
    BY DEF Moves, TypeInv, TypeOK
  <1>2. \A pc \in OpenRun : pc \in OnRun
    BY DEF OpenRun, OnRun
  <1>3. RunsDistinct'
    BY <1>1 DEF RunsDistinct, ClaimInv
  <1>4. OpenRunsOpen'
    BY <1>1, <1>2 DEF OpenRunsOpen, ClaimInv
  <1>5. CompletedItemHasRun'
    BY ProvenKept DEF CompletedItemHasRun, ClaimInv
  <1>6. DriverClaims'
    BY <1>1, ProvenKept DEF DriverClaims, ClaimInv
  <1>7. QED
    BY <1>3, <1>4, <1>5, <1>6 DEF ClaimInv, RequestClaims

LEMMA RunsStill == TypeInv /\ UNCHANGED runs => CompletedKept
  BY LenProperties DEF TypeInv, TypeOK, CompletedKept

\* The case of a step that leaves the runs and the requests alone.
LEMMA OneClaimsStill ==
    ASSUME TypeInv, ClaimInv, NEW d \in Drivers, NEW r \in DriverRecord, Moves(d, r),
           UNCHANGED <<runs, request>>,
           r.pc \in OnRun => driver[d].pc \in OnRun /\ r.run = driver[d].run,
           r.pc \in OpenRun => driver[d].pc \in OpenRun /\ r.run = driver[d].run,
           ItemsProven(runs, r.batch),
           file' \in {file, r.batch}
    PROVE  ClaimInv'
  <1>1. CompletedKept
    BY RunsStill
  <1>2. \A e \in Drivers \ {d} : driver[e].pc \in OnRun =>
            /\ runs'[driver[e].run] = runs[driver[e].run]
            /\ r.pc \in OnRun => driver[e].run # r.run
    BY DEF ClaimInv, RunsDistinct
  <1>3. r.pc \in OpenRun => runs'[r.run].status # "completed"
    BY DEF ClaimInv, OpenRunsOpen
  <1>4. ItemsProven(runs', r.batch) /\ \A q \in Requests : ItemsProven(runs', request'[q].batch)
    BY DEF ClaimInv, RequestClaims
  <1>5. QED
    BY <1>1, <1>2, <1>3, <1>4, OneClaims

\* The case of a step that moves no driver and no run.
LEMMA NoDriverClaims ==
    ASSUME TypeInv, ClaimInv, UNCHANGED <<driver, runs>>, ItemsProven(runs, file'),
           \A q \in Requests : ItemsProven(runs, request'[q].batch)
    PROVE  ClaimInv'
  BY DEF ClaimInv, RunsDistinct, OpenRunsOpen, CompletedItemHasRun, DriverClaims, RequestClaims

LEMMA ClaimNext == TypeInv /\ ClaimInv /\ [Next]_vars => ClaimInv'
  <1> SUFFICES ASSUME TypeInv, ClaimInv, [Next]_vars PROVE ClaimInv'
    OBVIOUS
  <1>a. ASSUME NEW d \in Drivers
        PROVE  /\ driver[d] \in DriverRecord /\ driver[d].batch \in BatchRecord
               /\ driver[d].run \in Nat /\ ItemsProven(runs, driver[d].batch)
    BY <1>a DEF TypeInv, TypeOK, DriverRecord, ClaimInv, DriverClaims
  <1>b. ASSUME NEW q \in Requests
        PROVE  request[q].batch \in BatchRecord /\ ItemsProven(runs, request[q].batch)
    BY <1>b DEF TypeInv, TypeOK, RequestRecord, ClaimInv, RequestClaims
  <1>c. file \in BatchRecord /\ ItemsProven(runs, file)
    BY DEF TypeInv, TypeOK, ClaimInv, CompletedItemHasRun
  <1>1. ASSUME NEW d \in Drivers, Register(d) PROVE ClaimInv'
    <2> DEFINE r == [driver[d] EXCEPT !.pc = "registered"]
    <2>1. /\ r \in DriverRecord /\ r.pc = "registered" /\ r.batch = driver[d].batch
          /\ r.run = driver[d].run
      <3>1. "registered" \in DriverPC
        BY DEF DriverPC
      <3>2. QED
        BY <1>a, <3>1, PcType
    <2>2. Moves(d, r) /\ UNCHANGED <<file, runs, request>>
      BY <1>1 DEF Register, Moves
    <2> HIDE DEF r
    <2>3. QED
      BY <1>a, <2>1, <2>2, OneClaimsStill DEF OnRun, OpenRun
  <1>2. ASSUME NEW d \in Drivers, MarkRunning(d) PROVE ClaimInv'
    <2> DEFINE b == [driver[d].batch EXCEPT !.status = "running"]
               r == WithBatch(driver[d], "loop", b)
    <2>1. b \in BatchRecord /\ ItemsProven(runs, b)
      BY <1>a, StatusProven DEF BatchRecord, BatchStatus
    <2>2. Moves(d, r) /\ Persist(b) /\ UNCHANGED <<runs, request>>
      BY <1>2 DEF MarkRunning, Moves, WithBatch
    <2>3. driver[d].pc \in OpenRun \/ "loop" \notin OnRun
      BY <1>2 DEF MarkRunning, OpenRun, OnRun
    <2> HIDE DEF b
    <2>4. /\ r \in DriverRecord /\ r.pc = "loop" /\ r.batch = b
          /\ r.run = driver[d].run
      <3>1. "loop" \in DriverPC
        BY DEF DriverPC
      <3>2. QED
        BY <1>a, <2>1, <3>1, PcBatchType
    <2>5. file' \in {file, b}
      BY <2>2 DEF Persist
    <2> HIDE DEF r
    <2>6. QED
      BY <2>1, <2>2, <2>3, <2>4, <2>5, OneClaimsStill DEF OnRun, OpenRun
  <1>3. ASSUME NEW d \in Drivers, SkipCompleted(d) PROVE ClaimInv'
    <2> DEFINE r == [driver[d] EXCEPT !.i = driver[d].i + 1]
    <2>1. r.pc = "loop" /\ r.batch = driver[d].batch
      BY <1>3, <1>a DEF SkipCompleted, DriverRecord
    <2>2. Moves(d, r) /\ UNCHANGED <<file, runs, request>>
      BY <1>3 DEF SkipCompleted, Moves
    <2>3. r \in DriverRecord
      <3>1. driver[d].i + 1 \in 1..(N+1)
        BY <1>3, BatchAssumption DEF SkipCompleted, TypeInv, TypeOK, DriverRecord
      <3>2. QED
        BY <1>a, <3>1 DEF DriverRecord
    <2> HIDE DEF r
    <2>4. QED
      BY <1>a, <2>1, <2>2, <2>3, OneClaimsStill DEF OnRun, OpenRun
  <1>4. ASSUME NEW d \in Drivers, TakeItem(d) PROVE ClaimInv'
    <2> DEFINE r == [driver[d] EXCEPT !.pc = "item"]
    <2>1. /\ r \in DriverRecord /\ r.pc = "item" /\ r.batch = driver[d].batch
          /\ r.run = driver[d].run
      <3>1. "item" \in DriverPC
        BY DEF DriverPC
      <3>2. QED
        BY <1>a, <3>1, PcType
    <2>2. Moves(d, r) /\ UNCHANGED <<file, runs, request>>
      BY <1>4 DEF TakeItem, Moves
    <2> HIDE DEF r
    <2>3. QED
      BY <1>a, <2>1, <2>2, OneClaimsStill DEF OnRun, OpenRun
  <1>5. ASSUME NEW d \in Drivers, RefuseItem(d) PROVE ClaimInv'
    <2> DEFINE b == SetItem(driver[d].batch, driver[d].i, "failed", 0)
    <2>1. b \in BatchRecord /\ ItemsProven(runs, b)
      <3>1. driver[d].i \in Items /\ "failed" \in ItemStatus /\ 0 \in Nat
        BY <1>5 DEF RefuseItem, TypeInv, ItemInRange, OnItem, ItemStatus
      <3>2. /\ b \in BatchRecord /\ b.items[driver[d].i].status = "failed"
            /\ \A j \in Items \ {driver[d].i} : b.items[j] = driver[d].batch.items[j]
        BY <1>a, <3>1, SetItemFacts
      <3> HIDE DEF b
      <3>3. QED
        BY <1>a, <3>2, ProvenSubset
    <2>2. /\ Moves(d, Advanced(d, b)) /\ Persist(b) /\ UNCHANGED <<runs, request>>
          /\ driver[d].i \in Items
      BY <1>5 DEF RefuseItem, Moves, Advanced, TypeInv, ItemInRange, OnItem
    <2> HIDE DEF b
    <2>3. /\ Advanced(d, b) \in DriverRecord /\ Advanced(d, b).batch = b
          /\ Advanced(d, b).pc \notin OnRun \cup OpenRun
      BY <2>1, <2>2, AdvancedType DEF Advanced, OnRun, OpenRun
    <2>4. file' \in {file, b}
      BY <2>2 DEF Persist
    <2>5. QED
      BY <2>1, <2>2, <2>3, <2>4, OneClaimsStill
  <1>6. ASSUME NEW d \in Drivers, PrepareRun(d) PROVE ClaimInv'
    <2> DEFINE r == [driver[d] EXCEPT !.pc = "prepared", !.run = Len(runs) + 1]
               new == [item |-> driver[d].i, status |-> "queued"]
    <2>1. new \in RunRecord /\ new.status # "completed"
      BY <1>6 DEF PrepareRun, TypeInv, ItemInRange, OnItem, RunRecord, RunStatus
    <2>2. Moves(d, r) /\ UNCHANGED <<file, request>> /\ runs' = Append(runs, new)
      BY <1>6 DEF PrepareRun, Moves
    <2> HIDE DEF new
    <2>3. /\ runs' \in Seq(RunRecord) /\ Len(runs) \in Nat /\ Len(runs') = Len(runs) + 1
          /\ \A k \in 1..Len(runs) : runs'[k] = runs[k]
          /\ runs'[Len(runs')] = new
      BY <2>1, <2>2, AppendRunFacts DEF TypeInv, TypeOK
    <2>4. r \in DriverRecord /\ r.pc = "prepared" /\ r.run = Len(runs') /\ r.batch = driver[d].batch
      <3>1. Len(runs) + 1 \in Nat /\ Len(runs) + 1 = Len(runs')
        BY <2>3
      <3>2. "prepared" \in DriverPC
        BY DEF DriverPC
      <3>3. QED
        BY <1>a, <3>1, <3>2 DEF DriverRecord
    <2> HIDE DEF r
    <2>5. CompletedKept
      <3>1. DOMAIN runs' = 1..Len(runs')
        BY <2>3, LenProperties
      <3>2. QED
        BY <2>3, <3>1 DEF CompletedKept
    <2>6. \A e \in Drivers \ {d} : driver[e].pc \in OnRun =>
              runs'[driver[e].run] = runs[driver[e].run] /\ driver[e].run # r.run
      BY <2>3, <2>4 DEF TypeInv, RunInRange
    <2>7. runs'[r.run].status # "completed"
      BY <2>1, <2>3, <2>4
    <2>8. ItemsProven(runs', r.batch) /\ \A q \in Requests : ItemsProven(runs', request'[q].batch)
      BY <2>2, <2>4, <2>5, ProvenKept DEF ClaimInv, DriverClaims, RequestClaims
    <2>9. QED
      BY <2>2, <2>4, <2>5, <2>6, <2>7, <2>8, OneClaims
  <1>7. ASSUME NEW d \in Drivers, MarkItemRunning(d) PROVE ClaimInv'
    <2> DEFINE b == SetItem(driver[d].batch, driver[d].i, "running", driver[d].run)
               r == WithBatch(driver[d], "execute", b)
    <2>1. b \in BatchRecord /\ ItemsProven(runs, b)
      <3>1. driver[d].i \in Items /\ "running" \in ItemStatus
        BY <1>7 DEF MarkItemRunning, TypeInv, ItemInRange, OnItem, ItemStatus
      <3>2. /\ b \in BatchRecord /\ b.items[driver[d].i].status = "running"
            /\ \A j \in Items \ {driver[d].i} : b.items[j] = driver[d].batch.items[j]
        BY <1>a, <3>1, SetItemFacts, SMTT(30)
      <3> HIDE DEF b
      <3>3. QED
        BY <1>a, <3>2, ProvenSubset
    <2>2. Moves(d, r) /\ Persist(b) /\ UNCHANGED <<runs, request>>
      BY <1>7 DEF MarkItemRunning, Moves, WithBatch
    <2>3. driver[d].pc \in OpenRun \/ "execute" \notin OnRun
      BY <1>7 DEF MarkItemRunning, OpenRun, OnRun
    <2> HIDE DEF b
    <2>4. /\ r \in DriverRecord /\ r.pc = "execute" /\ r.batch = b
          /\ r.run = driver[d].run
      <3>1. "execute" \in DriverPC
        BY DEF DriverPC
      <3>2. QED
        BY <1>a, <2>1, <3>1, PcBatchType
    <2>5. file' \in {file, b}
      BY <2>2 DEF Persist
    <2> HIDE DEF r
    <2>6. QED
      BY <2>1, <2>2, <2>3, <2>4, <2>5, OneClaimsStill DEF OnRun, OpenRun
  <1>8. ASSUME NEW d \in Drivers, StartRun(d) PROVE ClaimInv'
    <2> DEFINE r == [driver[d] EXCEPT !.pc = "executing"]
               k == driver[d].run
    <2>1. /\ r \in DriverRecord /\ r.pc = "executing" /\ r.batch = driver[d].batch /\ r.run = k
      <3>1. "executing" \in DriverPC
        BY DEF DriverPC
      <3>2. QED
        BY <1>a, <3>1, PcType
    <2>2. Moves(d, r) /\ UNCHANGED <<file, request>>
      BY <1>8 DEF StartRun, Moves
    <2>3. /\ driver[d].pc \in OnRun /\ k \in 1..Len(runs) /\ runs[k].status # "completed"
      BY <1>8 DEF StartRun, TypeInv, RunInRange, OnRun, OpenRun, ClaimInv, OpenRunsOpen
    <2>4. PICK status \in RunStatus : PersistRun(k, status) /\ status = "running"
      BY <1>8 DEF StartRun, RunStatus, RunOutcome
    <2>5. /\ runs' \in Seq(RunRecord) /\ Len(runs') = Len(runs)
          /\ \A j \in 1..Len(runs) : j # k => runs'[j] = runs[j]
          /\ runs'[k].status \in {status, runs[k].status}
      BY <2>3, <2>4, PersistRunFacts DEF TypeInv
    <2> HIDE DEF r, k
    <2>6. CompletedKept
      <3>1. DOMAIN runs' = 1..Len(runs)
        BY <2>5, LenProperties
      <3>2. QED
        BY <2>3, <2>5, <3>1 DEF CompletedKept
    <2>7. \A e \in Drivers \ {d} : driver[e].pc \in OnRun =>
              runs'[driver[e].run] = runs[driver[e].run] /\ driver[e].run # r.run
      BY <2>1, <2>3, <2>5 DEF TypeInv, RunInRange, ClaimInv, RunsDistinct, k
    <2>8. r.pc \in OpenRun => runs'[r.run].status # "completed"
      BY <2>1, <2>3, <2>4, <2>5 DEF OpenRun
    <2>9. ItemsProven(runs', r.batch) /\ \A q \in Requests : ItemsProven(runs', request'[q].batch)
      BY <2>1, <2>2, <2>6, ProvenKept DEF ClaimInv, DriverClaims, RequestClaims
    <2>10. QED
      BY <2>1, <2>2, <2>6, <2>7, <2>8, <2>9, OneClaims
  <1>9. ASSUME NEW d \in Drivers, EndRun(d) PROVE ClaimInv'
    <2> DEFINE r == [driver[d] EXCEPT !.pc = "readback"]
               k == driver[d].run
    <2>1. /\ r \in DriverRecord /\ r.pc = "readback" /\ r.batch = driver[d].batch /\ r.run = k
      <3>1. "readback" \in DriverPC
        BY DEF DriverPC
      <3>2. QED
        BY <1>a, <3>1, PcType
    <2>2. Moves(d, r) /\ UNCHANGED <<file, request>>
      BY <1>9 DEF EndRun, Moves
    <2>3. /\ driver[d].pc \in OnRun /\ k \in 1..Len(runs) /\ runs[k].status # "completed"
      BY <1>9 DEF EndRun, TypeInv, RunInRange, OnRun, OpenRun, ClaimInv, OpenRunsOpen
    <2>4. PICK status \in RunStatus : PersistRun(k, status)
      BY <1>9 DEF EndRun, RunStatus, RunOutcome
    <2>5. /\ runs' \in Seq(RunRecord) /\ Len(runs') = Len(runs)
          /\ \A j \in 1..Len(runs) : j # k => runs'[j] = runs[j]
          /\ runs'[k].status \in {status, runs[k].status}
      BY <2>3, <2>4, PersistRunFacts DEF TypeInv
    <2> HIDE DEF r, k
    <2>6. CompletedKept
      <3>1. DOMAIN runs' = 1..Len(runs)
        BY <2>5, LenProperties
      <3>2. QED
        BY <2>3, <2>5, <3>1 DEF CompletedKept
    <2>7. \A e \in Drivers \ {d} : driver[e].pc \in OnRun =>
              runs'[driver[e].run] = runs[driver[e].run] /\ driver[e].run # r.run
      BY <2>1, <2>3, <2>5 DEF TypeInv, RunInRange, ClaimInv, RunsDistinct, k
    <2>8. r.pc \in OpenRun => runs'[r.run].status # "completed"
      BY <2>1, <2>3, <2>4, <2>5 DEF OpenRun
    <2>9. ItemsProven(runs', r.batch) /\ \A q \in Requests : ItemsProven(runs', request'[q].batch)
      BY <2>1, <2>2, <2>6, ProvenKept DEF ClaimInv, DriverClaims, RequestClaims
    <2>10. QED
      BY <2>1, <2>2, <2>6, <2>7, <2>8, <2>9, OneClaims
  <1>10. ASSUME NEW d \in Drivers, SettleItem(d) PROVE ClaimInv'
    <2>0. PICK status \in ReadBack(driver[d].run) :
             LET b == SetItem(driver[d].batch, driver[d].i, status, driver[d].run) IN
             driver' = [driver EXCEPT ![d] = Advanced(d, b)] /\ Persist(b)
      BY <1>10 DEF SettleItem
    <2> DEFINE b == SetItem(driver[d].batch, driver[d].i, status, driver[d].run)
    <2>1. b \in BatchRecord /\ ItemsProven(runs, b)
      <3> DEFINE k == driver[d].run
      <3>1. /\ driver[d].i \in Items /\ k \in 1..Len(runs) /\ k \in DOMAIN runs
            /\ runs[k].item = driver[d].i
        BY <1>10, LenProperties
           DEF SettleItem, TypeInv, TypeOK, ItemInRange, RunInRange, OnItem, OnRun
      <3>2. runs[k] \in RunRecord
        BY <3>1, ElementOfSeq DEF TypeInv, TypeOK
      <3>3. status \in {"failed", runs[k].status} /\ status \in ItemStatus
        BY <2>0, <3>1, <3>2 DEF ReadBack, RunRecord, RunStatus, ItemStatus
      <3>4. /\ b \in BatchRecord /\ b.items[driver[d].i].status = status
            /\ b.items[driver[d].i].execution = k
            /\ \A j \in Items \ {driver[d].i} : b.items[j] = driver[d].batch.items[j]
        <4>1. driver[d].run \in Nat /\ driver[d].run # 0
          BY <3>1
        <4>2. driver[d].i \in Items /\ driver[d].batch \in BatchRecord /\ status \in ItemStatus
          BY <1>a, <3>1, <3>3
        <4>3. QED
          BY <4>1, <4>2, SetItemFacts
      <3>5. runs[k].status = "completed" => runs[k] = [item |-> driver[d].i, status |-> "completed"]
        BY <3>1, <3>2 DEF RunRecord
      <3> HIDE DEF b, k
      <3>6. QED
        BY <1>a, <3>1, <3>3, <3>4, <3>5 DEF ItemsProven
    <2>2. /\ Moves(d, Advanced(d, b)) /\ Persist(b) /\ UNCHANGED <<runs, request>>
          /\ driver[d].i \in Items
      BY <1>10, <2>0 DEF SettleItem, Moves, TypeInv, ItemInRange, OnItem
    <2> HIDE DEF b
    <2>3. /\ Advanced(d, b) \in DriverRecord /\ Advanced(d, b).batch = b
          /\ Advanced(d, b).pc \notin OnRun \cup OpenRun
      BY <2>1, <2>2, AdvancedType DEF Advanced, OnRun, OpenRun
    <2>4. file' \in {file, b}
      BY <2>2 DEF Persist
    <2>5. QED
      BY <2>1, <2>2, <2>3, <2>4, OneClaimsStill
  <1>11. ASSUME NEW d \in Drivers, Finish(d) PROVE ClaimInv'
    <2> DEFINE b == Verdict(driver[d].batch, d \in ctxDone)
               r == WithBatch(driver[d], "leaving", b)
    <2>1. b \in BatchRecord /\ ItemsProven(runs, b)
      <3>1. (d \in ctxDone) \in BOOLEAN
        OBVIOUS
      <3>2. /\ b \in BatchRecord
            /\ \A j \in Items : b.items[j].status = "completed" => b.items[j] = driver[d].batch.items[j]
        <4>1. CASE d \in ctxDone
          <5>1. b = CancelWaiting(driver[d].batch)
            BY <4>1 DEF Verdict
          <5> HIDE DEF b
          <5>2. QED
            BY <1>a, <5>1, CancelWaitingFacts
        <4>2. CASE d \notin ctxDone
          BY <1>a, <3>1, <4>2, VerdictFacts
        <4>3. QED
          BY <4>1, <4>2
      <3> HIDE DEF b
      <3>3. QED
        BY <1>a, <3>2, ProvenSubset
    <2>2. Moves(d, r) /\ Persist(b) /\ UNCHANGED <<runs, request>>
      BY <1>11 DEF Finish, Moves, WithBatch
    <2>3. driver[d].pc \in OpenRun \/ "leaving" \notin OnRun
      BY <1>11 DEF Finish, OpenRun, OnRun
    <2> HIDE DEF b
    <2>4. /\ r \in DriverRecord /\ r.pc = "leaving" /\ r.batch = b
          /\ r.run = driver[d].run
      <3>1. "leaving" \in DriverPC
        BY DEF DriverPC
      <3>2. QED
        BY <1>a, <2>1, <3>1, PcBatchType
    <2>5. file' \in {file, b}
      BY <2>2 DEF Persist
    <2> HIDE DEF r
    <2>6. QED
      BY <2>1, <2>2, <2>3, <2>4, <2>5, OneClaimsStill DEF OnRun, OpenRun
  <1>12. ASSUME NEW d \in Drivers, Leave(d) PROVE ClaimInv'
    <2>1. Moves(d, IdleDriver) /\ UNCHANGED <<file, runs, request>>
      BY <1>12 DEF Leave, Moves
    <2>2. IdleDriver \in DriverRecord /\ IdleDriver.pc \notin OnRun \cup OpenRun
      BY IdleTypes DEF IdleDriver, OnRun, OpenRun
    <2>3. QED
      BY <2>1, <2>2, IdleProven, OneClaimsStill
  <1>13. ASSUME NEW q \in Requests, CreateBatch(q) PROVE ClaimInv'
    <2> DEFINE b == [NoBatch EXCEPT !.status = "queued"]
    <2>1. ItemsProven(runs, b)
      BY IdleProven
    <2>2. /\ UNCHANGED <<driver, runs>> /\ file' \in {file, b}
          /\ request' \in {request, [request EXCEPT ![q] =
                                      [pc |-> "spawn", kind |-> "create", batch |-> b]]}
      BY <1>13 DEF CreateBatch
    <2> HIDE DEF b
    <2>3. \A p \in Requests : ItemsProven(runs, request'[p].batch)
      BY <1>b, <2>1, <2>2 DEF TypeInv, TypeOK
    <2>4. QED
      BY <1>c, <2>1, <2>2, <2>3, NoDriverClaims
  <1>14. ASSUME NEW q \in Requests, NEW kind \in {"retry", "restart", "cancel"}, ReadBatch(q, kind)
         PROVE ClaimInv'
    <2>1. UNCHANGED <<driver, runs, file>>
      BY <1>14 DEF ReadBatch
    <2>2. \A p \in Requests : request'[p].batch \in {request[p].batch, file}
      BY <1>14 DEF ReadBatch, TypeInv, TypeOK
    <2>3. QED
      BY <1>b, <1>c, <2>1, <2>2, NoDriverClaims
  <1>15. ASSUME NEW q \in Requests, CheckNotRunning(q) PROVE ClaimInv'
    <2> DEFINE b == Reset(request[q].batch, request[q].kind = "restart")
    <2>1. ItemsProven(runs, b)
      <3>0. (request[q].kind = "restart") \in BOOLEAN
        OBVIOUS
      <3>1. \A j \in Items : b.items[j] = Waiting \/ b.items[j] = request[q].batch.items[j]
        BY <1>b, <3>0, ResetFacts
      <3> HIDE DEF b
      <3>2. QED
        BY <1>b, <3>1, ProvenSubset DEF Waiting
    <2>2. UNCHANGED <<driver, runs, file>>
      BY <1>15 DEF CheckNotRunning
    <2>3. \/ request' = [request EXCEPT ![q] = [request[q] EXCEPT !.pc = "save", !.batch = b]]
          \/ request' = [request EXCEPT ![q] = IdleRequest]
      BY <1>15 DEF CheckNotRunning
    <2> HIDE DEF b
    <2>4. \A p \in Requests : request'[p].batch \in {request[p].batch, b, IdleRequest.batch}
      <3> DEFINE e == [request[q] EXCEPT !.pc = "save", !.batch = b]
      <3>1. e.batch = b
        BY DEF TypeInv, TypeOK, RequestRecord
      <3> HIDE DEF e
      <3>2. CASE request' = [request EXCEPT ![q] = e]
        BY <3>1, <3>2 DEF TypeInv, TypeOK
      <3>3. CASE request' = [request EXCEPT ![q] = IdleRequest]
        BY <3>3 DEF TypeInv, TypeOK
      <3>4. QED
        BY <2>3, <3>2, <3>3 DEF e
    <2>5. QED
      BY <1>b, <1>c, <2>1, <2>2, <2>4, IdleProven, NoDriverClaims
  <1>16. ASSUME NEW q \in Requests, SaveRetry(q) PROVE ClaimInv'
    <2>1. UNCHANGED <<driver, runs>> /\ file' \in {file, request[q].batch}
      BY <1>16 DEF SaveRetry
    <2>2. \A p \in Requests : request'[p].batch \in {request[p].batch, IdleRequest.batch}
      BY <1>16 DEF SaveRetry, TypeInv, TypeOK, RequestRecord
    <2>3. QED
      BY <1>b, <1>c, <2>1, <2>2, IdleProven, NoDriverClaims
  <1>17. ASSUME NEW q \in Requests, NEW d \in Drivers, Spawn(q, d) PROVE ClaimInv'
    <2> DEFINE r == WithBatch(IdleDriver, "spawned", request[q].batch)
    <2>1. r \in DriverRecord /\ r.pc = "spawned" /\ r.batch = request[q].batch
      <3>1. "spawned" \in DriverPC
        BY DEF DriverPC
      <3>2. QED
        BY <1>b, <3>1, IdleTypes, PcBatchType
    <2>2. Moves(d, r) /\ UNCHANGED <<runs, file>>
      BY <1>17 DEF Spawn, Moves, WithBatch
    <2>3. \A p \in Requests : request'[p].batch \in {request[p].batch, IdleRequest.batch}
      BY <1>17 DEF Spawn, TypeInv, TypeOK
    <2> HIDE DEF r
    <2>4. CompletedKept
      BY <2>2, RunsStill
    <2>5. \A p \in Requests : ItemsProven(runs', request'[p].batch)
      BY <1>b, <2>2, <2>3, IdleProven
    <2>6. r.pc \notin OnRun \cup OpenRun
      BY <2>1 DEF OnRun, OpenRun
    <2>7. QED
      BY <1>b, <2>1, <2>2, <2>4, <2>5, <2>6, OneClaims
  <1>18. ASSUME NEW q \in Requests, LookupStop(q) PROVE ClaimInv'
    <2> DEFINE b == CancelWaiting(request[q].batch)
    <2>1. ItemsProven(runs, b)
      <3>1. \A j \in Items : b.items[j] = request[q].batch.items[j] \/ b.items[j].status = "cancelled"
        BY <1>b, CancelWaitingFacts
      <3> HIDE DEF b
      <3>2. QED
        BY <1>b, <3>1, ProvenSubset
    <2>2. UNCHANGED <<driver, runs, file>>
      BY <1>18 DEF LookupStop
    <2>3. \/ request' = [request EXCEPT ![q] = [request[q] EXCEPT !.pc = "settle", !.batch = b]]
          \/ request' = [request EXCEPT ![q] = IdleRequest]
      BY <1>18 DEF LookupStop
    <2> HIDE DEF b
    <2>4. \A p \in Requests : request'[p].batch \in {request[p].batch, b, IdleRequest.batch}
      <3> DEFINE e == [request[q] EXCEPT !.pc = "settle", !.batch = b]
      <3>1. e.batch = b
        BY DEF TypeInv, TypeOK, RequestRecord
      <3> HIDE DEF e
      <3>2. CASE request' = [request EXCEPT ![q] = e]
        BY <3>1, <3>2 DEF TypeInv, TypeOK
      <3>3. CASE request' = [request EXCEPT ![q] = IdleRequest]
        BY <3>3 DEF TypeInv, TypeOK
      <3>4. QED
        BY <2>3, <3>2, <3>3 DEF e
    <2>5. QED
      BY <1>b, <1>c, <2>1, <2>2, <2>4, IdleProven, NoDriverClaims
  <1>19. ASSUME NEW q \in Requests, SettleCancel(q) PROVE ClaimInv'
    <2>1. UNCHANGED <<driver, runs>> /\ file' \in {file, request[q].batch}
      BY <1>19 DEF SettleCancel
    <2>2. \A p \in Requests : request'[p].batch \in {request[p].batch, IdleRequest.batch}
      BY <1>19 DEF SettleCancel, TypeInv, TypeOK
    <2>3. QED
      BY <1>b, <1>c, <2>1, <2>2, IdleProven, NoDriverClaims
  <1>20. CASE Stop
    <2>1. UNCHANGED <<runs, file>>
      BY <1>20 DEF Stop
    <2>2. /\ \A d \in Drivers : driver'[d] = IdleDriver
          /\ \A q \in Requests : request'[q] = IdleRequest
      BY <1>20 DEF Stop
    <2>3. RunsDistinct' /\ OpenRunsOpen'
      BY <2>2 DEF RunsDistinct, OpenRunsOpen, IdleDriver, OnRun, OpenRun
    <2>4. QED
      BY <1>c, <2>1, <2>2, <2>3, IdleProven
         DEF ClaimInv, CompletedItemHasRun, DriverClaims, RequestClaims
  <1>21. CASE UNCHANGED vars
    BY <1>21 DEF vars, ClaimInv, RunsDistinct, OpenRunsOpen, CompletedItemHasRun,
                 DriverClaims, RequestClaims
  <1>22. QED
    BY <1>1, <1>2, <1>3, <1>4, <1>5, <1>6, <1>7, <1>8, <1>9, <1>10, <1>11, <1>12, <1>13,
       <1>14, <1>15, <1>16, <1>17, <1>18, <1>19, <1>20, <1>21
       DEF Next, DriverStep, Ask, Serve

\* Whatever interleaves, is lost or is cut short, an item the batch file calls
\* completed names a run of that item that completed (runBatchItem's read-back).
THEOREM CompletedItemsAreProven == Spec => []CompletedItemHasRun
  <1>1. Spec => []TypeInv
    BY TypeInit, TypeNext, PTL DEF Spec
  <1>2. Spec => []ClaimInv
    BY <1>1, ClaimInit, ClaimNext, PTL DEF Spec
  <1>3. ClaimInv => CompletedItemHasRun
    BY DEF ClaimInv
  <1>4. QED
    BY <1>2, <1>3, PTL

----------------------------------------------------------------------------
(* What each copy of the plan holds, as long as writes work.  A driver's   *)
(* copy of the items before its own is over, and a run it reads back is;   *)
(* what was cancelled was cancelled by this driver's own context, which it *)
(* finds again when it finishes.                                           *)

Working == {"loop"} \cup OnItem

NoneQueued(b) == \A j \in Items : b.items[j].status # "queued"

Over(status, cancelled) ==
    status \in {"completed", "failed"} \/ (status = "cancelled" /\ cancelled)

\* One driver, as p, the run files being files, its context done or not.
DriverFits(p) ==
    /\ p.pc \in {"spawned", "registered"} => p.i = 1 /\ p.batch.status = "queued"
    /\ p.pc \in Working => p.batch.status = "running"
    /\ p.pc \in {"item", "prepared"} => p.batch.items[p.i].status # "completed"

DriverHonest(p, files, cancelled) ==
    /\ NoneQueued(p.batch)
    /\ p.pc \in Working => \A j \in Items : j < p.i => Over(p.batch.items[j].status, cancelled)
    /\ p.pc = "readback" => Over(files[p.run].status, cancelled)

RequestFits(p) ==
    /\ p.pc # "idle" => p.batch.status # "absent"
    /\ p.pc \in {"save", "spawn"} => p.batch.status = "queued"
    /\ p.pc = "settle" => p.batch.status = "cancelled"

\* The file is absent until somebody wrote the plan.
FileFits == file.status = "absent" => Quiet

FitInv ==
    /\ FileFits
    /\ \A d \in Drivers : DriverFits(driver[d])
    /\ \A q \in Requests : RequestFits(request[q])

SettledItems(b) == \A j \in Items : b.items[j].status \in Terminal

HonestInv ==
    faults = 0 =>
        /\ NoneQueued(file) /\ AllCompleted(file)
        /\ \A d \in Drivers : DriverHonest(driver[d], runs, d \in ctxDone)
        /\ \A q \in Requests :
              /\ NoneQueued(request[q].batch) /\ AllCompleted(request[q].batch)
              /\ request[q].pc = "settle" => SettledItems(request[q].batch)

\* Who still has to write the file: a driver that has not finished, or the
\* request that is about to start one.
Pending ==
    \/ \E d \in Drivers : driver[d].pc \notin {"idle", "leaving"}
    \/ \E q \in Requests : request[q].pc = "spawn"

Settled(b) == b.status \in Terminal /\ SettledItems(b)

OpenRunOwned ==
    \A k \in DOMAIN runs :
        runs[k].status \in Terminal \/ \E d \in Drivers : driver[d].pc \in OpenRun /\ driver[d].run = k

SettledInv ==
    faults = 0 /\ stops = 0 =>
        /\ OpenRunOwned
        /\ file.status = "absent" \/ Settled(file) \/ Pending

\* While nothing raced there is one owner of the batch, a driver or the request
\* about to start one.
OneOwner ==
    /\ OneWriter
    /\ \A p, q \in Requests : request[p].pc = "spawn" /\ request[q].pc = "spawn" => p = q
    /\ \A q \in Requests : request[q].pc = "spawn" => Alive = {}

\* What the file holds of the items their owner has not come to.
AheadOf(p, j) ==
    IF p.pc \in {"spawned", "registered", "loop", "item", "prepared"} THEN j >= p.i
    ELSE p.pc \notin {"leaving", "idle"} /\ j > p.i

OwnerInv ==
    ~raced =>
        /\ OneOwner
        /\ \A q \in Requests : request[q].pc = "spawn" => file = request[q].batch
        /\ \A d \in Alive : \A j \in Items :
              AheadOf(driver[d], j) => file.items[j] = driver[d].batch.items[j]
        /\ faults = 0 => \A d \in Alive :
              /\ driver[d].pc \notin {"spawned", "registered"} => file = driver[d].batch
              /\ file.items = driver[d].batch.items

----------------------------------------------------------------------------
(* What the steps of a driver and of a request do, field by field.         *)

\* Driver d is at pc with a copy b, on item i and run k; the others stay.
Becomes(d, pc, b, i, k) ==
    /\ driver'[d].pc = pc /\ driver'[d].batch = b /\ driver'[d].i = i /\ driver'[d].run = k
    /\ \A e \in Drivers \ {d} : driver'[e] = driver[e]

\* Request q is at pc with a copy b; the others stay.
Turns(q, pc, b) ==
    /\ request'[q].pc = pc /\ request'[q].batch = b
    /\ \A p \in Requests \ {q} : request'[p] = request[p]

LEMMA DriverDoes ==
    ASSUME TypeInv, NEW d \in Drivers
    PROVE  LET p == driver[d] IN
           /\ Register(d) => Becomes(d, "registered", p.batch, p.i, p.run)
           /\ MarkRunning(d) =>
                Becomes(d, "loop", [p.batch EXCEPT !.status = "running"], p.i, p.run)
           /\ SkipCompleted(d) => Becomes(d, "loop", p.batch, p.i + 1, p.run)
           /\ TakeItem(d) => Becomes(d, "item", p.batch, p.i, p.run)
           /\ RefuseItem(d) => Becomes(d, "loop", SetItem(p.batch, p.i, "failed", 0), p.i + 1, 0)
           /\ PrepareRun(d) => Becomes(d, "prepared", p.batch, p.i, Len(runs) + 1)
           /\ MarkItemRunning(d) =>
                Becomes(d, "execute", SetItem(p.batch, p.i, "running", p.run), p.i, p.run)
           /\ StartRun(d) => Becomes(d, "executing", p.batch, p.i, p.run)
           /\ EndRun(d) => Becomes(d, "readback", p.batch, p.i, p.run)
           /\ Finish(d) => Becomes(d, "leaving", Verdict(p.batch, d \in ctxDone), p.i, p.run)
           /\ Leave(d) => Becomes(d, "idle", NoBatch, 1, 0)
  <1> USE DEF TypeInv, TypeOK, DriverRecord, Becomes
  <1>1. Register(d) => Becomes(d, "registered", driver[d].batch, driver[d].i, driver[d].run)
    BY DEF Register
  <1>2. MarkRunning(d) =>
          Becomes(d, "loop", [driver[d].batch EXCEPT !.status = "running"], driver[d].i, driver[d].run)
    BY DEF MarkRunning
  <1>3. SkipCompleted(d) => Becomes(d, "loop", driver[d].batch, driver[d].i + 1, driver[d].run)
    BY DEF SkipCompleted
  <1>4. TakeItem(d) => Becomes(d, "item", driver[d].batch, driver[d].i, driver[d].run)
    BY DEF TakeItem
  <1>5. RefuseItem(d) =>
          Becomes(d, "loop", SetItem(driver[d].batch, driver[d].i, "failed", 0), driver[d].i + 1, 0)
    BY DEF RefuseItem, Advanced
  <1>6. PrepareRun(d) => Becomes(d, "prepared", driver[d].batch, driver[d].i, Len(runs) + 1)
    BY DEF PrepareRun
  <1>7. MarkItemRunning(d) =>
          Becomes(d, "execute", SetItem(driver[d].batch, driver[d].i, "running", driver[d].run),
                  driver[d].i, driver[d].run)
    BY DEF MarkItemRunning
  <1>8. StartRun(d) => Becomes(d, "executing", driver[d].batch, driver[d].i, driver[d].run)
    BY DEF StartRun
  <1>9. EndRun(d) => Becomes(d, "readback", driver[d].batch, driver[d].i, driver[d].run)
    BY DEF EndRun
  <1>10. Finish(d) =>
           Becomes(d, "leaving", Verdict(driver[d].batch, d \in ctxDone), driver[d].i, driver[d].run)
    BY DEF Finish
  <1>11. Leave(d) => Becomes(d, "idle", NoBatch, 1, 0)
    BY DEF Leave, IdleDriver
  <1>12. QED
    BY <1>1, <1>2, <1>3, <1>4, <1>5, <1>6, <1>7, <1>8, <1>9, <1>10, <1>11

LEMMA SettleDoes ==
    ASSUME TypeInv, NEW d \in Drivers, SettleItem(d)
    PROVE  \E status \in ReadBack(driver[d].run) :
             LET b == SetItem(driver[d].batch, driver[d].i, status, driver[d].run)
             IN  Becomes(d, "loop", b, driver[d].i + 1, 0) /\ Persist(b)
  BY DEF SettleItem, TypeInv, TypeOK, DriverRecord, Becomes, Advanced

LEMMA RequestDoes ==
    ASSUME TypeInv, NEW q \in Requests
    PROVE  LET p == request[q] IN
           /\ CreateBatch(q) =>
                \/ Turns(q, "spawn", file') /\ file' = [NoBatch EXCEPT !.status = "queued"]
                \/ UNCHANGED <<file, request>>
           /\ \A kind \in {"retry", "restart", "cancel"} :
                ReadBatch(q, kind) => Turns(q, "lookup", file) \/ Turns(q, "check", file)
           /\ CheckNotRunning(q) =>
                \/ Turns(q, "save", Reset(p.batch, p.kind = "restart"))
                \/ Turns(q, "idle", NoBatch)
           /\ SaveRetry(q) =>
                \/ Turns(q, "spawn", p.batch) /\ file' = p.batch /\ raced' = (raced \/ Racing(q))
                \/ Turns(q, "idle", NoBatch) /\ UNCHANGED <<file, raced>>
           /\ \A d \in Drivers : Spawn(q, d) =>
                Becomes(d, "spawned", p.batch, 1, 0) /\ Turns(q, "idle", NoBatch)
           /\ LookupStop(q) =>
                Turns(q, "settle", CancelWaiting(p.batch)) \/ Turns(q, "idle", NoBatch)
           /\ SettleCancel(q) => Turns(q, "idle", NoBatch)
  <1> USE DEF TypeInv, TypeOK, RequestRecord, Turns, IdleRequest
  <1>1. CreateBatch(q) =>
          \/ Turns(q, "spawn", file') /\ file' = [NoBatch EXCEPT !.status = "queued"]
          \/ UNCHANGED <<file, request>>
    BY DEF CreateBatch
  <1>2. \A kind \in {"retry", "restart", "cancel"} :
          ReadBatch(q, kind) => Turns(q, "lookup", file) \/ Turns(q, "check", file)
    BY DEF ReadBatch
  <1>3. CheckNotRunning(q) =>
          \/ Turns(q, "save", Reset(request[q].batch, request[q].kind = "restart"))
          \/ Turns(q, "idle", NoBatch)
    BY DEF CheckNotRunning
  <1>4. SaveRetry(q) =>
          \/ /\ Turns(q, "spawn", request[q].batch) /\ file' = request[q].batch
             /\ raced' = (raced \/ Racing(q))
          \/ Turns(q, "idle", NoBatch) /\ UNCHANGED <<file, raced>>
    BY DEF SaveRetry
  <1>5. \A d \in Drivers : Spawn(q, d) =>
          Becomes(d, "spawned", request[q].batch, 1, 0) /\ Turns(q, "idle", NoBatch)
    BY DEF Spawn, Becomes, DriverRecord, IdleDriver
  <1>6. LookupStop(q) =>
          Turns(q, "settle", CancelWaiting(request[q].batch)) \/ Turns(q, "idle", NoBatch)
    BY DEF LookupStop
  <1>7. SettleCancel(q) => Turns(q, "idle", NoBatch)
    BY DEF SettleCancel
  <1>8. QED
    BY <1>1, <1>2, <1>3, <1>4, <1>5, <1>6, <1>7

LEMMA FaultsGrow == TypeInv /\ [Next]_vars => (faults' = 0 => faults = 0)
  <1> SUFFICES ASSUME TypeInv, [Next]_vars, faults' = 0 PROVE faults = 0
    OBVIOUS
  <1>1. faults \in Nat
    BY DEF TypeInv, TypeOK
  <1>2. faults' \in {faults, faults + 1}
    BY DEF Next, vars, DriverStep, Ask, Serve, Stop, Register, MarkRunning, SkipCompleted,
           TakeItem, RefuseItem, PrepareRun, MarkItemRunning, StartRun, EndRun, SettleItem,
           Finish, Leave, CreateBatch, ReadBatch, CheckNotRunning, SaveRetry, Spawn, LookupStop,
           SettleCancel, Persist, PersistRun
  <1>3. QED
    BY <1>1, <1>2

----------------------------------------------------------------------------
(* FitInv.                                                                 *)

LEMMA FitInit == Init => FitInv
  BY DEF Init, FitInv, FileFits, Quiet, Alive, DriverFits, RequestFits, IdleDriver, IdleRequest,
         Working, OnItem

\* While somebody is at it the file is there.
LEMMA FileIsThere ==
    ASSUME FitInv, NEW d \in Drivers, driver[d].pc # "idle"
    PROVE  file.status # "absent"
  BY DEF FitInv, FileFits, Quiet, Alive

LEMMA DriverKeepsFit ==
    ASSUME FitInv, NEW d \in Drivers, driver[d].pc # "idle", UNCHANGED request,
           \A e \in Drivers \ {d} : driver'[e] = driver[e],
           DriverFits(driver'[d]),
           file'.status = file.status \/ file'.status # "absent"
    PROVE  FitInv'
  BY FileIsThere DEF FitInv, FileFits

LEMMA RequestKeepsFit ==
    ASSUME FitInv, NEW q \in Requests, UNCHANGED driver,
           \A p \in Requests \ {q} : request'[p] = request[p],
           RequestFits(request'[q]),
           file'.status # "absent"
    PROVE  FitInv'
  BY DEF FitInv, FileFits

LEMMA FitNext == TypeInv /\ FitInv /\ [Next]_vars => FitInv'
  <1> SUFFICES ASSUME TypeInv, FitInv, [Next]_vars PROVE FitInv'
    OBVIOUS
  <1>a. ASSUME NEW d \in Drivers
        PROVE  /\ driver[d].batch \in BatchRecord /\ DriverFits(driver[d])
               /\ driver[d].pc \in OnItem => driver[d].i \in Items
               /\ driver[d].run \in Nat
    BY DEF TypeInv, TypeOK, ItemInRange, DriverRecord, FitInv
  <1>b. ASSUME NEW q \in Requests
        PROVE  request[q].batch \in BatchRecord /\ RequestFits(request[q])
    BY DEF TypeInv, TypeOK, RequestRecord, FitInv
  <1>1. ASSUME NEW d \in Drivers, Register(d) PROVE FitInv'
    BY <1>1, <1>a, DriverDoes, DriverKeepsFit DEF Register, Becomes, DriverFits, Working, OnItem
  <1>2. ASSUME NEW d \in Drivers, MarkRunning(d) PROVE FitInv'
    <2> DEFINE b == [driver[d].batch EXCEPT !.status = "running"]
    <2>1. b.status = "running"
      BY <1>a DEF BatchRecord
    <2>2. Becomes(d, "loop", b, driver[d].i, driver[d].run) /\ file' \in {file, b}
      BY <1>2, DriverDoes DEF MarkRunning, Persist
    <2> HIDE DEF b
    <2>3. QED
      BY <1>2, <2>1, <2>2, DriverKeepsFit DEF MarkRunning, Becomes, DriverFits, Working, OnItem
  <1>3. ASSUME NEW d \in Drivers, SkipCompleted(d) PROVE FitInv'
    <2>1. Becomes(d, "loop", driver[d].batch, driver[d].i + 1, driver[d].run)
      BY <1>3, DriverDoes
    <2>2. driver[d].pc = "loop" /\ file' = file /\ UNCHANGED request
      BY <1>3 DEF SkipCompleted
    <2>3. driver[d].batch.status = "running"
      BY <1>3, <1>a, <2>2 DEF SkipCompleted, DriverFits, Working
    <2>4. DriverFits(driver'[d])
      BY <2>1, <2>3 DEF Becomes, DriverFits
    <2>5. QED
      BY <2>1, <2>2, <2>4, DriverKeepsFit DEF Becomes
  <1>4. ASSUME NEW d \in Drivers, TakeItem(d) PROVE FitInv'
    <2>1. Becomes(d, "item", driver[d].batch, driver[d].i, driver[d].run)
      BY <1>4, DriverDoes
    <2>2. driver[d].pc = "loop" /\ file' = file /\ UNCHANGED request
      BY <1>4 DEF TakeItem
    <2>3. driver[d].batch.status = "running" /\ driver[d].batch.items[driver[d].i].status # "completed"
      BY <1>4, <1>a, <2>2 DEF TakeItem, DriverFits, Working
    <2>4. DriverFits(driver'[d])
      BY <2>1, <2>3 DEF Becomes, DriverFits
    <2>5. QED
      BY <2>1, <2>2, <2>4, DriverKeepsFit DEF Becomes
  <1>5. ASSUME NEW d \in Drivers, RefuseItem(d) PROVE FitInv'
    <2> DEFINE b == SetItem(driver[d].batch, driver[d].i, "failed", 0)
    <2>1. b.status = "running"
      BY <1>5, <1>a DEF RefuseItem, SetItem, BatchRecord, DriverFits, Working, OnItem
    <2>2. Becomes(d, "loop", b, driver[d].i + 1, 0) /\ file' \in {file, b}
      BY <1>5, DriverDoes DEF RefuseItem, Persist
    <2> HIDE DEF b
    <2>3. QED
      BY <1>5, <2>1, <2>2, DriverKeepsFit DEF RefuseItem, Becomes, DriverFits, Working, OnItem
  <1>6. ASSUME NEW d \in Drivers, PrepareRun(d) PROVE FitInv'
    <2>1. Becomes(d, "prepared", driver[d].batch, driver[d].i, Len(runs) + 1)
      BY <1>6, DriverDoes
    <2>2. DriverFits(driver'[d])
      BY <1>6, <1>a, <2>1 DEF PrepareRun, Becomes, DriverFits, Working, OnItem
    <2>3. QED
      BY <1>6, <2>1, <2>2, DriverKeepsFit DEF PrepareRun, Becomes
  <1>7. ASSUME NEW d \in Drivers, MarkItemRunning(d) PROVE FitInv'
    <2> DEFINE b == SetItem(driver[d].batch, driver[d].i, "running", driver[d].run)
    <2>1. b.status = "running"
      BY <1>7, <1>a DEF MarkItemRunning, SetItem, BatchRecord, DriverFits, Working, OnItem
    <2>2. Becomes(d, "execute", b, driver[d].i, driver[d].run) /\ file' \in {file, b}
      BY <1>7, DriverDoes DEF MarkItemRunning, Persist
    <2> HIDE DEF b
    <2>3. QED
      BY <1>7, <2>1, <2>2, DriverKeepsFit DEF MarkItemRunning, Becomes, DriverFits, Working, OnItem
  <1>8. ASSUME NEW d \in Drivers, StartRun(d) PROVE FitInv'
    BY <1>8, <1>a, DriverDoes, DriverKeepsFit, SMTT(30) DEF StartRun, Becomes, DriverFits, Working, OnItem
  <1>9. ASSUME NEW d \in Drivers, EndRun(d) PROVE FitInv'
    BY <1>9, <1>a, DriverDoes, DriverKeepsFit, SMTT(30) DEF EndRun, Becomes, DriverFits, Working, OnItem
  <1>10. ASSUME NEW d \in Drivers, SettleItem(d) PROVE FitInv'
    <2>1. PICK status \in ReadBack(driver[d].run) :
             LET b == SetItem(driver[d].batch, driver[d].i, status, driver[d].run)
             IN  Becomes(d, "loop", b, driver[d].i + 1, 0) /\ Persist(b)
      BY <1>10, SettleDoes
    <2> DEFINE b == SetItem(driver[d].batch, driver[d].i, status, driver[d].run)
    <2>2. b.status = "running"
      BY <1>10, <1>a DEF SettleItem, SetItem, BatchRecord, DriverFits, Working, OnItem
    <2>3. Becomes(d, "loop", b, driver[d].i + 1, 0) /\ file' \in {file, b}
      BY <2>1 DEF Persist
    <2> HIDE DEF b
    <2>4. QED
      BY <1>10, <2>2, <2>3, DriverKeepsFit DEF SettleItem, Becomes, DriverFits, Working, OnItem
  <1>11. ASSUME NEW d \in Drivers, Finish(d) PROVE FitInv'
    <2> DEFINE b == Verdict(driver[d].batch, d \in ctxDone)
    <2>1. b.status # "absent"
      BY <1>a DEF Verdict, CancelWaiting, BatchRecord
    <2>2. Becomes(d, "leaving", b, driver[d].i, driver[d].run) /\ file' \in {file, b}
      BY <1>11, DriverDoes DEF Finish, Persist
    <2> HIDE DEF b
    <2>3. QED
      BY <1>11, <2>1, <2>2, DriverKeepsFit DEF Finish, Becomes, DriverFits, Working, OnItem
  <1>12. ASSUME NEW d \in Drivers, Leave(d) PROVE FitInv'
    BY <1>12, DriverDoes, DriverKeepsFit DEF Leave, Becomes, DriverFits, Working, OnItem
  <1>13. ASSUME NEW q \in Requests, CreateBatch(q) PROVE FitInv'
    <2>1. CASE Turns(q, "spawn", file') /\ file' = [NoBatch EXCEPT !.status = "queued"]
      <3>1. file'.status = "queued"
        BY <2>1 DEF NoBatch
      <3>2. QED
        BY <1>13, <2>1, <3>1, RequestKeepsFit DEF CreateBatch, Turns, RequestFits
    <2>2. CASE UNCHANGED <<file, request>>
      BY <1>13, <2>2 DEF CreateBatch, FitInv, FileFits, Quiet, Alive
    <2>3. QED
      BY <1>13, <2>1, <2>2, RequestDoes
  <1>14. ASSUME NEW q \in Requests, NEW kind \in {"retry", "restart", "cancel"}, ReadBatch(q, kind)
         PROVE FitInv'
    BY <1>14, RequestDoes, RequestKeepsFit DEF ReadBatch, Turns, RequestFits
  <1>c. ASSUME NEW q \in Requests, request[q].pc # "idle" PROVE file.status # "absent"
    BY <1>c DEF FitInv, FileFits, Quiet
  <1>15. ASSUME NEW q \in Requests, CheckNotRunning(q) PROVE FitInv'
    <2>1. Reset(request[q].batch, request[q].kind = "restart").status = "queued"
      BY DEF Reset
    <2>2. QED
      BY <1>15, <1>c, <2>1, RequestDoes, RequestKeepsFit DEF CheckNotRunning, Turns, RequestFits
  <1>16. ASSUME NEW q \in Requests, SaveRetry(q) PROVE FitInv'
    BY <1>16, <1>b, <1>c, RequestDoes, RequestKeepsFit DEF SaveRetry, Turns, RequestFits
  <1>17. ASSUME NEW q \in Requests, NEW d \in Drivers, Spawn(q, d) PROVE FitInv'
    <2>1. Becomes(d, "spawned", request[q].batch, 1, 0) /\ Turns(q, "idle", NoBatch)
      BY <1>17, RequestDoes
    <2>2. file'.status # "absent"
      BY <1>17, <1>c DEF Spawn
    <2>3. DriverFits(driver'[d]) /\ RequestFits(request'[q])
      BY <1>17, <1>b, <2>1 DEF Spawn, Becomes, Turns, DriverFits, RequestFits, Working, OnItem
    <2>4. QED
      BY <2>1, <2>2, <2>3 DEF FitInv, FileFits, Becomes, Turns
  <1>18. ASSUME NEW q \in Requests, LookupStop(q) PROVE FitInv'
    <2>1. CancelWaiting(request[q].batch).status = "cancelled"
      BY DEF CancelWaiting
    <2>2. QED
      BY <1>18, <1>c, <2>1, RequestDoes, RequestKeepsFit DEF LookupStop, Turns, RequestFits
  <1>19. ASSUME NEW q \in Requests, SettleCancel(q) PROVE FitInv'
    BY <1>19, <1>b, <1>c, RequestDoes, RequestKeepsFit DEF SettleCancel, Turns, RequestFits
  <1>20. CASE Stop
    BY <1>20 DEF Stop, FitInv, FileFits, Quiet, Alive, DriverFits, RequestFits, IdleDriver,
                 IdleRequest, Working, OnItem
  <1>21. CASE UNCHANGED vars
    BY <1>21 DEF vars, FitInv, FileFits, Quiet, Alive
  <1>22. QED
    BY <1>1, <1>2, <1>3, <1>4, <1>5, <1>6, <1>7, <1>8, <1>9, <1>10, <1>11, <1>12, <1>13,
       <1>14, <1>15, <1>16, <1>17, <1>18, <1>19, <1>20, <1>21
       DEF Next, DriverStep, Ask, Serve

----------------------------------------------------------------------------
(* HonestInv.                                                              *)

LEMMA HonestInit == Init => HonestInv
  BY DEF Init, HonestInv, NoneQueued, AllCompleted, DriverHonest, IdleDriver, IdleRequest, NoBatch,
         Waiting, Working, OnItem

LEMMA DriverKeepsHonest ==
    ASSUME HonestInv, NEW d \in Drivers, UNCHANGED request,
           \A e \in Drivers \ {d} : driver'[e] = driver[e],
           faults' = 0 => faults = 0,
           faults' = 0 => /\ NoneQueued(file') /\ AllCompleted(file')
                          /\ DriverHonest(driver'[d], runs', d \in ctxDone'),
           \A e \in Drivers \ {d} :
              /\ driver[e].pc = "readback" => runs'[driver[e].run] = runs[driver[e].run]
              /\ e \in ctxDone => e \in ctxDone'
    PROVE  HonestInv'
  <1> SUFFICES ASSUME faults' = 0
               PROVE  \A e \in Drivers : DriverHonest(driver'[e], runs', e \in ctxDone')
    BY DEF HonestInv
  <1> SUFFICES ASSUME NEW e \in Drivers \ {d}
               PROVE  DriverHonest(driver'[e], runs', e \in ctxDone')
    OBVIOUS
  <1>1. DriverHonest(driver[e], runs, e \in ctxDone) /\ driver'[e] = driver[e]
    BY DEF HonestInv
  <1>2. QED
    BY <1>1 DEF DriverHonest, Over

LEMMA RequestKeepsHonest ==
    ASSUME HonestInv, NEW q \in Requests, UNCHANGED <<driver, runs>>,
           \A p \in Requests \ {q} : request'[p] = request[p],
           ctxDone \subseteq ctxDone',
           faults' = 0 => faults = 0,
           faults' = 0 => /\ NoneQueued(file') /\ AllCompleted(file')
                          /\ NoneQueued(request'[q].batch) /\ AllCompleted(request'[q].batch)
                          /\ request'[q].pc = "settle" => SettledItems(request'[q].batch)
    PROVE  HonestInv'
  <1> SUFFICES ASSUME faults' = 0
               PROVE  \A e \in Drivers : DriverHonest(driver'[e], runs', e \in ctxDone')
    BY DEF HonestInv
  <1> SUFFICES ASSUME NEW e \in Drivers
               PROVE  DriverHonest(driver'[e], runs', e \in ctxDone')
    OBVIOUS
  <1>1. DriverHonest(driver[e], runs, e \in ctxDone) /\ driver'[e] = driver[e]
    BY DEF HonestInv
  <1>2. QED
    BY <1>1 DEF DriverHonest, Over

\* Cancelling settles every item of a copy that has none queued.
LEMMA CancelSettles ==
    ASSUME NEW b \in BatchRecord, NoneQueued(b)
    PROVE  /\ SettledItems(CancelWaiting(b)) /\ NoneQueued(CancelWaiting(b))
           /\ AllCompleted(CancelWaiting(b))
  <1> DEFINE c == CancelWaiting(b)
  <1>1. \A j \in Items : b.items[j].status \in ItemStatus
    BY DEF BatchRecord, BatchItem
  <1>2. /\ c.status = "cancelled"
        /\ \A j \in Items :
              \/ c.items[j] = b.items[j] /\ b.items[j].status \notin {"pending", "running"}
              \/ c.items[j].status = "cancelled"
    BY DEF CancelWaiting, BatchRecord, BatchItem
  <1> HIDE DEF c
  <1>3. \A j \in Items : c.items[j].status \in Terminal
    BY <1>1, <1>2 DEF NoneQueued, ItemStatus, Terminal
  <1>4. SettledItems(c) /\ NoneQueued(c) /\ AllCompleted(c)
    BY <1>2, <1>3 DEF NoneQueued, SettledItems, AllCompleted, Terminal
  <1>5. QED
    BY <1>4 DEF c

\* The verdict settles the batch, and calls it completed only if every item is.
LEMMA VerdictSettles ==
    ASSUME NEW b \in BatchRecord, NEW cancelled \in BOOLEAN, NoneQueued(b),
           ~cancelled => \A j \in Items : b.items[j].status \in {"completed", "failed"}
    PROVE  LET v == Verdict(b, cancelled) IN Settled(v) /\ NoneQueued(v) /\ AllCompleted(v)
  <1>1. CASE cancelled
    <2>1. Verdict(b, cancelled) = CancelWaiting(b)
      BY <1>1 DEF Verdict
    <2>2. QED
      BY <2>1, CancelSettles, CancelWaitingFacts DEF Settled, Terminal
  <1>2. CASE ~cancelled
    <2>1. /\ Verdict(b, cancelled).items = b.items
          /\ Verdict(b, cancelled).status \in {"failed", "completed"}
          /\ Verdict(b, cancelled).status = "completed" => \A j \in Items : b.items[j].status # "failed"
      BY <1>2, VerdictFacts
    <2> DEFINE v == Verdict(b, cancelled)
    <2> HIDE DEF v
    <2>2. QED
      BY <1>2, <2>1 DEF Settled, SettledItems, NoneQueued, AllCompleted, Terminal, v
  <1>3. QED
    BY <1>1, <1>2

\* A driver that settles its item, or has no run for it, and goes on.
LEMMA AdvanceHonest ==
    ASSUME NEW d \in Drivers, driver[d].batch \in BatchRecord, driver[d].i \in Items,
           NEW status \in ItemStatus, NEW e \in Nat, Over(status, d \in ctxDone),
           driver[d].batch.status = "running", NoneQueued(driver[d].batch),
           \A j \in Items : j < driver[d].i => Over(driver[d].batch.items[j].status, d \in ctxDone),
           Becomes(d, "loop", SetItem(driver[d].batch, driver[d].i, status, e), driver[d].i + 1, 0)
    PROVE  /\ DriverHonest(driver'[d], runs', d \in ctxDone)
           /\ NoneQueued(driver'[d].batch) /\ AllCompleted(driver'[d].batch)
  <1> DEFINE b == SetItem(driver[d].batch, driver[d].i, status, e)
  <1>1. /\ b.status = "running" /\ b.items[driver[d].i].status = status
        /\ \A j \in Items \ {driver[d].i} : b.items[j] = driver[d].batch.items[j]
    BY SetItemFacts
  <1>2. driver'[d].pc = "loop" /\ driver'[d].batch = b /\ driver'[d].i = driver[d].i + 1
    BY DEF Becomes
  <1> HIDE DEF b
  <1>3. status # "queued"
    BY DEF Over
  <1>4. NoneQueued(b) /\ AllCompleted(b)
    BY <1>1, <1>3 DEF NoneQueued, AllCompleted
  <1>5. \A j \in Items : j < driver[d].i + 1 => Over(b.items[j].status, d \in ctxDone)
    BY <1>1, BatchAssumption DEF Items
  <1>6. QED
    BY <1>2, <1>4, <1>5 DEF DriverHonest

LEMMA HonestNext == TypeInv /\ ClaimInv /\ FitInv /\ HonestInv /\ [Next]_vars => HonestInv'
  <1> SUFFICES ASSUME TypeInv, ClaimInv, FitInv, HonestInv, [Next]_vars PROVE HonestInv'
    OBVIOUS
  <1>a. ASSUME NEW d \in Drivers
        PROVE  /\ driver[d].batch \in BatchRecord /\ DriverFits(driver[d])
               /\ driver[d].pc \in OnItem => driver[d].i \in Items
               /\ driver[d].pc \in OnRun => driver[d].run \in 1..Len(runs)
               /\ driver[d].run \in Nat /\ driver[d].i \in 1..(N+1)
               /\ faults = 0 => DriverHonest(driver[d], runs, d \in ctxDone)
    BY DEF TypeInv, TypeOK, ItemInRange, RunInRange, DriverRecord, FitInv, HonestInv
  <1>b. ASSUME NEW q \in Requests
        PROVE  /\ request[q].batch \in BatchRecord /\ RequestFits(request[q])
               /\ faults = 0 => /\ NoneQueued(request[q].batch) /\ AllCompleted(request[q].batch)
                                /\ request[q].pc = "settle" => SettledItems(request[q].batch)
    BY DEF TypeInv, TypeOK, RequestRecord, FitInv, HonestInv
  <1>c. /\ file \in BatchRecord /\ faults \in Nat
        /\ faults = 0 => NoneQueued(file) /\ AllCompleted(file)
    BY DEF TypeInv, TypeOK, HonestInv
  <1>d. faults' = 0 => faults = 0
    BY FaultsGrow
  <1>1. ASSUME NEW d \in Drivers, Register(d) PROVE HonestInv'
    <2>1. Becomes(d, "registered", driver[d].batch, driver[d].i, driver[d].run)
      BY <1>1, DriverDoes
    <2>2. faults' = 0 => DriverHonest(driver'[d], runs', d \in ctxDone')
      BY <1>1, <1>a, <1>d, <2>1 DEF Register, Becomes, DriverHonest, Working, OnItem
    <2>3. QED
      BY <1>1, <1>c, <1>d, <2>1, <2>2, DriverKeepsHonest DEF Register, Becomes
  <1>2. ASSUME NEW d \in Drivers, MarkRunning(d) PROVE HonestInv'
    <2> DEFINE b == [driver[d].batch EXCEPT !.status = "running"]
    <2>1. b.status = "running" /\ b.items = driver[d].batch.items /\ b \in BatchRecord
      BY <1>a DEF BatchRecord, BatchStatus
    <2>2. Becomes(d, "loop", b, driver[d].i, driver[d].run) /\ Persist(b)
      BY <1>2, DriverDoes DEF MarkRunning
    <2> HIDE DEF b
    <2>3. driver[d].i = 1
      BY <1>2, <1>a DEF MarkRunning, DriverFits
    <2>4. faults' = 0 => file' = b /\ NoneQueued(b) /\ AllCompleted(b)
      BY <1>a, <1>c, <1>d, <2>1, <2>2, PersistFacts DEF DriverHonest, NoneQueued, AllCompleted
    <2>5. faults' = 0 => DriverHonest(driver'[d], runs', d \in ctxDone')
      BY <2>2, <2>3, <2>4 DEF Becomes, DriverHonest, Items
    <2>6. QED
      BY <1>2, <1>d, <2>2, <2>4, <2>5, DriverKeepsHonest DEF MarkRunning, Becomes
  <1>3. ASSUME NEW d \in Drivers, SkipCompleted(d) PROVE HonestInv'
    <2>1. Becomes(d, "loop", driver[d].batch, driver[d].i + 1, driver[d].run)
      BY <1>3, DriverDoes
    <2>2. faults = 0 => \A j \in Items : j < driver[d].i + 1 =>
              Over(driver[d].batch.items[j].status, d \in ctxDone)
      BY <1>3, <1>a, BatchAssumption DEF SkipCompleted, DriverHonest, Working, OnItem, Over, Items
    <2>3. faults' = 0 => DriverHonest(driver'[d], runs', d \in ctxDone')
      BY <1>3, <1>a, <1>d, <2>1, <2>2 DEF SkipCompleted, Becomes, DriverHonest
    <2>4. QED
      BY <1>3, <1>c, <1>d, <2>1, <2>3, DriverKeepsHonest DEF SkipCompleted, Becomes
  <1>4. ASSUME NEW d \in Drivers, TakeItem(d) PROVE HonestInv'
    <2>1. Becomes(d, "item", driver[d].batch, driver[d].i, driver[d].run)
      BY <1>4, DriverDoes
    <2>2. faults' = 0 => DriverHonest(driver'[d], runs', d \in ctxDone')
      BY <1>4, <1>a, <1>d, <2>1 DEF TakeItem, Becomes, DriverHonest, Working, OnItem
    <2>3. QED
      BY <1>4, <1>c, <1>d, <2>1, <2>2, DriverKeepsHonest DEF TakeItem, Becomes
  <1>5. ASSUME NEW d \in Drivers, RefuseItem(d) PROVE HonestInv'
    <2> DEFINE b == SetItem(driver[d].batch, driver[d].i, "failed", 0)
    <2>1. Becomes(d, "loop", b, driver[d].i + 1, 0) /\ Persist(b)
      BY <1>5, DriverDoes DEF RefuseItem
    <2>2. /\ driver[d].i \in Items /\ driver[d].batch.status = "running" /\ "failed" \in ItemStatus
          /\ Over("failed", d \in ctxDone) /\ (d \in ctxDone) \in BOOLEAN
      BY <1>5, <1>a DEF RefuseItem, DriverFits, Working, OnItem, ItemStatus, Over
    <2>3. b \in BatchRecord
      BY <1>a, <2>2, SetItemFacts
    <2>4. faults = 0 => /\ NoneQueued(driver[d].batch)
                        /\ \A j \in Items : j < driver[d].i =>
                              Over(driver[d].batch.items[j].status, d \in ctxDone)
      BY <1>5, <1>a DEF RefuseItem, DriverHonest, Working, OnItem
    <2>5. driver[d].batch \in BatchRecord /\ 0 \in Nat
      BY <1>a
    <2>6. faults = 0 => /\ DriverHonest(driver'[d], runs', d \in ctxDone)
                        /\ NoneQueued(driver'[d].batch) /\ AllCompleted(driver'[d].batch)
      BY <2>1, <2>2, <2>4, <2>5, AdvanceHonest
    <2> HIDE DEF b
    <2>7. QED
      BY <1>5, <1>c, <1>d, <2>1, <2>3, <2>6, PersistFacts, DriverKeepsHonest DEF RefuseItem, Becomes
  <1>6. ASSUME NEW d \in Drivers, PrepareRun(d) PROVE HonestInv'
    <2>1. Becomes(d, "prepared", driver[d].batch, driver[d].i, Len(runs) + 1)
      BY <1>6, DriverDoes
    <2>2. faults' = 0 => DriverHonest(driver'[d], runs', d \in ctxDone')
      BY <1>6, <1>a, <1>d, <2>1 DEF PrepareRun, Becomes, DriverHonest, Working, OnItem
    <2>3. \A e \in Drivers : driver[e].pc = "readback" => runs'[driver[e].run] = runs[driver[e].run]
      <3>1. [item |-> driver[d].i, status |-> "queued"] \in RunRecord
        BY <1>6, <1>a DEF PrepareRun, OnItem, RunRecord, RunStatus
      <3>2. \A k \in 1..Len(runs) : runs'[k] = runs[k]
        BY <1>6, <3>1, AppendRunFacts DEF PrepareRun, TypeInv, TypeOK
      <3>3. QED
        BY <1>a, <3>2 DEF OnRun
    <2>4. QED
      BY <1>6, <1>c, <1>d, <2>1, <2>2, <2>3, DriverKeepsHonest DEF PrepareRun, Becomes
  <1>7. ASSUME NEW d \in Drivers, MarkItemRunning(d) PROVE HonestInv'
    <2> DEFINE b == SetItem(driver[d].batch, driver[d].i, "running", driver[d].run)
    <2>1. Becomes(d, "execute", b, driver[d].i, driver[d].run) /\ Persist(b)
      BY <1>7, DriverDoes DEF MarkItemRunning
    <2>2. driver[d].i \in Items /\ driver[d].batch.status = "running" /\ "running" \in ItemStatus
      BY <1>7, <1>a DEF MarkItemRunning, DriverFits, Working, OnItem, ItemStatus
    <2>3. /\ b \in BatchRecord /\ b.status = "running" /\ b.items[driver[d].i].status = "running"
          /\ \A j \in Items \ {driver[d].i} : b.items[j] = driver[d].batch.items[j]
      <3>1. driver[d].batch \in BatchRecord /\ driver[d].run \in Nat
        BY <1>a
      <3>2. QED
        BY <2>2, <3>1, SetItemFacts, SMTT(30)
    <2> HIDE DEF b
    <2>4. faults = 0 => NoneQueued(b) /\ AllCompleted(b)
      BY <1>a, <2>3 DEF DriverHonest, NoneQueued, AllCompleted
    <2>5. faults = 0 => \A j \in Items : j < driver[d].i => Over(b.items[j].status, d \in ctxDone)
      BY <1>7, <1>a, <2>3, BatchAssumption DEF MarkItemRunning, DriverHonest, Working, OnItem, Items
    <2>6. faults = 0 => DriverHonest(driver'[d], runs', d \in ctxDone')
      BY <1>7, <2>1, <2>4, <2>5 DEF MarkItemRunning, Becomes, DriverHonest
    <2>7. QED
      BY <1>7, <1>c, <1>d, <2>1, <2>3, <2>4, <2>6, PersistFacts, DriverKeepsHonest
         DEF MarkItemRunning, Becomes
  <1>e. ASSUME NEW d \in Drivers, driver[d].pc \in OnRun, NEW status \in RunStatus,
               PersistRun(driver[d].run, status)
        PROVE  /\ faults' = 0 => runs'[driver[d].run].status = status
               /\ \A e \in Drivers \ {d} :
                     driver[e].pc = "readback" => runs'[driver[e].run] = runs[driver[e].run]
    <2>1. driver[d].run \in 1..Len(runs)
      BY <1>a, <1>e
    <2>2. /\ \A k \in 1..Len(runs) : k # driver[d].run => runs'[k] = runs[k]
          /\ faults' = 0 => runs'[driver[d].run].status = status
      BY <1>e, <2>1, PersistRunFacts DEF TypeInv
    <2>3. \A e \in Drivers \ {d} : driver[e].pc = "readback" =>
              driver[e].run \in 1..Len(runs) /\ driver[e].run # driver[d].run
      BY <1>a, <1>e DEF OnRun, ClaimInv, RunsDistinct
    <2>4. QED
      BY <2>2, <2>3
  <1>8. ASSUME NEW d \in Drivers, StartRun(d) PROVE HonestInv'
    <2>1. Becomes(d, "executing", driver[d].batch, driver[d].i, driver[d].run)
      BY <1>8, DriverDoes
    <2>2. faults' = 0 => DriverHonest(driver'[d], runs', d \in ctxDone')
      BY <1>8, <1>a, <1>d, <2>1 DEF StartRun, Becomes, DriverHonest, Working, OnItem
    <2>3. driver[d].pc \in OnRun /\ "running" \in RunStatus /\ PersistRun(driver[d].run, "running")
      BY <1>8 DEF StartRun, OnRun, RunStatus
    <2>4. QED
      BY <1>8, <1>c, <1>d, <1>e, <2>1, <2>2, <2>3, DriverKeepsHonest DEF StartRun, Becomes
  <1>9. ASSUME NEW d \in Drivers, EndRun(d) PROVE HonestInv'
    <2>1. Becomes(d, "readback", driver[d].batch, driver[d].i, driver[d].run)
      BY <1>9, DriverDoes
    <2>2. PICK status \in RunOutcome(d) : PersistRun(driver[d].run, status)
      BY <1>9 DEF EndRun
    <2>3. driver[d].pc \in OnRun /\ status \in RunStatus /\ Over(status, d \in ctxDone)
      BY <1>9, <2>2 DEF EndRun, OnRun, RunOutcome, RunStatus, Over
    <2>4. faults' = 0 => Over(runs'[driver[d].run].status, d \in ctxDone)
      BY <1>e, <2>2, <2>3
    <2>5. faults' = 0 => DriverHonest(driver'[d], runs', d \in ctxDone')
      BY <1>9, <1>a, <1>d, <2>1, <2>4 DEF EndRun, Becomes, DriverHonest, Working, OnItem
    <2>6. QED
      BY <1>9, <1>c, <1>d, <1>e, <2>1, <2>2, <2>3, <2>5, DriverKeepsHonest DEF EndRun, Becomes
  <1>10. ASSUME NEW d \in Drivers, SettleItem(d) PROVE HonestInv'
    <2>1. PICK status \in ReadBack(driver[d].run) :
             LET b == SetItem(driver[d].batch, driver[d].i, status, driver[d].run)
             IN  Becomes(d, "loop", b, driver[d].i + 1, 0) /\ Persist(b)
      BY <1>10, SettleDoes
    <2> DEFINE b == SetItem(driver[d].batch, driver[d].i, status, driver[d].run)
    <2>2. /\ driver[d].i \in Items /\ driver[d].batch.status = "running"
          /\ driver[d].run \in 1..Len(runs) /\ (d \in ctxDone) \in BOOLEAN
      BY <1>10, <1>a DEF SettleItem, DriverFits, Working, OnItem, OnRun
    <2>3. status \in ItemStatus
      <3>1. runs[driver[d].run] \in RunRecord
        BY <2>2, ElementOfSeq DEF TypeInv, TypeOK
      <3>2. QED
        BY <2>1, <3>1 DEF ReadBack, RunRecord, RunStatus, ItemStatus
    <2>4. b \in BatchRecord
      BY <1>a, <2>2, <2>3, SetItemFacts
    <2>5. faults = 0 => /\ NoneQueued(driver[d].batch) /\ Over(status, d \in ctxDone)
                        /\ \A j \in Items : j < driver[d].i =>
                              Over(driver[d].batch.items[j].status, d \in ctxDone)
      BY <1>10, <1>a, <2>1 DEF SettleItem, DriverHonest, Working, OnItem, ReadBack, Over
    <2>6. driver[d].batch \in BatchRecord /\ driver[d].run \in Nat
      BY <1>a
    <2>7. faults = 0 => /\ DriverHonest(driver'[d], runs', d \in ctxDone)
                        /\ NoneQueued(driver'[d].batch) /\ AllCompleted(driver'[d].batch)
      BY <2>1, <2>2, <2>3, <2>5, <2>6, AdvanceHonest
    <2>8. Becomes(d, "loop", b, driver[d].i + 1, 0) /\ Persist(b)
      BY <2>1
    <2> HIDE DEF b
    <2>9. QED
      BY <1>10, <1>c, <1>d, <2>4, <2>7, <2>8, PersistFacts, DriverKeepsHonest DEF SettleItem, Becomes
  <1>11. ASSUME NEW d \in Drivers, Finish(d) PROVE HonestInv'
    <2> DEFINE b == Verdict(driver[d].batch, d \in ctxDone)
    <2>1. Becomes(d, "leaving", b, driver[d].i, driver[d].run) /\ Persist(b)
      BY <1>11, DriverDoes DEF Finish
    <2>2. (d \in ctxDone) \in BOOLEAN
      OBVIOUS
    <2>3. faults = 0 => /\ NoneQueued(driver[d].batch)
                        /\ d \notin ctxDone => \A j \in Items :
                              driver[d].batch.items[j].status \in {"completed", "failed"}
      BY <1>11, <1>a, BatchAssumption DEF Finish, DriverHonest, Working, OnItem, Over, Items
    <2>4. b \in BatchRecord
      BY <1>a, <2>2, VerdictFacts
    <2>5. faults = 0 => NoneQueued(b) /\ AllCompleted(b)
      BY <1>a, <2>2, <2>3, VerdictSettles
    <2> HIDE DEF b
    <2>6. faults = 0 => DriverHonest(driver'[d], runs', d \in ctxDone')
      BY <2>1, <2>5 DEF Becomes, DriverHonest, Working, OnItem
    <2>7. QED
      BY <1>11, <1>c, <1>d, <2>1, <2>4, <2>5, <2>6, PersistFacts, DriverKeepsHonest
         DEF Finish, Becomes
  <1>12. ASSUME NEW d \in Drivers, Leave(d) PROVE HonestInv'
    <2>1. Becomes(d, "idle", NoBatch, 1, 0)
      BY <1>12, DriverDoes
    <2>2. DriverHonest(driver'[d], runs', d \in ctxDone')
      BY <2>1 DEF Becomes, DriverHonest, Working, OnItem, NoneQueued, NoBatch, Waiting
    <2>3. QED
      BY <1>12, <1>c, <1>d, <2>1, <2>2, DriverKeepsHonest DEF Leave, Becomes
  <1>f. NoneQueued(NoBatch) /\ AllCompleted(NoBatch)
    BY DEF NoneQueued, AllCompleted, NoBatch, Waiting
  <1>13. ASSUME NEW q \in Requests, CreateBatch(q) PROVE HonestInv'
    <2>1. CASE Turns(q, "spawn", file') /\ file' = [NoBatch EXCEPT !.status = "queued"]
      <3>1. NoneQueued(file') /\ AllCompleted(file')
        BY <2>1 DEF NoneQueued, AllCompleted, NoBatch, Waiting
      <3>2. QED
        BY <1>13, <1>d, <2>1, <3>1, RequestKeepsHonest DEF CreateBatch, Turns
    <2>2. CASE UNCHANGED <<file, request>>
      BY <1>13, <1>b, <1>c, <1>d, <2>2, RequestKeepsHonest DEF CreateBatch
    <2>3. QED
      BY <1>13, <2>1, <2>2, RequestDoes
  <1>14. ASSUME NEW q \in Requests, NEW kind \in {"retry", "restart", "cancel"}, ReadBatch(q, kind)
         PROVE HonestInv'
    BY <1>14, <1>c, <1>d, RequestDoes, RequestKeepsHonest DEF ReadBatch, Turns
  <1>15. ASSUME NEW q \in Requests, CheckNotRunning(q) PROVE HonestInv'
    <2> DEFINE b == Reset(request[q].batch, request[q].kind = "restart")
    <2>1. b.status = "queued" /\ \A j \in Items : b.items[j] = Waiting \/ b.items[j] = request[q].batch.items[j]
      BY DEF Reset
    <2>2. Turns(q, "save", b) \/ Turns(q, "idle", NoBatch)
      BY <1>15, RequestDoes
    <2> HIDE DEF b
    <2>3. faults = 0 => NoneQueued(b) /\ AllCompleted(b)
      BY <1>b, <2>1 DEF NoneQueued, AllCompleted, Waiting
    <2>4. QED
      BY <1>15, <1>c, <1>d, <1>f, <2>2, <2>3, RequestKeepsHonest DEF CheckNotRunning, Turns
  <1>16. ASSUME NEW q \in Requests, SaveRetry(q) PROVE HonestInv'
    BY <1>16, <1>b, <1>c, <1>d, <1>f, RequestDoes, RequestKeepsHonest DEF SaveRetry, Turns
  <1>17. ASSUME NEW q \in Requests, NEW d \in Drivers, Spawn(q, d) PROVE HonestInv'
    <2>1. Becomes(d, "spawned", request[q].batch, 1, 0) /\ Turns(q, "idle", NoBatch)
      BY <1>17, RequestDoes
    <2>2. faults = 0 => DriverHonest(driver'[d], runs', d \in ctxDone')
      BY <1>17, <1>b, <2>1 DEF Spawn, Becomes, DriverHonest, Working, OnItem
    <2>3. QED
      BY <1>17, <1>d, <1>f, <2>1, <2>2 DEF Spawn, HonestInv, Becomes, Turns
  <1>18. ASSUME NEW q \in Requests, LookupStop(q) PROVE HonestInv'
    <2> DEFINE b == CancelWaiting(request[q].batch)
    <2>1. Turns(q, "settle", b) \/ Turns(q, "idle", NoBatch)
      BY <1>18, RequestDoes
    <2>2. faults = 0 => NoneQueued(b) /\ AllCompleted(b) /\ SettledItems(b)
      BY <1>b, CancelSettles
    <2> HIDE DEF b
    <2>3. QED
      BY <1>18, <1>c, <1>d, <1>f, <2>1, <2>2, RequestKeepsHonest DEF LookupStop, Turns
  <1>19. ASSUME NEW q \in Requests, SettleCancel(q) PROVE HonestInv'
    BY <1>19, <1>b, <1>c, <1>d, <1>f, RequestDoes, RequestKeepsHonest DEF SettleCancel, Turns
  <1>20. CASE Stop
    BY <1>20, <1>f DEF Stop, HonestInv, DriverHonest, IdleDriver, IdleRequest, Working, OnItem
  <1>21. CASE UNCHANGED vars
    BY <1>21 DEF vars, HonestInv
  <1>22. QED
    BY <1>1, <1>2, <1>3, <1>4, <1>5, <1>6, <1>7, <1>8, <1>9, <1>10, <1>11, <1>12, <1>13,
       <1>14, <1>15, <1>16, <1>17, <1>18, <1>19, <1>20, <1>21
       DEF Next, DriverStep, Ask, Serve

\* A batch file says completed only of a batch every item of which completed,
\* whoever raced whom, as long as no write failed (finish).
THEOREM CompletedMeansEveryAlways == Spec => []CompletedMeansEvery
  <1>1. Spec => []TypeInv
    BY TypeInit, TypeNext, PTL DEF Spec
  <1>2. Spec => []ClaimInv
    BY <1>1, ClaimInit, ClaimNext, PTL DEF Spec
  <1>3. Spec => []FitInv
    BY <1>1, FitInit, FitNext, PTL DEF Spec
  <1>4. Spec => []HonestInv
    BY <1>1, <1>2, <1>3, HonestInit, HonestNext, PTL DEF Spec
  <1>5. HonestInv => CompletedMeansEvery
    BY DEF HonestInv, CompletedMeansEvery
  <1>6. QED
    BY <1>4, <1>5, PTL

----------------------------------------------------------------------------
(* SettledInv.                                                             *)

LEMMA SettledInit == Init => SettledInv
  BY EmptySeq DEF Init, SettledInv, OpenRunOwned, NoBatch

LEMMA DriverKeepsSettled ==
    ASSUME SettledInv, NEW d \in Drivers, UNCHANGED <<request, stops>>,
           \A e \in Drivers \ {d} : driver'[e] = driver[e],
           faults' = 0 => faults = 0,
           faults' = 0 => \A k \in DOMAIN runs' :
              \/ runs'[k].status \in Terminal
              \/ driver'[d].pc \in OpenRun /\ driver'[d].run = k
              \/ /\ k \in DOMAIN runs /\ runs[k].status \notin Terminal
                 /\ ~(driver[d].pc \in OpenRun /\ driver[d].run = k),
           faults' = 0 => \/ driver'[d].pc \notin {"idle", "leaving"}
                          \/ Settled(file')
                          \/ file' = file /\ driver[d].pc = "leaving"
    PROVE  SettledInv'
  <1> SUFFICES ASSUME faults' = 0, stops' = 0
               PROVE  OpenRunOwned' /\ (file'.status = "absent" \/ Settled(file') \/ Pending')
    BY DEF SettledInv
  <1>1. OpenRunOwned /\ (file.status = "absent" \/ Settled(file) \/ Pending)
    BY DEF SettledInv
  <1>2. OpenRunOwned'
    BY <1>1 DEF OpenRunOwned
  <1>3. file'.status = "absent" \/ Settled(file') \/ Pending'
    BY <1>1 DEF Pending
  <1>4. QED
    BY <1>2, <1>3

LEMMA RequestKeepsSettled ==
    ASSUME SettledInv, NEW q \in Requests, UNCHANGED <<driver, runs, stops>>,
           \A p \in Requests \ {q} : request'[p] = request[p],
           faults' = 0 => faults = 0,
           faults' = 0 => \/ request'[q].pc = "spawn"
                          \/ Settled(file')
                          \/ file' = file /\ request[q].pc # "spawn"
    PROVE  SettledInv'
  BY DEF SettledInv, OpenRunOwned, Pending

LEMMA SettledNext ==
    TypeInv /\ FitInv /\ HonestInv /\ SettledInv /\ [Next]_vars => SettledInv'
  <1> SUFFICES ASSUME TypeInv, FitInv, HonestInv, SettledInv, [Next]_vars PROVE SettledInv'
    OBVIOUS
  <1>a. faults' = 0 => faults = 0
    BY FaultsGrow
  <1>b. ASSUME NEW d \in Drivers, UNCHANGED runs,
               driver[d].pc \in OpenRun => driver'[d].pc \in OpenRun /\ driver'[d].run = driver[d].run
        PROVE  \A k \in DOMAIN runs' :
              \/ runs'[k].status \in Terminal
              \/ driver'[d].pc \in OpenRun /\ driver'[d].run = k
              \/ /\ k \in DOMAIN runs /\ runs[k].status \notin Terminal
                 /\ ~(driver[d].pc \in OpenRun /\ driver[d].run = k)
    BY <1>b
  <1>1. ASSUME NEW d \in Drivers, Register(d) PROVE SettledInv'
    BY <1>1, <1>a, <1>b, DriverDoes, DriverKeepsSettled DEF Register, Becomes, OpenRun
  <1>2. ASSUME NEW d \in Drivers, MarkRunning(d) PROVE SettledInv'
    BY <1>2, <1>a, <1>b, DriverDoes, DriverKeepsSettled DEF MarkRunning, Becomes, OpenRun
  <1>3. ASSUME NEW d \in Drivers, SkipCompleted(d) PROVE SettledInv'
    BY <1>3, <1>a, <1>b, DriverDoes, DriverKeepsSettled DEF SkipCompleted, Becomes, OpenRun
  <1>4. ASSUME NEW d \in Drivers, TakeItem(d) PROVE SettledInv'
    BY <1>4, <1>a, <1>b, DriverDoes, DriverKeepsSettled DEF TakeItem, Becomes, OpenRun
  <1>5. ASSUME NEW d \in Drivers, RefuseItem(d) PROVE SettledInv'
    BY <1>5, <1>a, <1>b, DriverDoes, DriverKeepsSettled DEF RefuseItem, Becomes, OpenRun
  <1>6. ASSUME NEW d \in Drivers, PrepareRun(d) PROVE SettledInv'
    <2>1. Becomes(d, "prepared", driver[d].batch, driver[d].i, Len(runs) + 1)
      BY <1>6, DriverDoes
    <2>2. /\ DOMAIN runs' = 1..(Len(runs) + 1) /\ DOMAIN runs = 1..Len(runs) /\ Len(runs) \in Nat
          /\ \A k \in 1..Len(runs) : runs'[k] = runs[k]
      BY <1>6, LenProperties, AppendProperties DEF PrepareRun, TypeInv, TypeOK
    <2>3. \A k \in DOMAIN runs' :
              \/ driver'[d].pc \in OpenRun /\ driver'[d].run = k
              \/ k \in DOMAIN runs /\ runs'[k] = runs[k]
      BY <2>1, <2>2 DEF Becomes, OpenRun
    <2>4. driver[d].pc \notin OpenRun
      BY <1>6 DEF PrepareRun, OpenRun
    <2>5. QED
      BY <1>6, <1>a, <2>1, <2>3, <2>4, DriverKeepsSettled DEF PrepareRun, Becomes
  <1>7. ASSUME NEW d \in Drivers, MarkItemRunning(d) PROVE SettledInv'
    BY <1>7, <1>a, <1>b, DriverDoes, DriverKeepsSettled DEF MarkItemRunning, Becomes, OpenRun
  <1>c. ASSUME NEW d \in Drivers, driver[d].pc \in OnRun, NEW status \in RunStatus,
               PersistRun(driver[d].run, status)
        PROVE  /\ DOMAIN runs' = DOMAIN runs
               /\ \A k \in DOMAIN runs : k # driver[d].run => runs'[k] = runs[k]
               /\ faults' = 0 => runs'[driver[d].run].status = status
    <2>1. driver[d].run \in 1..Len(runs)
      BY <1>c DEF TypeInv, RunInRange
    <2>2. QED
      BY <1>c, <2>1, PersistRunFacts, LenProperties DEF TypeInv, TypeOK
  <1>8. ASSUME NEW d \in Drivers, StartRun(d) PROVE SettledInv'
    <2>1. Becomes(d, "executing", driver[d].batch, driver[d].i, driver[d].run)
      BY <1>8, DriverDoes
    <2>2. driver[d].pc \in OnRun /\ "running" \in RunStatus /\ PersistRun(driver[d].run, "running")
      BY <1>8 DEF StartRun, OnRun, RunStatus
    <2>3. \A k \in DOMAIN runs' :
              \/ driver'[d].pc \in OpenRun /\ driver'[d].run = k
              \/ k \in DOMAIN runs /\ runs'[k] = runs[k] /\ k # driver[d].run
      BY <1>c, <2>1, <2>2 DEF Becomes, OpenRun
    <2>4. QED
      BY <1>8, <1>a, <2>1, <2>3, DriverKeepsSettled DEF StartRun, Becomes
  <1>9. ASSUME NEW d \in Drivers, EndRun(d) PROVE SettledInv'
    <2>1. Becomes(d, "readback", driver[d].batch, driver[d].i, driver[d].run)
      BY <1>9, DriverDoes
    <2>2. PICK status \in RunOutcome(d) : PersistRun(driver[d].run, status)
      BY <1>9 DEF EndRun
    <2>3. driver[d].pc \in OnRun /\ status \in RunStatus /\ status \in Terminal
      BY <1>9, <2>2 DEF EndRun, OnRun, RunOutcome, RunStatus, Terminal
    <2>4. faults' = 0 => \A k \in DOMAIN runs' :
              \/ runs'[k].status \in Terminal
              \/ k \in DOMAIN runs /\ runs'[k] = runs[k] /\ k # driver[d].run
      BY <1>c, <2>2, <2>3
    <2>5. QED
      BY <1>9, <1>a, <2>1, <2>4, DriverKeepsSettled DEF EndRun, Becomes
  <1>10. ASSUME NEW d \in Drivers, SettleItem(d) PROVE SettledInv'
    <2>1. driver'[d].pc = "loop" /\ \A e \in Drivers \ {d} : driver'[e] = driver[e]
      BY <1>10, SettleDoes DEF Becomes
    <2>2. QED
      BY <1>10, <1>a, <1>b, <2>1, DriverKeepsSettled DEF SettleItem, OpenRun
  <1>11. ASSUME NEW d \in Drivers, Finish(d) PROVE SettledInv'
    <2> DEFINE b == Verdict(driver[d].batch, d \in ctxDone)
    <2>1. Becomes(d, "leaving", b, driver[d].i, driver[d].run) /\ Persist(b)
      BY <1>11, DriverDoes DEF Finish
    <2>2. (d \in ctxDone) \in BOOLEAN /\ driver[d].batch \in BatchRecord /\ driver[d].i \in 1..(N+1)
      BY DEF TypeInv, TypeOK, DriverRecord
    <2>3. faults = 0 => DriverHonest(driver[d], runs, d \in ctxDone)
      BY DEF HonestInv
    <2>4. faults = 0 => /\ NoneQueued(driver[d].batch)
                        /\ d \notin ctxDone => \A j \in Items :
                              driver[d].batch.items[j].status \in {"completed", "failed"}
      BY <1>11, <2>2, <2>3, BatchAssumption DEF Finish, DriverHonest, Working, OnItem, Over, Items
    <2>5. faults = 0 => Settled(b)
      BY <2>2, <2>4, VerdictSettles
    <2>6. b \in BatchRecord /\ file \in BatchRecord /\ faults \in Nat
      BY <2>2, VerdictFacts DEF TypeInv, TypeOK
    <2> HIDE DEF b
    <2>7. faults' = 0 => Settled(file')
      BY <1>a, <2>1, <2>5, <2>6, PersistFacts
    <2>8. QED
      BY <1>11, <1>a, <1>b, <2>1, <2>7, DriverKeepsSettled DEF Finish, Becomes, OpenRun
  <1>12. ASSUME NEW d \in Drivers, Leave(d) PROVE SettledInv'
    BY <1>12, <1>a, <1>b, DriverDoes, DriverKeepsSettled DEF Leave, Becomes, OpenRun
  <1>13. ASSUME NEW q \in Requests, CreateBatch(q) PROVE SettledInv'
    <2>1. CASE Turns(q, "spawn", file')
      BY <1>13, <1>a, <2>1, RequestKeepsSettled DEF CreateBatch, Turns
    <2>2. CASE UNCHANGED <<file, request>>
      BY <1>13, <1>a, <2>2, RequestKeepsSettled DEF CreateBatch
    <2>3. QED
      BY <1>13, <2>1, <2>2, RequestDoes
  <1>14. ASSUME NEW q \in Requests, NEW kind \in {"retry", "restart", "cancel"}, ReadBatch(q, kind)
         PROVE SettledInv'
    BY <1>14, <1>a, RequestDoes, RequestKeepsSettled DEF ReadBatch, Turns
  <1>15. ASSUME NEW q \in Requests, CheckNotRunning(q) PROVE SettledInv'
    BY <1>15, <1>a, RequestDoes, RequestKeepsSettled DEF CheckNotRunning, Turns
  <1>16. ASSUME NEW q \in Requests, SaveRetry(q) PROVE SettledInv'
    BY <1>16, <1>a, RequestDoes, RequestKeepsSettled DEF SaveRetry, Turns
  <1>17. ASSUME NEW q \in Requests, NEW d \in Drivers, Spawn(q, d) PROVE SettledInv'
    <2>1. Becomes(d, "spawned", request[q].batch, 1, 0)
      BY <1>17, RequestDoes
    <2>2. Pending'
      BY <2>1 DEF Becomes, Pending
    <2>3. driver[d].pc \notin OpenRun
      BY <1>17 DEF Spawn, OpenRun
    <2>4. OpenRunOwned => OpenRunOwned'
      BY <1>17, <2>1, <2>3 DEF Spawn, OpenRunOwned, Becomes
    <2>5. QED
      BY <1>17, <2>2, <2>4 DEF Spawn, SettledInv
  <1>18. ASSUME NEW q \in Requests, LookupStop(q) PROVE SettledInv'
    BY <1>18, <1>a, RequestDoes, RequestKeepsSettled DEF LookupStop, Turns
  <1>19. ASSUME NEW q \in Requests, SettleCancel(q) PROVE SettledInv'
    <2>1. Turns(q, "idle", NoBatch) /\ request[q].pc = "settle"
      BY <1>19, RequestDoes DEF SettleCancel
    <2>2. request[q].batch.status \in Terminal /\ (faults = 0 => SettledItems(request[q].batch))
      BY <2>1 DEF FitInv, RequestFits, HonestInv, Terminal
    <2>3. file' = request[q].batch \/ file' = file
      BY <1>19 DEF SettleCancel
    <2>4. QED
      BY <1>19, <1>a, <2>1, <2>2, <2>3, RequestKeepsSettled DEF SettleCancel, Turns, Settled
  <1>20. CASE Stop
    BY <1>20 DEF Stop, SettledInv, TypeInv, TypeOK
  <1>21. CASE UNCHANGED vars
    BY <1>21 DEF vars, SettledInv, OpenRunOwned, Pending
  <1>22. QED
    BY <1>1, <1>2, <1>3, <1>4, <1>5, <1>6, <1>7, <1>8, <1>9, <1>10, <1>11, <1>12, <1>13,
       <1>14, <1>15, <1>16, <1>17, <1>18, <1>19, <1>20, <1>21
       DEF Next, DriverStep, Ask, Serve

----------------------------------------------------------------------------
(* OwnerInv.                                                               *)

LEMMA OwnerInit == Init => OwnerInv
  BY DEF Init, OwnerInv, OneOwner, OneWriter, Alive, IdleDriver, IdleRequest

\* The owner d moves on, and the file with it.
LEMMA DriverKeepsOwner ==
    ASSUME OwnerInv, NEW d \in Drivers, driver[d].pc # "idle", UNCHANGED <<request, raced>>,
           \A e \in Drivers \ {d} : driver'[e] = driver[e],
           faults' = 0 => faults = 0,
           ~raced => \A j \in Items :
              AheadOf(driver'[d], j) => file'.items[j] = driver'[d].batch.items[j],
           ~raced /\ faults' = 0 /\ driver'[d].pc # "idle" =>
              /\ driver'[d].pc \notin {"spawned", "registered"} => file' = driver'[d].batch
              /\ file'.items = driver'[d].batch.items
    PROVE  OwnerInv'
  <1> SUFFICES ASSUME ~raced PROVE OwnerInv'
    BY DEF OwnerInv
  <1>1. OneOwner
    BY DEF OwnerInv
  <1>2. \A e \in Drivers \ {d} : driver[e].pc = "idle"
    BY <1>1 DEF OneOwner, OneWriter, Alive
  <1>3. \A q \in Requests : request'[q].pc # "spawn"
    BY <1>1 DEF OneOwner, Alive
  <1>4. Alive' \subseteq {d}
    BY <1>2 DEF Alive
  <1>5. QED
    BY <1>3, <1>4 DEF OwnerInv, OneOwner, OneWriter, Alive

\* A step that writes the copy it leaves the driver with, or fails to.
LEMMA WriterKeepsOwner ==
    ASSUME TypeInv, OwnerInv, NEW d \in Drivers, driver[d].pc # "idle", UNCHANGED <<request, raced>>,
           faults' = 0 => faults = 0,
           NEW b \in BatchRecord, Persist(b), NEW pc, NEW i, NEW k, Becomes(d, pc, b, i, k),
           \A j \in Items : AheadOf(driver'[d], j) =>
              AheadOf(driver[d], j) /\ b.items[j] = driver[d].batch.items[j]
    PROVE  OwnerInv'
  <1>1. file' \in {file, b} /\ (faults' = 0 => file' = b)
    BY PersistFacts DEF TypeInv, TypeOK
  <1>2. driver'[d].batch = b /\ \A e \in Drivers \ {d} : driver'[e] = driver[e]
    BY DEF Becomes
  <1>3. ~raced => \A j \in Items : AheadOf(driver[d], j) => file.items[j] = driver[d].batch.items[j]
    BY DEF OwnerInv, Alive
  <1>4. ~raced => \A j \in Items : AheadOf(driver'[d], j) => file'.items[j] = driver'[d].batch.items[j]
    BY <1>1, <1>2, <1>3
  <1>5. QED
    BY <1>1, <1>2, <1>4, DriverKeepsOwner

\* A step that leaves the file and the items of the driver's copy alone.
LEMMA ReaderKeepsOwner ==
    ASSUME OwnerInv, NEW d \in Drivers, driver[d].pc # "idle", UNCHANGED <<file, request, raced>>,
           faults' = 0 => faults = 0,
           NEW pc, NEW i, NEW k, Becomes(d, pc, driver[d].batch, i, k),
           pc \in {"spawned", "registered"} \/ driver[d].pc \notin {"spawned", "registered"},
           \A j \in Items : AheadOf(driver'[d], j) => AheadOf(driver[d], j)
    PROVE  OwnerInv'
  <1>1. /\ driver'[d].pc = pc /\ driver'[d].batch = driver[d].batch
        /\ \A e \in Drivers \ {d} : driver'[e] = driver[e]
    BY DEF Becomes
  <1>2. ~raced =>
          /\ \A j \in Items : AheadOf(driver[d], j) => file.items[j] = driver[d].batch.items[j]
          /\ faults = 0 => /\ driver[d].pc \notin {"spawned", "registered"} => file = driver[d].batch
                           /\ file.items = driver[d].batch.items
    BY DEF OwnerInv, Alive
  <1>3. QED
    BY <1>1, <1>2, DriverKeepsOwner

\* A request that neither starts a driver nor writes.
LEMMA AsideKeepsOwner ==
    ASSUME OwnerInv, NEW q \in Requests, UNCHANGED <<file, driver, raced>>,
           faults' = 0 => faults = 0,
           \A p \in Requests \ {q} : request'[p] = request[p],
           request[q].pc # "spawn", request'[q].pc # "spawn"
    PROVE  OwnerInv'
  BY DEF OwnerInv, OneOwner, OneWriter, Alive

LEMMA OwnerNext == TypeInv /\ FitInv /\ OwnerInv /\ [Next]_vars => OwnerInv'
  <1> SUFFICES ASSUME TypeInv, FitInv, OwnerInv, [Next]_vars PROVE OwnerInv'
    OBVIOUS
  <1>a. faults' = 0 => faults = 0
    BY FaultsGrow
  <1>b. ASSUME NEW d \in Drivers
        PROVE  /\ driver[d].batch \in BatchRecord /\ driver[d].run \in Nat
               /\ driver[d].i \in 1..(N+1) /\ driver[d].i \in Int
               /\ driver[d].pc \in OnItem => driver[d].i \in Items
    BY BatchAssumption DEF TypeInv, TypeOK, DriverRecord, ItemInRange
  <1>c. \A j \in Items : j \in Int
    BY DEF Items
  <1>1. ASSUME NEW d \in Drivers, Register(d) PROVE OwnerInv'
    <2>1. Becomes(d, "registered", driver[d].batch, driver[d].i, driver[d].run)
      BY <1>1, DriverDoes
    <2>2. \A j \in Items : AheadOf(driver'[d], j) => AheadOf(driver[d], j)
      BY <1>1, <2>1 DEF Register, Becomes, AheadOf
    <2>3. QED
      BY <1>1, <1>a, <2>1, <2>2, ReaderKeepsOwner DEF Register
  <1>2. ASSUME NEW d \in Drivers, MarkRunning(d) PROVE OwnerInv'
    <2> DEFINE b == [driver[d].batch EXCEPT !.status = "running"]
    <2>1. b \in BatchRecord /\ b.items = driver[d].batch.items
      BY <1>b DEF BatchRecord, BatchStatus
    <2>2. Becomes(d, "loop", b, driver[d].i, driver[d].run) /\ Persist(b)
      BY <1>2, DriverDoes DEF MarkRunning
    <2> HIDE DEF b
    <2>3. \A j \in Items : AheadOf(driver'[d], j) =>
              AheadOf(driver[d], j) /\ b.items[j] = driver[d].batch.items[j]
      BY <1>2, <2>1, <2>2 DEF MarkRunning, Becomes, AheadOf
    <2>4. QED
      BY <1>2, <1>a, <2>1, <2>2, <2>3, WriterKeepsOwner DEF MarkRunning
  <1>3. ASSUME NEW d \in Drivers, SkipCompleted(d) PROVE OwnerInv'
    <2>1. Becomes(d, "loop", driver[d].batch, driver[d].i + 1, driver[d].run)
      BY <1>3, DriverDoes
    <2>2. \A j \in Items : AheadOf(driver'[d], j) => AheadOf(driver[d], j)
      BY <1>3, <1>b, <1>c, <2>1 DEF SkipCompleted, Becomes, AheadOf
    <2>3. QED
      BY <1>3, <1>a, <2>1, <2>2, ReaderKeepsOwner DEF SkipCompleted
  <1>4. ASSUME NEW d \in Drivers, TakeItem(d) PROVE OwnerInv'
    <2>1. Becomes(d, "item", driver[d].batch, driver[d].i, driver[d].run)
      BY <1>4, DriverDoes
    <2>2. \A j \in Items : AheadOf(driver'[d], j) => AheadOf(driver[d], j)
      BY <1>4, <2>1 DEF TakeItem, Becomes, AheadOf
    <2>3. QED
      BY <1>4, <1>a, <2>1, <2>2, ReaderKeepsOwner DEF TakeItem
  <1>d. ASSUME NEW d \in Drivers, driver[d].pc \in {"item", "readback"}, NEW status \in ItemStatus,
               NEW e \in Nat,
               LET b == SetItem(driver[d].batch, driver[d].i, status, e)
               IN  Becomes(d, "loop", b, driver[d].i + 1, 0) /\ Persist(b),
               UNCHANGED <<request, raced>>
        PROVE  OwnerInv'
    <2> DEFINE b == SetItem(driver[d].batch, driver[d].i, status, e)
    <2>1. driver[d].i \in Items
      BY <1>b, <1>d DEF OnItem
    <2>2. b \in BatchRecord /\ \A j \in Items \ {driver[d].i} : b.items[j] = driver[d].batch.items[j]
      BY <1>b, <2>1, SetItemFacts
    <2>3. Becomes(d, "loop", b, driver[d].i + 1, 0) /\ Persist(b)
      BY <1>d
    <2> HIDE DEF b
    <2>4. \A j \in Items : AheadOf(driver'[d], j) =>
              AheadOf(driver[d], j) /\ b.items[j] = driver[d].batch.items[j]
      BY <1>b, <1>c, <1>d, <2>2, <2>3 DEF Becomes, AheadOf
    <2>5. QED
      BY <1>a, <1>d, <2>2, <2>3, <2>4, WriterKeepsOwner
  <1>5. ASSUME NEW d \in Drivers, RefuseItem(d) PROVE OwnerInv'
    <2>1. "failed" \in ItemStatus /\ 0 \in Nat
      BY DEF ItemStatus
    <2>2. QED
      BY <1>5, <1>d, <2>1, DriverDoes DEF RefuseItem
  <1>6. ASSUME NEW d \in Drivers, PrepareRun(d) PROVE OwnerInv'
    <2>1. Becomes(d, "prepared", driver[d].batch, driver[d].i, Len(runs) + 1)
      BY <1>6, DriverDoes
    <2>2. \A j \in Items : AheadOf(driver'[d], j) => AheadOf(driver[d], j)
      BY <1>6, <2>1 DEF PrepareRun, Becomes, AheadOf
    <2>3. QED
      BY <1>6, <1>a, <2>1, <2>2, ReaderKeepsOwner DEF PrepareRun
  <1>7. ASSUME NEW d \in Drivers, MarkItemRunning(d) PROVE OwnerInv'
    <2> DEFINE b == SetItem(driver[d].batch, driver[d].i, "running", driver[d].run)
    <2>1. driver[d].i \in Items /\ "running" \in ItemStatus
      BY <1>7, <1>b DEF MarkItemRunning, OnItem, ItemStatus
    <2>2. b \in BatchRecord /\ \A j \in Items \ {driver[d].i} : b.items[j] = driver[d].batch.items[j]
      BY <1>b, <2>1, SetItemFacts
    <2>3. Becomes(d, "execute", b, driver[d].i, driver[d].run) /\ Persist(b)
      BY <1>7, DriverDoes DEF MarkItemRunning
    <2> HIDE DEF b
    <2>4. \A j \in Items : AheadOf(driver'[d], j) =>
              AheadOf(driver[d], j) /\ b.items[j] = driver[d].batch.items[j]
      BY <1>7, <1>b, <1>c, <2>2, <2>3 DEF MarkItemRunning, Becomes, AheadOf
    <2>5. QED
      BY <1>7, <1>a, <2>2, <2>3, <2>4, WriterKeepsOwner, ZenonT(40) DEF MarkItemRunning
  <1>8. ASSUME NEW d \in Drivers, StartRun(d) PROVE OwnerInv'
    <2>1. Becomes(d, "executing", driver[d].batch, driver[d].i, driver[d].run)
      BY <1>8, DriverDoes
    <2>2. \A j \in Items : AheadOf(driver'[d], j) => AheadOf(driver[d], j)
      BY <1>8, <2>1 DEF StartRun, Becomes, AheadOf
    <2>3. QED
      BY <1>8, <1>a, <2>1, <2>2, ReaderKeepsOwner DEF StartRun
  <1>9. ASSUME NEW d \in Drivers, EndRun(d) PROVE OwnerInv'
    <2>1. Becomes(d, "readback", driver[d].batch, driver[d].i, driver[d].run)
      BY <1>9, DriverDoes
    <2>2. \A j \in Items : AheadOf(driver'[d], j) => AheadOf(driver[d], j)
      BY <1>9, <2>1 DEF EndRun, Becomes, AheadOf
    <2>3. QED
      BY <1>9, <1>a, <2>1, <2>2, ReaderKeepsOwner DEF EndRun
  <1>10. ASSUME NEW d \in Drivers, SettleItem(d) PROVE OwnerInv'
    <2>1. PICK status \in ReadBack(driver[d].run) :
             LET b == SetItem(driver[d].batch, driver[d].i, status, driver[d].run)
             IN  Becomes(d, "loop", b, driver[d].i + 1, 0) /\ Persist(b)
      BY <1>10, SettleDoes
    <2>2. driver[d].run \in 1..Len(runs)
      BY <1>10 DEF SettleItem, TypeInv, RunInRange, OnRun
    <2>3. runs[driver[d].run] \in RunRecord
      BY <2>2, ElementOfSeq DEF TypeInv, TypeOK
    <2>4. status \in ItemStatus
      BY <2>1, <2>3 DEF ReadBack, RunRecord, RunStatus, ItemStatus
    <2>5. driver[d].pc \in {"item", "readback"} /\ UNCHANGED <<request, raced>> /\ driver[d].run \in Nat
      BY <1>10, <1>b DEF SettleItem
    <2>6. QED
      BY <1>d, <2>1, <2>4, <2>5
  <1>11. ASSUME NEW d \in Drivers, Finish(d) PROVE OwnerInv'
    <2> DEFINE b == Verdict(driver[d].batch, d \in ctxDone)
    <2>1. Becomes(d, "leaving", b, driver[d].i, driver[d].run) /\ Persist(b)
      BY <1>11, DriverDoes DEF Finish
    <2>2. (d \in ctxDone) \in BOOLEAN
      OBVIOUS
    <2>3. b \in BatchRecord
      BY <1>b, <2>2, VerdictFacts
    <2> HIDE DEF b
    <2>4. \A j \in Items : ~AheadOf(driver'[d], j)
      BY <2>1 DEF Becomes, AheadOf
    <2>5. QED
      BY <1>11, <1>a, <2>1, <2>3, <2>4, WriterKeepsOwner DEF Finish
  <1>12. ASSUME NEW d \in Drivers, Leave(d) PROVE OwnerInv'
    <2>1. Becomes(d, "idle", NoBatch, 1, 0)
      BY <1>12, DriverDoes
    <2>2. \A j \in Items : AheadOf(driver'[d], j) => file'.items[j] = driver'[d].batch.items[j]
      BY <1>12, <2>1, <1>b DEF Leave, Becomes, AheadOf
    <2>3. QED
      BY <1>12, <1>a, <2>1, <2>2, DriverKeepsOwner DEF Leave, Becomes
  <1>13. ASSUME NEW q \in Requests, CreateBatch(q) PROVE OwnerInv'
    <2>1. CASE Turns(q, "spawn", file')
      <3>1. Quiet
        BY <1>13 DEF CreateBatch, FitInv, FileFits
      <3>2. \A p \in Requests \ {q} : request'[p].pc = "idle"
        BY <2>1, <3>1 DEF Turns, Quiet
      <3>3. Alive' = {}
        BY <1>13, <3>1 DEF CreateBatch, Quiet, Alive
      <3>4. QED
        BY <1>13, <2>1, <3>2, <3>3 DEF CreateBatch, Turns, OwnerInv, OneOwner, OneWriter
    <2>2. CASE UNCHANGED <<file, request>>
      BY <1>13, <1>a, <2>2, AsideKeepsOwner DEF CreateBatch
    <2>3. QED
      BY <1>13, <2>1, <2>2, RequestDoes
  <1>14. ASSUME NEW q \in Requests, NEW kind \in {"retry", "restart", "cancel"}, ReadBatch(q, kind)
         PROVE OwnerInv'
    BY <1>14, <1>a, RequestDoes, AsideKeepsOwner DEF ReadBatch, Turns
  <1>15. ASSUME NEW q \in Requests, CheckNotRunning(q) PROVE OwnerInv'
    BY <1>15, <1>a, RequestDoes, AsideKeepsOwner DEF CheckNotRunning, Turns
  <1>16. ASSUME NEW q \in Requests, SaveRetry(q) PROVE OwnerInv'
    <2>1. CASE /\ Turns(q, "spawn", request[q].batch) /\ file' = request[q].batch
               /\ raced' = (raced \/ Racing(q))
      <3>1. UNCHANGED driver
        BY <1>16 DEF SaveRetry
      <3>2. SUFFICES ASSUME ~raced' PROVE OwnerInv'
        BY DEF OwnerInv
      <3>3. Alive = {} /\ \A p \in Requests \ {q} : request[p].pc # "spawn"
        BY <2>1, <3>2 DEF Racing
      <3>4. QED
        BY <2>1, <3>1, <3>3 DEF Turns, OwnerInv, OneOwner, OneWriter, Alive
    <2>2. CASE Turns(q, "idle", NoBatch) /\ UNCHANGED <<file, raced>>
      BY <1>16, <1>a, <2>2, AsideKeepsOwner DEF SaveRetry, Turns
    <2>3. QED
      BY <1>16, <2>1, <2>2, RequestDoes
  <1>17. ASSUME NEW q \in Requests, NEW d \in Drivers, Spawn(q, d) PROVE OwnerInv'
    <2>1. Becomes(d, "spawned", request[q].batch, 1, 0) /\ Turns(q, "idle", NoBatch)
      BY <1>17, RequestDoes
    <2>2. UNCHANGED <<file, raced>> /\ request[q].pc = "spawn"
      BY <1>17 DEF Spawn
    <2>3. SUFFICES ASSUME ~raced PROVE OwnerInv'
      BY <2>2 DEF OwnerInv
    <2>4. Alive = {} /\ file = request[q].batch
          /\ \A p \in Requests \ {q} : request[p].pc # "spawn"
      BY <2>2, <2>3 DEF OwnerInv, OneOwner
    <2>5. Alive' \subseteq {d} /\ \A p \in Requests : request'[p].pc # "spawn"
      BY <2>1, <2>4 DEF Becomes, Turns, Alive
    <2>6. QED
      BY <2>1, <2>2, <2>4, <2>5 DEF Becomes, OwnerInv, OneOwner, OneWriter, Alive
  <1>18. ASSUME NEW q \in Requests, LookupStop(q) PROVE OwnerInv'
    BY <1>18, <1>a, RequestDoes, AsideKeepsOwner DEF LookupStop, Turns
  <1>19. ASSUME NEW q \in Requests, SettleCancel(q) PROVE OwnerInv'
    <2>1. Turns(q, "idle", NoBatch) /\ request[q].pc = "settle" /\ UNCHANGED driver
      BY <1>19, RequestDoes DEF SettleCancel
    <2>2. CASE raced' = (raced \/ Racing(q))
      <3>1. SUFFICES ASSUME ~raced' PROVE OwnerInv'
        BY DEF OwnerInv
      <3>2. Alive = {} /\ \A p \in Requests \ {q} : request[p].pc # "spawn"
        BY <2>2, <3>1 DEF Racing
      <3>3. QED
        BY <2>1, <3>2 DEF Turns, OwnerInv, OneOwner, OneWriter, Alive
    <2>3. CASE UNCHANGED <<file, raced>>
      BY <1>a, <2>1, <2>3, AsideKeepsOwner DEF Turns
    <2>4. QED
      BY <1>19, <2>2, <2>3 DEF SettleCancel
  <1>20. CASE Stop
    BY <1>20 DEF Stop, OwnerInv, OneOwner, OneWriter, Alive, IdleDriver, IdleRequest
  <1>21. CASE UNCHANGED vars
    BY <1>21 DEF vars, OwnerInv, OneOwner, OneWriter, Alive
  <1>22. QED
    BY <1>1, <1>2, <1>3, <1>4, <1>5, <1>6, <1>7, <1>8, <1>9, <1>10, <1>11, <1>12, <1>13,
       <1>14, <1>15, <1>16, <1>17, <1>18, <1>19, <1>20, <1>21
       DEF Next, DriverStep, Ask, Serve

\* Only a driver that prepares its item starts a run.
LEMMA OnlyPrepareStarts ==
    ASSUME TypeInv, [Next]_vars, NEW i \in Items, RunStarted(i)
    PROVE  \E d \in Drivers : PrepareRun(d) /\ driver[d].i = i
  <1>1. runs' # runs /\ Len(runs') # Len(runs)
    BY LenProperties DEF RunStarted, TypeInv, TypeOK
  <1>2. ASSUME NEW d \in Drivers, NEW status \in RunStatus, driver[d].pc \in OnRun,
               PersistRun(driver[d].run, status)
        PROVE  FALSE
    BY <1>1, <1>2, PersistRunFacts DEF TypeInv, RunInRange
  <1>3. ASSUME NEW d \in Drivers, StartRun(d) \/ EndRun(d) PROVE FALSE
    BY <1>2, <1>3 DEF StartRun, EndRun, RunOutcome, RunStatus, OnRun
  <1>4. PICK d \in Drivers : PrepareRun(d)
    BY <1>1, <1>3
       DEF Next, vars, DriverStep, Ask, Serve, Stop, Register, MarkRunning, SkipCompleted,
           TakeItem, RefuseItem, MarkItemRunning, SettleItem, Finish, Leave, CreateBatch,
           ReadBatch, CheckNotRunning, SaveRetry, Spawn, LookupStop, SettleCancel
  <1>5. [item |-> driver[d].i, status |-> "queued"] \in RunRecord
    BY <1>4 DEF PrepareRun, TypeInv, ItemInRange, OnItem, RunRecord, RunStatus
  <1>6. runs'[Len(runs')].item = driver[d].i
    BY <1>4, <1>5, AppendRunFacts DEF PrepareRun, TypeInv, TypeOK
  <1>7. QED
    BY <1>4, <1>6 DEF RunStarted

LEMMA ResumeStep ==
    TypeInv /\ FitInv /\ OwnerInv /\ [Next]_vars =>
        \A i \in Items : RunStarted(i) /\ ~raced => file.items[i].status # "completed"
  <1> SUFFICES ASSUME TypeInv, FitInv, OwnerInv, [Next]_vars, NEW i \in Items, RunStarted(i), ~raced
               PROVE  file.items[i].status # "completed"
    OBVIOUS
  <1>1. PICK d \in Drivers : PrepareRun(d) /\ driver[d].i = i
    BY OnlyPrepareStarts
  <1>2. driver[d].pc = "item" /\ driver[d].batch.items[i].status # "completed"
    BY <1>1 DEF PrepareRun, FitInv, DriverFits
  <1>3. AheadOf(driver[d], i)
    BY <1>1, <1>2 DEF AheadOf, Items
  <1>4. QED
    BY <1>2, <1>3 DEF OwnerInv, Alive

AllInv == TypeInv /\ ClaimInv /\ FitInv /\ HonestInv /\ SettledInv /\ OwnerInv

LEMMA AllAlways == Spec => []AllInv
  <1>1. Init => AllInv
    BY TypeInit, ClaimInit, FitInit, HonestInit, SettledInit, OwnerInit DEF AllInv
  <1>2. AllInv /\ [Next]_vars => AllInv'
    BY TypeNext, ClaimNext, FitNext, HonestNext, SettledNext, OwnerNext DEF AllInv
  <1>3. QED
    BY <1>1, <1>2, PTL DEF Spec

\* When nothing moves any more the batch is settled, and so is every item and
\* every run, unless a write failed or the process went away.
THEOREM QuietIsSettledAlways == Spec => []QuietIsSettled
  <1>1. AllInv => QuietIsSettled
    <2> SUFFICES ASSUME AllInv, Quiet, faults = 0, stops = 0, file.status # "absent"
                 PROVE  /\ file.status \in Terminal
                        /\ \A i \in Items : file.items[i].status \in Terminal
                        /\ \A r \in DOMAIN runs : runs[r].status \in Terminal
      BY DEF QuietIsSettled
    <2>1. ~Pending /\ \A d \in Drivers : driver[d].pc \notin OpenRun
      BY DEF Quiet, Alive, Pending, OpenRun
    <2>2. OpenRunOwned /\ Settled(file)
      BY <2>1 DEF AllInv, SettledInv
    <2>3. QED
      BY <2>1, <2>2 DEF OpenRunOwned, Settled, SettledItems
  <1>2. QED
    BY <1>1, AllAlways, PTL

\* Unless a request wrote the file under a live driver there is one writer, and
\* a poll sees exactly what it knows (batchRecorder).
THEOREM PollSeesDriverAlways == Spec => []PollSeesDriver
  <1>1. AllInv => PollSeesDriver
    BY DEF AllInv, OwnerInv, OneOwner, PollSeesDriver
  <1>2. QED
    BY <1>1, AllAlways, PTL

\* What completed is not done again: no run is started for an item the file
\* holds as completed, unless a request wrote it under a live driver.
THEOREM ResumeAlwaysSkips == Spec => ResumeSkipsCompleted
  <1>1. AllInv /\ [Next]_vars =>
          [\A i \in Items : RunStarted(i) /\ ~raced => file.items[i].status # "completed"]_vars
    BY ResumeStep DEF AllInv
  <1>2. QED
    BY <1>1, AllAlways, PTL DEF Spec, ResumeSkipsCompleted

=============================================================================
