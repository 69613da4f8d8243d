------------------------------- MODULE Batch -------------------------------
(***************************************************************************)
(* One batch of the daemon: a workflow run over Items files, one after     *)
(* another, by the driver of cmd/zyvrod/batch.go.                          *)
(*                                                                         *)
(* Three kinds of actors touch it.  HTTP requests (createBatch,            *)
(* retryBatch, cancelBatch) read the batch file, decide, and write it back *)
(* in separate steps, with no lock across them.  Drivers are goroutines:   *)
(* each one owns a private copy of the batch (batchRecorder.batch) and     *)
(* rewrites the whole file from that copy on every transition.  The        *)
(* operating system may take the process away (Stop) and a write may fail. *)
(*                                                                         *)
(* batchStop is the daemon's map entry for this batch: the driver whose    *)
(* cancel function it holds, or NoDriver.  A driver registers itself only  *)
(* once its goroutine runs, after the request that started it was answered.*)
(***************************************************************************)
EXTENDS Naturals, Sequences

CONSTANTS
    N,            \* number of files the batch runs over
    Drivers,      \* goroutines that can run driveBatch
    Requests,     \* HTTP requests that can be in flight together
    NoDriver,     \* batchStop holds no entry
    MaxRequests,  \* bound: create, retry and cancel requests ever made
    MaxMishaps    \* bound: writes that fail and times the process goes away

ASSUME BatchAssumption ==
    /\ N \in Nat \ {0}
    /\ NoDriver \notin Drivers
    /\ MaxRequests \in Nat /\ MaxMishaps \in Nat

Items == 1..N

ItemStatus  == {"pending", "queued", "running", "completed", "failed", "cancelled"}
BatchStatus == {"absent", "queued", "running", "completed", "failed", "cancelled"}
RunStatus   == {"queued", "running", "completed", "failed", "cancelled"}
Terminal    == {"completed", "failed", "cancelled"}

\* execution is the index in runs of the item's run, 0 for the empty id.
BatchItem   == [status: ItemStatus, execution: Nat]
BatchRecord == [status: BatchStatus, items: [Items -> BatchItem]]

Waiting == [status |-> "pending", execution |-> 0]
NoBatch == [status |-> "absent", items |-> [i \in Items |-> Waiting]]

VARIABLES
    file,       \* runs/batches/<id>.json: what a poll reads
    runs,       \* the run files the batch's items left, in the order written
    batchStop,  \* daemon.batchStop[id]
    ctxDone,    \* drivers whose context has been cancelled
    driver,     \* the drivers: program counter, private copy, item, run
    request,    \* the requests in flight: program counter, kind, copy read
    asked,      \* requests made so far
    faults,     \* writes that failed so far
    stops,      \* times the process went away
    raced       \* history: a request wrote the file under a live driver

vars == <<file, runs, batchStop, ctxDone, driver, request, asked, faults, stops, raced>>

IdleDriver  == [pc |-> "idle", batch |-> NoBatch, i |-> 1, run |-> 0]
IdleRequest == [pc |-> "idle", kind |-> "cancel", batch |-> NoBatch]

DriverPC  == {"idle", "spawned", "registered", "loop", "item", "prepared",
              "execute", "executing", "readback", "leaving"}
RequestPC == {"idle", "check", "save", "spawn", "lookup", "settle"}

Init ==
    /\ file = NoBatch
    /\ runs = <<>>
    /\ batchStop = NoDriver
    /\ ctxDone = {}
    /\ driver = [d \in Drivers |-> IdleDriver]
    /\ request = [q \in Requests |-> IdleRequest]
    /\ asked = 0 /\ faults = 0 /\ stops = 0
    /\ raced = FALSE

----------------------------------------------------------------------------
(* Pieces of the handlers that compute on a batch record.                  *)

\* A driver is alive from its `go` statement to its deferred functions.
Alive == {d \in Drivers : driver[d].pc # "idle"}

\* retryBatch's new plan: what completed is left alone unless restart is asked.
Reset(b, restart) ==
    [status |-> "queued",
     items  |-> [i \in Items |->
        IF ~restart /\ b.items[i].status = "completed" THEN b.items[i] ELSE Waiting]]

Redo(b, restart) == restart \/ \E i \in Items : b.items[i].status # "completed"

\* Items nobody will run any more, in finish(true) and in cancelBatch.
CancelWaiting(b) ==
    [status |-> "cancelled",
     items  |-> [i \in Items |->
                   IF b.items[i].status \in {"pending", "running"}
                   THEN [b.items[i] EXCEPT !.status = "cancelled"]
                   ELSE b.items[i]]]

\* Variants of finish to check properties against: failures not counted, the
\* waiting items forgotten, the cancel not looked at.
VerdictIgnoringFailures(b, cancelled) ==
    IF cancelled THEN CancelWaiting(b) ELSE [b EXCEPT !.status = "completed"]
VerdictForgettingItems(b, cancelled) ==
    [b EXCEPT !.status = IF cancelled THEN "cancelled"
                         ELSE IF \E i \in Items : b.items[i].status = "failed"
                         THEN "failed" ELSE "completed"]
VerdictIgnoringCancel(b, cancelled) ==
    [b EXCEPT !.status = IF \E i \in Items : b.items[i].status = "failed"
                         THEN "failed" ELSE "completed"]

\* batchRecorder.finish: the batch's own verdict.
Verdict(b, cancelled) ==
    IF cancelled THEN CancelWaiting(b)
    ELSE IF \E i \in Items : b.items[i].status = "failed"
         THEN [b EXCEPT !.status = "failed"]
         ELSE [b EXCEPT !.status = "completed"]

\* batchRecorder.setItem; an empty execution id leaves the previous one.
SetItem(b, i, status, execution) ==
    [b EXCEPT !.items[i] =
        [status    |-> status,
         execution |-> IF execution # 0 THEN execution ELSE @.execution]]

\* A write may fail, or the process go away, while the bound allows it.
Mishap == faults + stops < MaxMishaps

\* Variant: the transition is kept in memory only.
PersistLater(b) == UNCHANGED <<file, faults>>

\* batchRecorder.update: the copy changes, the write may fail and is only
\* logged, so the file then keeps what it held.
Persist(b) ==
    \/ file' = b /\ UNCHANGED faults
    \/ Mishap /\ faults' = faults + 1 /\ UNCHANGED file

PersistRun(r, status) ==
    \/ runs' = [runs EXCEPT ![r].status = status] /\ UNCHANGED faults
    \/ Mishap /\ faults' = faults + 1 /\ UNCHANGED runs

\* Variant: the outcome is assumed rather than read back.
ReadBackAssumed(r) == {"completed"}

\* What the read-back may answer: the status of the run's file, or "failed"
\* when the file cannot be read.
ReadBack(r) == {"failed"} \cup {runs[x].status : x \in DOMAIN runs \cap {r}}

----------------------------------------------------------------------------
(* The driver: driveBatch, runBatchItem and the execution they wait for.   *)

\* driveBatch publishes its cancel function under the batch's id.
Register(d) ==
    /\ driver[d].pc = "spawned"
    /\ batchStop' = d
    /\ driver' = [driver EXCEPT ![d].pc = "registered"]
    /\ UNCHANGED <<file, runs, ctxDone, request, asked, faults, stops, raced>>

\* The first update: the batch is running, whatever the file says by now.
MarkRunning(d) ==
    LET b == [driver[d].batch EXCEPT !.status = "running"] IN
    /\ driver[d].pc = "registered"
    /\ driver' = [driver EXCEPT ![d].pc = "loop", ![d].batch = b]
    /\ Persist(b)
    /\ UNCHANGED <<runs, batchStop, ctxDone, request, asked, stops, raced>>

\* Variant: the loop forgets to advance.
SkipNothing(d) ==
    /\ driver[d].pc = "loop" /\ driver[d].i <= N
    /\ driver[d].batch.items[driver[d].i].status = "completed"
    /\ UNCHANGED vars

\* Resume: an item the private copy holds as completed is stepped over.
SkipCompleted(d) ==
    LET i == driver[d].i IN
    /\ driver[d].pc = "loop" /\ i <= N
    /\ driver[d].batch.items[i].status = "completed"
    /\ driver' = [driver EXCEPT ![d].i = i + 1]
    /\ UNCHANGED <<file, runs, batchStop, ctxDone, request, asked, faults, stops, raced>>

\* Variant: completed items are taken again.
TakeAnyItem(d) ==
    /\ driver[d].pc = "loop" /\ driver[d].i <= N
    /\ d \notin ctxDone
    /\ driver' = [driver EXCEPT ![d].pc = "item"]
    /\ UNCHANGED <<file, runs, batchStop, ctxDone, request, asked, faults, stops, raced>>

\* The context is consulted before the item, and not again before its run.
TakeItem(d) ==
    LET i == driver[d].i IN
    /\ driver[d].pc = "loop" /\ i <= N
    /\ driver[d].batch.items[i].status # "completed"
    /\ d \notin ctxDone
    /\ driver' = [driver EXCEPT ![d].pc = "item"]
    /\ UNCHANGED <<file, runs, batchStop, ctxDone, request, asked, faults, stops, raced>>

\* The driver's private copy becomes b and the loop goes on with the next item.
Advanced(d, b) == [pc |-> "loop", batch |-> b, i |-> driver[d].i + 1, run |-> 0]

\* Variant: the loop's increment is applied twice.
RefuseItemTwice(d) ==
    LET i == driver[d].i
        b == SetItem(driver[d].batch, i, "failed", 0) IN
    /\ driver[d].pc = "item"
    /\ driver' = [driver EXCEPT ![d] = [pc |-> "loop", batch |-> b, i |-> i + 2, run |-> 0]]
    /\ Persist(b)
    /\ UNCHANGED <<runs, batchStop, ctxDone, request, asked, stops, raced>>

\* prepareRun refuses (the workflow is gone or no longer a DAG, or its record
\* cannot be written): the item fails without a run and the batch goes on.
RefuseItem(d) ==
    LET b == SetItem(driver[d].batch, driver[d].i, "failed", 0) IN
    /\ driver[d].pc = "item"
    /\ driver' = [driver EXCEPT ![d] = Advanced(d, b)]
    /\ Persist(b)
    /\ UNCHANGED <<runs, batchStop, ctxDone, request, asked, stops, raced>>

\* prepareRun writes the queued run record.
PrepareRun(d) ==
    /\ driver[d].pc = "item"
    /\ runs' = Append(runs, [item |-> driver[d].i, status |-> "queued"])
    /\ driver' = [driver EXCEPT ![d].pc = "prepared", ![d].run = Len(runs) + 1]
    /\ UNCHANGED <<file, batchStop, ctxDone, request, asked, faults, stops, raced>>

\* rec.setItem(i, "running", run.ID, "").
MarkItemRunning(d) ==
    LET b == SetItem(driver[d].batch, driver[d].i, "running", driver[d].run) IN
    /\ driver[d].pc = "prepared"
    /\ driver' = [driver EXCEPT ![d].pc = "execute", ![d].batch = b]
    /\ Persist(b)
    /\ UNCHANGED <<runs, batchStop, ctxDone, request, asked, stops, raced>>

\* execute's first update of the run record.
StartRun(d) ==
    /\ driver[d].pc = "execute"
    /\ driver' = [driver EXCEPT ![d].pc = "executing"]
    /\ PersistRun(driver[d].run, "running")
    /\ UNCHANGED <<file, batchStop, ctxDone, request, asked, stops, raced>>

\* What execute writes last.  The context is only consulted when the engine
\* returned an error, so a run may complete after its batch was cancelled; a
\* run that timed out is a failure even when a cancel follows.
RunOutcome(d) == {"completed", "failed"} \cup (IF d \in ctxDone THEN {"cancelled"} ELSE {})

EndRun(d) ==
    /\ driver[d].pc = "executing"
    /\ driver' = [driver EXCEPT ![d].pc = "readback"]
    /\ \E status \in RunOutcome(d) : PersistRun(driver[d].run, status)
    /\ UNCHANGED <<file, batchStop, ctxDone, request, asked, stops, raced>>

\* runBatchItem reads the run file back and settles the item with it.
SettleItem(d) ==
    /\ driver[d].pc = "readback"
    /\ \E status \in ReadBack(driver[d].run) :
          LET b == SetItem(driver[d].batch, driver[d].i, status, driver[d].run) IN
          /\ driver' = [driver EXCEPT ![d] = Advanced(d, b)]
          /\ Persist(b)
    /\ UNCHANGED <<runs, batchStop, ctxDone, request, asked, stops, raced>>

\* The loop ends, exhausted or broken off, and finish settles the batch.
Finish(d) ==
    LET b == Verdict(driver[d].batch, d \in ctxDone) IN
    /\ driver[d].pc = "loop"
    /\ driver[d].i <= N =>
          d \in ctxDone /\ driver[d].batch.items[driver[d].i].status # "completed"
    /\ driver' = [driver EXCEPT ![d].pc = "leaving", ![d].batch = b]
    /\ Persist(b)
    /\ UNCHANGED <<runs, batchStop, ctxDone, request, asked, stops, raced>>

\* The deferred functions: the entry under the batch's id is removed, whoever
\* put it there, and the driver is gone.
Leave(d) ==
    /\ driver[d].pc = "leaving"
    /\ batchStop' = NoDriver
    /\ ctxDone' = ctxDone \ {d}
    /\ driver' = [driver EXCEPT ![d] = IdleDriver]
    /\ UNCHANGED <<file, runs, request, asked, faults, stops, raced>>

DriverStep(d) ==
    \/ Register(d) \/ MarkRunning(d) \/ SkipCompleted(d) \/ TakeItem(d)
    \/ RefuseItem(d) \/ PrepareRun(d) \/ MarkItemRunning(d)
    \/ StartRun(d) \/ EndRun(d) \/ SettleItem(d) \/ Finish(d) \/ Leave(d)

----------------------------------------------------------------------------
(* The requests.  Each read, decision and write is a step of its own.      *)

\* Does this write to the file meet a driver, or one about to be started?
Racing(q) == Alive # {} \/ \E p \in Requests \ {q} : request[p].pc = "spawn"

\* newBatch writes the plan; createBatch then starts the driver.  A failed
\* write refuses the batch.
CreateBatch(q) ==
    LET b == [NoBatch EXCEPT !.status = "queued"] IN
    /\ request[q].pc = "idle" /\ asked < MaxRequests
    /\ file.status = "absent"
    /\ asked' = asked + 1
    /\ \/ /\ file' = b /\ UNCHANGED faults
          /\ request' = [request EXCEPT ![q] = [pc |-> "spawn", kind |-> "create", batch |-> b]]
       \/ /\ Mishap /\ faults' = faults + 1
          /\ UNCHANGED <<file, request>>
    /\ UNCHANGED <<runs, batchStop, ctxDone, driver, stops, raced>>

\* retryBatch and cancelBatch begin by reading the file; a batch that does not
\* exist is a 404 and changes nothing.
ReadBatch(q, kind) ==
    /\ request[q].pc = "idle" /\ asked < MaxRequests
    /\ file.status # "absent"
    /\ asked' = asked + 1
    /\ request' = [request EXCEPT ![q] =
                     [pc    |-> IF kind = "cancel" THEN "lookup" ELSE "check",
                      kind  |-> kind,
                      batch |-> file]]
    /\ UNCHANGED <<file, runs, batchStop, ctxDone, driver, faults, stops, raced>>

\* batchIsRunning: 409 when a driver is registered; nothing to redo is a 200.
\* What follows is computed from the copy read before.
CheckNotRunning(q) ==
    LET r == request[q] IN
    /\ r.pc = "check"
    /\ request' = [request EXCEPT ![q] =
                     IF batchStop = NoDriver /\ Redo(r.batch, r.kind = "restart")
                     THEN [r EXCEPT !.pc = "save",
                             !.batch = Reset(r.batch, r.kind = "restart")]
                     ELSE IdleRequest]
    /\ UNCHANGED <<file, runs, batchStop, ctxDone, driver, asked, faults, stops, raced>>

\* SaveBatch; a failed write answers 500 and starts nothing.
SaveRetry(q) ==
    LET b == request[q].batch IN
    /\ request[q].pc = "save"
    /\ \/ /\ file' = b /\ UNCHANGED faults
          /\ request' = [request EXCEPT ![q].pc = "spawn"]
          /\ raced' = (raced \/ Racing(q))
       \/ /\ Mishap /\ faults' = faults + 1
          /\ request' = [request EXCEPT ![q] = IdleRequest]
          /\ UNCHANGED <<file, raced>>
    /\ UNCHANGED <<runs, batchStop, ctxDone, driver, asked, stops>>

\* go d.driveBatch(b), and the 202.
Spawn(q, d) ==
    /\ request[q].pc = "spawn"
    /\ driver[d].pc = "idle"
    /\ driver' = [driver EXCEPT ![d] = [IdleDriver EXCEPT !.pc = "spawned",
                                                       !.batch = request[q].batch]]
    /\ request' = [request EXCEPT ![q] = IdleRequest]
    /\ UNCHANGED <<file, runs, batchStop, ctxDone, asked, faults, stops, raced>>

\* cancelBatch: a registered driver is told to stop; otherwise a batch whose
\* copy still claims to be queued or running is settled on its behalf.
LookupStop(q) ==
    LET r == request[q] IN
    /\ r.pc = "lookup"
    /\ ctxDone' = IF batchStop = NoDriver THEN ctxDone ELSE ctxDone \cup {batchStop}
    /\ request' = [request EXCEPT ![q] =
                     IF batchStop = NoDriver /\ r.batch.status \in {"queued", "running"}
                     THEN [r EXCEPT !.pc = "settle", !.batch = CancelWaiting(r.batch)]
                     ELSE IdleRequest]
    /\ UNCHANGED <<file, runs, batchStop, driver, asked, faults, stops, raced>>

SettleCancel(q) ==
    /\ request[q].pc = "settle"
    /\ request' = [request EXCEPT ![q] = IdleRequest]
    /\ \/ file' = request[q].batch /\ raced' = (raced \/ Racing(q)) /\ UNCHANGED faults
       \/ Mishap /\ faults' = faults + 1 /\ UNCHANGED <<file, raced>>
    /\ UNCHANGED <<runs, batchStop, ctxDone, driver, asked, stops>>

\* Requests a client makes, and the steps of the ones being served.
Ask(q) == CreateBatch(q) \/ \E kind \in {"retry", "restart", "cancel"} : ReadBatch(q, kind)

Serve(q) ==
    \/ CheckNotRunning(q) \/ SaveRetry(q) \/ (\E d \in Drivers : Spawn(q, d))
    \/ LookupStop(q) \/ SettleCancel(q)

----------------------------------------------------------------------------
(* The process goes away, killed or by main's own exit on SIGTERM, which   *)
(* waits for requests but for no driver, and another one is started: only  *)
(* the project folder is left, and nothing at start-up looks at it.        *)
Stop ==
    /\ Mishap
    /\ stops' = stops + 1
    /\ batchStop' = NoDriver
    /\ ctxDone' = {}
    /\ driver' = [d \in Drivers |-> IdleDriver]
    /\ request' = [q \in Requests |-> IdleRequest]
    /\ UNCHANGED <<file, runs, asked, faults, raced>>

Next ==
    \/ \E d \in Drivers : DriverStep(d)
    \/ \E q \in Requests : Ask(q) \/ Serve(q)
    \/ Stop

Spec == Init /\ [][Next]_vars

\* Goroutines and accepted requests are scheduled; nobody has to ask, and the
\* process need not stop.  That an execution ends is what its 30 minute
\* context is for.
FairSpec ==
    /\ Spec
    /\ \A d \in Drivers : WF_vars(DriverStep(d))
    /\ \A q \in Requests : WF_vars(Serve(q))

----------------------------------------------------------------------------
(* Properties.                                                             *)

RunRecord == [item: Items, status: RunStatus]
DriverRecord == [pc: DriverPC, batch: BatchRecord, i: 1..(N+1), run: Nat]
RequestRecord ==
    [pc: RequestPC, kind: {"create", "retry", "restart", "cancel"}, batch: BatchRecord]

\* Every variable holds what the code can store in it.
TypeOK ==
    /\ file \in BatchRecord
    /\ runs \in Seq(RunRecord)
    /\ batchStop \in Drivers \cup {NoDriver}
    /\ ctxDone \subseteq Drivers
    /\ driver \in [Drivers -> DriverRecord]
    /\ request \in [Requests -> RequestRecord]
    /\ asked \in Nat /\ faults \in Nat /\ stops \in Nat
    /\ raced \in BOOLEAN

\* An item the batch file calls completed names a run of that very item whose
\* own file says completed: whatever was lost, interleaved or cut short, the
\* plan never claims work the record does not hold (runBatchItem reads back).
ItemsProven(files, b) ==
    \A i \in Items : b.items[i].status = "completed" =>
        LET r == b.items[i].execution IN
        r \in DOMAIN files /\ files[r] = [item |-> i, status |-> "completed"]

CompletedItemHasRun == ItemsProven(runs, file)

\* "completed" means every item completed (finish, and Batch.Status): true of
\* the file as long as no write has failed, whoever raced whom.
AllCompleted(b) == b.status = "completed" => \A i \in Items : b.items[i].status = "completed"

CompletedMeansEvery == faults = 0 => AllCompleted(file)

\* When nothing moves any more the file is settled, and so is every item and
\* every run: no batch claims to be working for good unless the process went
\* away or a write failed.
Quiet == Alive = {} /\ \A q \in Requests : request[q].pc = "idle"

QuietIsSettled ==
    Quiet /\ faults = 0 /\ stops = 0 /\ file.status # "absent" =>
        /\ file.status \in Terminal
        /\ \A i \in Items : file.items[i].status \in Terminal
        /\ \A r \in DOMAIN runs : runs[r].status \in Terminal

\* batchRecorder owns the batch file while the batch runs: one writer.  Two
\* drivers of the same batch are two.
OneWriter == \A d, e \in Alive : d = e

\* Unless a request wrote the file under a live driver there is one writer,
\* and a poll sees exactly what it knows.
PollSeesDriver ==
    ~raced =>
        /\ OneWriter
        /\ faults = 0 => \A d \in Alive :
               /\ driver[d].pc \notin {"spawned", "registered"} => file = driver[d].batch
               /\ file.items = driver[d].batch.items

\* Resume: what completed is not done again.  No run is started for an item
\* the file holds as completed, again unless a request raced a driver.
RunStarted(i) == Len(runs') = Len(runs) + 1 /\ runs'[Len(runs')].item = i

ResumeSkipsCompleted ==
    [][\A i \in Items : RunStarted(i) /\ ~raced => file.items[i].status # "completed"]_vars

\* Every driver comes to its end: a batch is never driven for good.
DriversEnd == \A d \in Drivers : driver[d].pc # "idle" ~> driver[d].pc = "idle"

\* A driver that is told to stop before it settled the batch settles it as
\* cancelled, unless a write failed or the process went away.
CancelHonoured ==
    \A d \in Drivers :
        (d \in ctxDone /\ driver[d].pc # "leaving")
            ~> (file.status = "cancelled" \/ faults > 0 \/ stops > 0)

=============================================================================
