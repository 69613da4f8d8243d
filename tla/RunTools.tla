------------------------------ MODULE RunTools ------------------------------
(***************************************************************************)
(* Starting runs and waiting for them: the daemon's startRun and the MCP   *)
(* tools an agent calls.  A run goes on in a goroutine of its own once its *)
(* record is written; a waiter polls the run file until the run has ended, *)
(* the wait is over or the agent is gone.  What a run does in between is   *)
(* Execution's.                                                            *)
(***************************************************************************)
EXTENDS Workflows, Settings

VARIABLES
    record,     \* the run files: workflow, version, status
    going       \* the goroutines: where each is and the keys it read

runVars == <<record, going>>

RunsInit == record = [id \in {} |-> ""] /\ going = [id \in {} |-> ""]

\* isTerminalStatus.
Terminal == {"completed", "failed", "cancelled"}

HasEnded(id) == id \in DOMAIN record /\ record[id].status \in Terminal

----------------------------------------------------------------------------
(* startRun.                                                               *)

\* runnableWorkflow: there, and its graph one that can be run.
Runnable(id) == id \in DOMAIN shelf /\ shelf[id].graph \notin {"invalid", "cyclic"}

Waiting(status, over, ended) == [status |-> status, over |-> over, ended |-> ended]

StartRun(r) ==
    /\ Stands(r, "run", "begin") /\ mu = Free
    /\ IF Runnable(r.workflow) THEN Keep(r, "record", [version |-> shelf[r.workflow].version])
       ELSE Go(r, "refused")
    /\ UNCHANGED <<runVars, mu, mishaps>>

\* The queued record, then the goroutine; the workflow may be gone by now.
RecordRun(r) ==
    /\ Stands(r, "run", "record") /\ mu = Free
    /\ \/ /\ record' = Put(record, r.id, [workflow |-> r.workflow, version |-> req[r].saw.version,
                                          status |-> "queued"])
          /\ going' = Put(going, r.id, [pc |-> "start", keys |-> {}, barred |-> {}])
          /\ Keep(r, IF r.wait THEN "poll" ELSE "ok", Waiting("queued", FALSE, FALSE))
          /\ UNCHANGED mishaps
       \/ Mishap /\ Go(r, "refused") /\ UNCHANGED runVars
    /\ UNCHANGED mu

\* runRecorder.update: a write that fails is not repeated and stops nothing.
Record(id, status) ==
    /\ mu = Free
    /\ \/ record' = [record EXCEPT ![id].status = status] /\ UNCHANGED mishaps
       \/ Mishap /\ UNCHANGED record

RunStarts(id) ==
    /\ going[id].pc = "start" /\ Record(id, "running")
    /\ going' = [going EXCEPT ![id].pc = "project keys"]
    /\ UNCHANGED <<req, mu>>

\* mergedSecrets: the project's keys, and then the machine's over them.
RunReadsProjectKeys(id) ==
    /\ going[id].pc = "project keys" /\ mu = Free
    /\ going' = [going EXCEPT ![id] = [pc |-> "machine keys", keys |-> DOMAIN ProjectKeys, barred |-> gone]]
    /\ UNCHANGED <<record, req, mu, mishaps>>

RunReadsMachineKeys(id) ==
    /\ going[id].pc = "machine keys" /\ (machine.dir => mmu = Free)
    /\ going' = [going EXCEPT ![id].pc = "running", ![id].keys = @ \cup DOMAIN MachineData.keys]
    /\ UNCHANGED <<record, req, mu, mishaps>>

RunEnds(id) ==
    /\ going[id].pc = "running"
    /\ \E outcome \in {"completed", "failed"} : Record(id, outcome)
    /\ going' = [going EXCEPT ![id].pc = "ended"]
    /\ UNCHANGED <<req, mu>>

----------------------------------------------------------------------------
(* Waiting.                                                                *)

\* Which run a request waits for: its own, or the one it names.
RunOf(r) == IF r.kind = "run" THEN r.id ELSE r.run

\* mcpExecutionStatusWait: nothing to wait for when there is no such run.
BeginStatus(r) ==
    /\ Stands(r, "status", "begin") /\ mu = Free
    /\ IF ~r.wait THEN Keep(r, "read", Waiting("unread", TRUE, HasEnded(r.run)))
       ELSE IF r.run \in DOMAIN record THEN Keep(r, "poll", Waiting("unread", FALSE, FALSE))
       ELSE Go(r, "refused")
    /\ UNCHANGED <<runVars, mu, mishaps>>

\* waitForTerminal: one look at the run file.
PollRun(r) ==
    /\ req[r].pc = "poll" /\ mu = Free
    /\ IF RunOf(r) \in DOMAIN record
       THEN Keep(r, "polled", [req[r].saw EXCEPT !.status = record[RunOf(r)].status])
       ELSE Go(r, "refused")
    /\ UNCHANGED <<runVars, mu, mishaps>>

WaitRunsOut(r) ==
    /\ req[r].pc \in {"poll", "polled"} /\ ~req[r].saw.over
    /\ Keep(r, req[r].pc, [req[r].saw EXCEPT !.over = TRUE, !.ended = HasEnded(RunOf(r))])
    /\ UNCHANGED <<runVars, mu, mishaps>>

\* Variant: the status answered is the one the wait ended on.
AnswerLastSeen(r) == Go(r, IF req[r].saw.status \in Terminal \/ req[r].saw.over THEN "ok" ELSE "poll")

\* After a look: the run has ended, or the wait is over, or it is slept on.
\* The status is then read again, save that a run tool whose run had not ended
\* answers what it saw.
AfterPoll(r) ==
    Go(r, IF req[r].saw.status \in Terminal THEN "read"
          ELSE IF ~req[r].saw.over THEN "poll"
          ELSE IF r.kind = "run" THEN "ok" ELSE "read")

Polled(r) ==
    /\ req[r].pc = "polled" /\ AfterPoll(r)
    /\ UNCHANGED <<runVars, mu, mishaps>>

\* An agent that goes away while its wait sleeps is answered nothing.
AgentLeaves(r) ==
    /\ req[r].pc = "polled" /\ req[r].saw.status \notin Terminal /\ ~req[r].saw.over
    /\ Go(r, "gone")
    /\ UNCHANGED <<runVars, mu, mishaps>>

\* mcpExecutionStatus.
ReadStatus(r) ==
    /\ req[r].pc = "read" /\ mu = Free
    /\ IF RunOf(r) \in DOMAIN record
       THEN Keep(r, "ok", [req[r].saw EXCEPT !.status = record[RunOf(r)].status])
       ELSE Go(r, "refused")
    /\ UNCHANGED <<runVars, mu, mishaps>>

----------------------------------------------------------------------------
(* The tools that only look.                                               *)

\* mcpGetOutput: of a run that has ended only.
GetOutput(r) ==
    /\ Stands(r, "output", "begin") /\ mu = Free
    /\ Go(r, IF HasEnded(r.run) THEN "ok" ELSE "refused")
    /\ UNCHANGED <<runVars, mu, mishaps>>

\* mcpCancelExecution: says that it cannot, and leaves the run alone.
CancelExecution(r) ==
    /\ Stands(r, "cancel", "begin") /\ mu = Free
    /\ Go(r, IF r.run \in DOMAIN record THEN "ok" ELSE "refused")
    /\ UNCHANGED <<runVars, mu, mishaps>>

\* mcpListExecutions: the workflow must be there, its runs are read after.
ListExecutions(r) ==
    /\ r.kind = "executions" /\ mu = Free
    /\ \/ req[r].pc = "begin" /\ Go(r, IF r.workflow \in DOMAIN shelf THEN "runs" ELSE "refused")
       \/ /\ req[r].pc = "runs"
          /\ Keep(r, "ok", [runs |-> {id \in DOMAIN record : record[id].workflow = r.workflow}])
    /\ UNCHANGED <<runVars, mu, mishaps>>

----------------------------------------------------------------------------
RunsNext ==
    \/ \E r \in DOMAIN req :
          \/ StartRun(r) \/ RecordRun(r) \/ BeginStatus(r) \/ PollRun(r) \/ WaitRunsOut(r)
          \/ Polled(r) \/ AgentLeaves(r) \/ ReadStatus(r)
          \/ GetOutput(r) \/ CancelExecution(r) \/ ListExecutions(r)
    \/ \E id \in DOMAIN going :
          RunStarts(id) \/ RunReadsProjectKeys(id) \/ RunReadsMachineKeys(id) \/ RunEnds(id)

\* The process goes away: goroutines with it, run files as they were.
RunsDropped == going' = [id \in {} |-> ""] /\ UNCHANGED record

=============================================================================
