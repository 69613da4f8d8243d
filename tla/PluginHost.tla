----------------------------- MODULE PluginHost -----------------------------
(***************************************************************************)
(* One execution of a node written in Lua (plugins/host.go), in the        *)
(* sandbox that runs it (plugins/sandbox.go) on the script's own clock     *)
(* (plugins/scriptclock.go), with the functions the engine lends it        *)
(* (engine/plugins.go, engine/brain.go).                                   *)
(*                                                                         *)
(* Two goroutines and two watchers meet here.  The script's goroutine runs *)
(* the Lua state and whatever host function the script calls; the caller   *)
(* waits for its result or for the context to be cancelled, whichever      *)
(* comes first, and leaves the goroutine behind in the second case.  One   *)
(* watcher cancels when the script has used its time, one when the heap    *)
(* has grown too much; the run's own deadline cancels from above.          *)
(*                                                                         *)
(* Time passes in ticks.  What the script computes, returns or is answered *)
(* is abstracted to whether it went well.                                  *)
(***************************************************************************)
EXTENDS Integers

CONSTANTS
    Declared,     \* capabilities the node's pack declared
    FilesGiven,   \* the runtime has access to a project folder
    Used,         \* the functions of ctx this script calls
    MaxLLMCalls,  \* Limits.MaxLLMCalls as the host set it
    Budget,       \* Limits.Timeout, in ticks
    Ceiling,      \* brainMaxStepsCeiling
    StepsAsked,   \* values a script passes as maxSteps to ctx.brain
    MaxGuards,    \* bound: pcalls open inside one another
    MaxCallbacks, \* bound: functions the library functions under way still call
    MaxWait       \* bound: ticks spent inside host functions

ASSUME PluginHostAssumption ==
    /\ MaxLLMCalls \in Int
    /\ FilesGiven \in BOOLEAN
    /\ Budget \in Nat \ {0}
    /\ Ceiling \in Nat \ {0}
    /\ StepsAsked \subseteq Int
    /\ MaxGuards \in Nat /\ MaxWait \in Nat
    /\ MaxCallbacks \in Nat \ {0}

\* The functions of ctx and the capability each one belongs to.
CapabilityOf ==
    [llm |-> "llm", complete |-> "llm",
     generateImage |-> "image", editImage |-> "image", removeBackground |-> "image",
     rotateImage |-> "image", flipImage |-> "image", composeImages |-> "image",
     generateVideo |-> "video", vision |-> "vision",
     brain |-> "agent", agentTools |-> "agent",
     readFile |-> "files", writeFile |-> "files"]

Local     == {"rotateImage", "flipImage", "composeImages", "agentTools"}
FileCalls == {"readFile", "writeFile"}
Spends    == DOMAIN CapabilityOf \ (Local \cup FileCalls)

\* What a local CLI can serve is text, and an agent talks in text.
TextCalls == {"llm", "complete", "brain"}

\* runRemoveBackground: a white matte, tried twice, and a black one, three times.
MattePasses == 5

\* The most requests one call of a host function sends.
MostOf(f) ==
    IF f = "brain" THEN Ceiling ELSE IF f = "removeBackground" THEN MattePasses ELSE 1

MostRequests == IF Ceiling > MattePasses THEN Ceiling ELSE MattePasses

\* contextTable: a function is there when the pack declared its capability and
\* the runtime supplied it, which it does for every declared one but files.
Context ==
    {f \in DOMAIN CapabilityOf :
        /\ CapabilityOf[f] \in Declared
        /\ f \in FileCalls => FilesGiven}

\* withDefaults: zero is the default of 8, negative means no call at all.
CallsAllowed ==
    IF MaxLLMCalls = 0 THEN 8 ELSE IF MaxLLMCalls < 0 THEN 0 ELSE MaxLLMCalls

VARIABLES
    pc,       \* where the script's goroutine is
    fn,       \* the host function it is in
    guards,   \* pcalls the script is inside of
    again,    \* functions its library functions still call, the current included
    turn,     \* the conversation of the host function: where, step, last step,
              \* and the helper of a CLI that keeps it waiting
    charged,  \* host.providerCalls
    clock,    \* the scriptClock, with the ticks since the run started
    result,   \* what the goroutine is about to send
    done,     \* the channel done, of capacity one
    cause,    \* why the context was cancelled
    caller,   \* what sandboxRun returned
    bill,     \* history: requests the node's host functions sent to a provider;
              \* an agent's tools are nodes, and theirs are not counted here
    late,     \* history: host functions entered after the cancellation
    ran       \* history: ticks the script ran

hostVars  == <<fn, turn, charged, clock, bill, late>>
timeVars  == <<ran>>
callVars  == <<cause, caller>>
vars      == <<pc, fn, guards, again, turn, charged, clock, result, done, cause, caller,
               bill, late, ran>>

NoFunction == "none"
Empty      == "empty"
Live       == "live"
Waiting    == "waiting"

\* "deadline" is an error whose text says a deadline was exceeded.
Failures == {"script", "host", "deadline", "stopped"}
Results  == Failures \cup {"value"}
Causes   == {"timeout", "memory", "run", "returned"}

Turns == [at: {"idle", "ask", "wait", "tools", "work"}, step: Nat, last: Int,
          helper: {"none", "holds", "left"}]
Idle  == [at |-> "idle", step |-> 0, last |-> 0, helper |-> "none"]

TypeOK ==
    /\ pc \in {"lua", "step", "library", "host", "sending", "closed"}
    /\ fn \in Context \cup {NoFunction}
    /\ guards \in 0..MaxGuards /\ again \in 0..MaxCallbacks
    /\ turn \in Turns /\ turn.last <= MostOf(fn)
    /\ charged \in 0..CallsAllowed
    /\ clock \in [depth: 0..1, pausedAt: Nat, waited: Nat, now: Nat]
    /\ result \in Results \cup {Empty} /\ done \in Results \cup {Empty}
    /\ cause \in Causes \cup {Live}
    /\ caller \in Results \cup {Waiting, "timeout", "memory", "run"}
    /\ bill \in Nat /\ late \in Nat /\ ran \in Nat

Init ==
    /\ pc = "lua" /\ fn = NoFunction /\ guards = 0 /\ again = 0 /\ turn = Idle
    /\ charged = 0
    /\ clock = [depth |-> 0, pausedAt |-> 0, waited |-> 0, now |-> 0]
    /\ result = Empty /\ done = Empty /\ cause = Live /\ caller = Waiting
    /\ bill = 0 /\ late = 0 /\ ran = 0

-----------------------------------------------------------------------------
(* The script's clock.                                                     *)

Pause(c) ==
    [c EXCEPT !.depth = @ + 1, !.pausedAt = IF c.depth = 0 THEN c.now ELSE @]

\* A resume that starts counting again without leaving out the call it ends.
ResumeUncounted(c) ==
    IF c.depth = 0 THEN c ELSE [c EXCEPT !.depth = @ - 1, !.pausedAt = 0]

\* A resume that forgets to come back from the call.
ResumeForgotten(c) == c

Resume(c) ==
    IF c.depth = 0 THEN c
    ELSE IF c.depth = 1
         THEN [c EXCEPT !.depth = 0, !.pausedAt = 0, !.waited = @ + (c.now - c.pausedAt)]
         ELSE [c EXCEPT !.depth = @ - 1]

Elapsed(c) ==
    (c.now - c.waited) - (IF c.depth > 0 THEN c.now - c.pausedAt ELSE 0)

\* Every NodeFunc and ctx.llm run off the script's clock; files do not.
OffScript == pc = "host" /\ fn \notin FileCalls

ScriptTick ==
    /\ caller = Waiting /\ ~OffScript
    /\ ran < Budget
    /\ clock' = [clock EXCEPT !.now = @ + 1]
    /\ ran' = ran + 1
    /\ UNCHANGED <<pc, fn, guards, again, turn, charged, result, done, bill, late>>
    /\ UNCHANGED callVars

HostTick ==
    /\ caller = Waiting /\ OffScript
    /\ clock.now - ran < MaxWait
    /\ clock' = [clock EXCEPT !.now = @ + 1]
    /\ UNCHANGED <<pc, fn, guards, again, turn, charged, result, done, bill, late, ran>>
    /\ UNCHANGED callVars

-----------------------------------------------------------------------------
(* The script.  Between two instructions the machine looks at its context; *)
(* an error unwinds to the innermost pcall, or ends the script.  One       *)
(* instruction can call a function of Go's library that calls others back: *)
(* table.sort its comparator, string.gsub its replacement, pcall what it   *)
(* guards.  Go code looks at no context: a host function called back is    *)
(* entered at once, a Lua one at its first instruction.                    *)

\* The error goes to a pcall of the script, and takes what it unwinds along; or
\* to one that a library function called back; or it ends the script.
Raise(e) ==
    \/ /\ guards > 0 /\ guards' = guards - 1
       /\ pc' = "lua" /\ again' \in 0..again /\ UNCHANGED result
    \/ /\ again > 0 /\ again' = again - 1
       /\ pc' = "library" /\ UNCHANGED <<guards, result>>
    \/ /\ guards = 0 /\ pc' = "sending" /\ result' = e /\ again' = 0
       /\ UNCHANGED guards

\* A machine that looks at its context only when it starts.
NextInstructionUnchecked ==
    /\ pc = "lua" /\ pc' = "step"
    /\ UNCHANGED <<guards, again, result, done>> /\ UNCHANGED hostVars
    /\ UNCHANGED timeVars /\ UNCHANGED callVars

NextInstruction ==
    /\ pc = "lua"
    /\ IF cause = Live
       THEN pc' = "step" /\ UNCHANGED <<guards, again, result>>
       ELSE Raise("stopped")
    /\ UNCHANGED done /\ UNCHANGED hostVars /\ UNCHANGED timeVars /\ UNCHANGED callVars

Compute ==
    /\ pc = "step" /\ pc' = "lua"
    /\ guards' \in {guards, guards + 1, guards - 1} \cap 0..MaxGuards
    /\ UNCHANGED <<again, result, done>> /\ UNCHANGED hostVars
    /\ UNCHANGED timeVars /\ UNCHANGED callVars

\* The instruction calls a library function, which has functions to call back.
CallLibrary ==
    /\ pc = "step" /\ pc' = "library"
    /\ again' \in again..MaxCallbacks
    /\ UNCHANGED <<guards, result, done>> /\ UNCHANGED hostVars
    /\ UNCHANGED timeVars /\ UNCHANGED callVars

\* The instruction ends a Lua function that a library function called.
EndCallback ==
    /\ pc = "step" /\ again > 0
    /\ pc' = "library" /\ again' = again - 1
    /\ UNCHANGED <<guards, result, done>> /\ UNCHANGED hostVars
    /\ UNCHANGED timeVars /\ UNCHANGED callVars

\* The library function calls a Lua function back, or returns to one.
LeaveLibrary ==
    /\ pc = "library" /\ pc' = "lua"
    /\ again' \in 0..again
    /\ UNCHANGED <<guards, result, done>> /\ UNCHANGED hostVars
    /\ UNCHANGED timeVars /\ UNCHANGED callVars

\* An error of the script's own; it can say whatever the script wants.  Or one
\* of the library's: a comparator that is no order, a string over the limit.
RaiseOwn ==
    /\ pc \in {"step", "library"}
    /\ \E e \in {"script", "deadline"} : Raise(e)
    /\ UNCHANGED done /\ UNCHANGED hostVars /\ UNCHANGED timeVars /\ UNCHANGED callVars

\* run returned: output() makes a value of it, or explains why it is not one.
ReturnOutput ==
    /\ pc = "step" /\ guards = 0 /\ again = 0
    /\ pc' = "sending" /\ result' \in {"value", "script"}
    /\ UNCHANGED <<guards, again, done>> /\ UNCHANGED hostVars
    /\ UNCHANGED timeVars /\ UNCHANGED callVars

-----------------------------------------------------------------------------
(* The host functions.                                                     *)

\* runBrain: as many turns as it was asked for.
StepsUnbounded(asked) == asked

StepsOf(asked) == IF asked > Ceiling THEN Ceiling ELSE asked

LastOf(f, asked) == IF f = "brain" THEN StepsOf(asked) ELSE MostOf(f)

\* What a host function is about to do: talk to a provider, in as many turns as
\* an agent was given or as many passes as a matte may take, or work by itself,
\* as removing a background does when its mode is "programmatic".
Openings(f, asked) ==
    {[at |-> "ask", step |-> 1, last |-> LastOf(f, asked), helper |-> "none"] :
        x \in {f} \cap Spends}
    \cup {[at |-> "work", step |-> 1, last |-> 1, helper |-> "none"] :
        x \in {f} \ (Spends \ {"removeBackground"})}

Charge(f) == IF f \in Spends THEN 1 ELSE 0

\* An instruction of the script calls a function, or a library function does.
Calling == pc = "step" \/ (pc = "library" /\ again > 0)

\* chargeProviderCall refuses once the node has made the calls it may make.
RefuseCall(f) ==
    /\ Calling /\ f \in Context \cap Spends
    /\ charged >= CallsAllowed
    /\ Raise("script")
    /\ UNCHANGED done /\ UNCHANGED hostVars /\ UNCHANGED timeVars /\ UNCHANGED callVars

\* bindNode: the settings the script passed cannot be converted, after the
\* call was charged.
SpoilCall(f) ==
    /\ Calling /\ f \in Context \ (FileCalls \cup {"llm"})
    /\ charged + Charge(f) <= CallsAllowed
    /\ charged' = charged + Charge(f)
    /\ Raise("script")
    /\ UNCHANGED <<fn, turn, clock, bill, late, done>>
    /\ UNCHANGED timeVars /\ UNCHANGED callVars

EnterCall(f) ==
    /\ Calling /\ f \in Context
    /\ charged + Charge(f) <= CallsAllowed
    /\ charged' = charged + Charge(f)
    /\ pc' = "host" /\ fn' = f
    /\ \E asked \in StepsAsked : turn' \in Openings(f, asked)
    /\ clock' = IF f \in FileCalls THEN clock ELSE Pause(clock)
    /\ late' = IF cause = Live THEN late ELSE late + 1
    /\ UNCHANGED <<guards, again, result, done, bill>>
    /\ UNCHANGED timeVars /\ UNCHANGED callVars

\* The function is over: the clock runs again, and no function is left.
LeaveHost ==
    /\ fn' = NoFunction /\ turn' = Idle
    /\ clock' = IF fn \in FileCalls THEN clock ELSE Resume(clock)

Held == turn.helper = "holds"

\* A request to a provider carries the context: none is sent once cancelled.
AskProvider ==
    /\ pc = "host" /\ turn.at = "ask" /\ turn.step <= turn.last
    /\ cause = Live
    /\ bill' = bill + 1
    /\ turn' = [turn EXCEPT !.at = "wait"]
    /\ UNCHANGED <<pc, fn, guards, again, charged, clock, result, done, late>>
    /\ UNCHANGED timeVars /\ UNCHANGED callVars

\* The model asked the agent for tools.  What each one gives, an error
\* included, becomes a message, and the agent takes its next turn.
CallTools ==
    /\ pc = "host" /\ fn = "brain" /\ turn.at = "wait" /\ ~Held
    /\ turn' = [turn EXCEPT !.at = "tools", !.helper = "none"]
    /\ UNCHANGED <<pc, fn, guards, again, charged, clock, result, done, bill, late>>
    /\ UNCHANGED timeVars /\ UNCHANGED callVars

AnswerTools ==
    /\ pc = "host" /\ turn.at = "tools" /\ ~Held
    /\ turn' = [turn EXCEPT !.at = "ask", !.step = @ + 1, !.helper = "none"]
    /\ UNCHANGED <<pc, fn, guards, again, charged, clock, result, done, bill, late>>
    /\ UNCHANGED timeVars /\ UNCHANGED callVars

\* A pass of the matte is answered, and another is due: the background is still
\* there, or the white one is done and the black one to come.
NextPass ==
    /\ pc = "host" /\ fn = "removeBackground" /\ turn.at = "wait"
    /\ turn.step < turn.last
    /\ turn' = [turn EXCEPT !.at = "ask", !.step = @ + 1]
    /\ UNCHANGED <<pc, fn, guards, again, charged, clock, result, done, bill, late>>
    /\ UNCHANGED timeVars /\ UNCHANGED callVars

\* A local CLI left a helper behind that keeps its output open: the function
\* waits for it, whatever becomes of the CLI, of the clock and of the context.
HelperHolds ==
    /\ pc = "host" /\ turn.helper = "none"
    /\ turn.at = "tools" \/ (turn.at = "wait" /\ fn \in TextCalls)
    /\ turn' = [turn EXCEPT !.helper = "holds"]
    /\ UNCHANGED <<pc, fn, guards, again, charged, clock, result, done, bill, late>>
    /\ UNCHANGED timeVars /\ UNCHANGED callVars

HelperLeaves ==
    /\ Held
    /\ turn' = [turn EXCEPT !.helper = "left"]
    /\ UNCHANGED <<pc, fn, guards, again, charged, clock, result, done, bill, late>>
    /\ UNCHANGED timeVars /\ UNCHANGED callVars

\* The function has its answer: the provider's, a white pass and a black one,
\* its own, or an agent's that has used its turns.
HasAnswer ==
    \/ turn.at = "work"
    \/ turn.at = "wait" /\ ~Held /\ (fn = "removeBackground" => turn.step > 1)
    \/ turn.at = "ask" /\ turn.step > turn.last

\* It returns to the instruction, or to the library function that called it.
ReturnCall ==
    /\ pc = "host" /\ HasAnswer
    /\ \/ pc' = "lua" /\ UNCHANGED again
       \/ again > 0 /\ pc' = "library" /\ again' = again - 1
    /\ LeaveHost
    /\ UNCHANGED <<guards, charged, result, done, bill, late>>
    /\ UNCHANGED timeVars /\ UNCHANGED callVars

\* Before it asks, while it waits, at its own work; an agent that has used its
\* turns has nothing left that can fail.
CanFail ==
    \/ turn.at = "work"
    \/ turn.at = "wait" /\ ~Held
    \/ turn.at = "ask" /\ (turn.step = 1 \/ turn.step <= turn.last)

\* A failed call that gives its charge back.
FailCallRefunded ==
    /\ pc = "host" /\ CanFail
    /\ LeaveHost
    /\ \E e \in {"host", "deadline"} : Raise(e)
    /\ charged' = charged - Charge(fn)
    /\ UNCHANGED <<done, bill, late>> /\ UNCHANGED timeVars /\ UNCHANGED callVars

\* The function failed before, while or instead of asking: nothing configured,
\* a refused or late answer, a provider that used up its own time.
FailCall ==
    /\ pc = "host" /\ CanFail
    /\ LeaveHost
    /\ \E e \in {"host", "deadline"} : Raise(e)
    /\ UNCHANGED <<charged, done, bill, late>> /\ UNCHANGED timeVars /\ UNCHANGED callVars

CallHost == \E f \in Used : RefuseCall(f) \/ SpoilCall(f) \/ EnterCall(f)

-----------------------------------------------------------------------------
(* The caller, and those who cancel.                                       *)

\* A send that needs somebody to receive it.
SendUnbuffered ==
    /\ pc = "sending" /\ caller = Waiting /\ done = Empty
    /\ pc' = "closed" /\ done' = result
    /\ UNCHANGED <<guards, again, result>> /\ UNCHANGED hostVars
    /\ UNCHANGED timeVars /\ UNCHANGED callVars

Send ==
    /\ pc = "sending" /\ done = Empty
    /\ pc' = "closed" /\ done' = result
    /\ UNCHANGED <<guards, again, result>> /\ UNCHANGED hostVars
    /\ UNCHANGED timeVars /\ UNCHANGED callVars

\* explainError without the script's own budget.
ExplainedAsRun(e) ==
    IF cause = "memory" THEN "memory"
    ELSE IF cause # Live \/ e = "deadline" THEN "run" ELSE e

Explained(e) ==
    IF cause \in {"memory", "timeout"} THEN cause
    ELSE IF cause # Live \/ e = "deadline" THEN "run" ELSE e

\* The context is cancelled behind the caller, unless it already was.
Returned == cause' = IF cause = Live THEN "returned" ELSE cause

TakeResult ==
    /\ caller = Waiting /\ done # Empty
    /\ caller' = IF done = "value" THEN "value" ELSE Explained(done)
    /\ Returned
    /\ UNCHANGED <<pc, guards, again, result, done>> /\ UNCHANGED hostVars /\ UNCHANGED timeVars

GiveUp ==
    /\ caller = Waiting /\ cause # Live
    /\ caller' = Explained("stopped")
    /\ Returned
    /\ UNCHANGED <<pc, guards, again, result, done>> /\ UNCHANGED hostVars /\ UNCHANGED timeVars

Cancel(why) ==
    /\ caller = Waiting /\ cause = Live
    /\ cause' = why
    /\ UNCHANGED <<pc, guards, again, result, done, caller>> /\ UNCHANGED hostVars /\ UNCHANGED timeVars

\* The watcher of a wall clock.
WatchWallTime == clock.now >= Budget /\ Cancel("timeout")

WatchScriptTime == Elapsed(clock) >= Budget /\ Cancel("timeout")
WatchHeap       == Cancel("memory")
RunDeadline     == Cancel("run")

-----------------------------------------------------------------------------

\* The steps of the script's goroutine.
Script ==
    \/ NextInstruction \/ Compute \/ CallLibrary \/ EndCallback \/ LeaveLibrary
    \/ RaiseOwn \/ ReturnOutput
    \/ CallHost
    \/ AskProvider \/ CallTools \/ AnswerTools \/ NextPass \/ ReturnCall \/ FailCall
    \/ Send

Next ==
    \/ Script
    \/ HelperHolds \/ HelperLeaves
    \/ TakeResult \/ GiveUp
    \/ WatchScriptTime \/ WatchHeap \/ RunDeadline
    \/ ScriptTick \/ HostTick

(* Both goroutines and the script's watcher are scheduled, a provider      *)
(* answers or fails, and a script that runs for ever takes for ever.       *)
(* Neither the heap nor the run's deadline has to help, and a helper of a  *)
(* CLI that holds a function need never leave.                             *)
Fairness ==
    /\ WF_vars(Script)
    /\ WF_vars(TakeResult) /\ WF_vars(GiveUp)
    /\ WF_vars(WatchScriptTime)
    /\ SF_vars(ScriptTick)

Spec == Init /\ [][Next]_vars
FairSpec == Spec /\ Fairness

-----------------------------------------------------------------------------
(* Properties.                                                             *)

(* However the calls of a node end - answered, failed, refused, caught by  *)
(* a pcall and tried again, cut short by a cancellation - it makes no more *)
(* than the calls it may make, and what its host functions send stays in   *)
(* proportion: for each call no more than an agent has turns, or a matte   *)
(* has passes (chargeProviderCall, runBrain, runRemoveBackground).         *)
SpendIsPaidFor ==
    /\ charged <= CallsAllowed
    /\ bill <= charged * MostRequests

(* The clock says how long the script itself ran, in the middle of a host  *)
(* function as much as between two of them (scriptclock.go).               *)
ClockIsScriptTime == Elapsed(clock) = ran

(* What the caller is told is why the node stopped: too slow only if the   *)
(* script used its whole budget, too big only if the heap watcher said so, *)
(* stopped with the run only if it was, or if an error said that some      *)
(* deadline was exceeded (explainError).                                   *)
ReasonIsHonest ==
    /\ caller = "timeout" => ran >= Budget
    /\ caller = "memory" => cause = "memory"
    /\ caller = "run" => cause = "run" \/ done = "deadline"

(* A script that was told to stop enters no host function but those of the *)
(* one instruction that had been let through: one, or as many as library   *)
(* functions under way still call back, and pcalls that catch the stop do  *)
(* not win it another (newState's context).                                *)
LateCallsAreOwed == late <= MaxCallbacks

(* A node's caller is let go, even by a script that never returns, and     *)
(* without help from the run's deadline (sandboxRun) - unless a helper     *)
(* holds the host function for good: the script's clock stands still then, *)
(* and only the run's deadline or the heap would let the caller go.        *)
Released == <>(caller # Waiting) \/ <>[](Held /\ cause = Live)

(* The goroutine of a script ends, also when its caller left it behind     *)
(* (sandboxRun: the channel is buffered so that it can), unless a helper   *)
(* holds the host function it is in for good.                              *)
GoroutineEnds == <>(pc = "closed") \/ <>[]Held

=============================================================================
