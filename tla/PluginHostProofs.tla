-------------------------- MODULE PluginHostProofs --------------------------
(* Proofs about PluginHost, for any pack, script, budget, ceiling and      *)
(* bounds on time, on nested pcalls and on callbacks.                      *)
EXTENDS PluginHost, TLAPS

-----------------------------------------------------------------------------
(* Where the goroutine is, and whether the clock is stopped, go together.  *)

HostInv ==
    /\ pc = "host" <=> fn # NoFunction
    /\ pc # "host" => turn = Idle
    /\ clock.depth = 1 <=> OffScript
    /\ clock.depth = 1 => clock.pausedAt <= clock.now

TypeInv == TypeOK /\ HostInv

(* "none" names no function of ctx. *)
LEMMA NoFunctionIsNone == NoFunction \notin Context /\ NoFunction \notin FileCalls
  BY DEF NoFunction, Context, CapabilityOf, FileCalls

(* How many calls are allowed is a number, whatever the host set. *)
LEMMA CallsAllowedType == CallsAllowed \in Nat
  BY PluginHostAssumption DEF CallsAllowed, PluginHostAssumption

(* A charge is nothing or one call. *)
LEMMA ChargeType == \A f : Charge(f) \in {0, 1}
  BY DEF Charge

(* The most a function sends is a positive number, within the most there is. *)
LEMMA MostType ==
  /\ MostRequests \in Nat
  /\ \A f : MostOf(f) \in Nat /\ MostOf(f) >= 1 /\ MostOf(f) <= MostRequests
  BY PluginHostAssumption DEF PluginHostAssumption, MostOf, MostRequests, MattePasses

(* Every host function opens within what it may send (runBrain's clamp,    *)
(* runRemoveBackground's passes).                                          *)
LEMMA OpeningType ==
  ASSUME NEW f, NEW asked \in Int, NEW o \in Openings(f, asked)
  PROVE  /\ o \in Turns
         /\ o.at \in {"ask", "work"}
         /\ o.step = 1
         /\ o.last \in Int
         /\ o.last <= MostOf(f)
         /\ o.helper = "none"
         /\ f \notin Spends => o.at = "work"
<1>1. LastOf(f, asked) \in Int /\ LastOf(f, asked) <= MostOf(f)
  BY PluginHostAssumption, MostType DEF PluginHostAssumption, LastOf, StepsOf, MostOf
<1>2. MostOf(f) \in Nat /\ MostOf(f) >= 1
  BY MostType
<1> QED BY <1>1, <1>2 DEF Openings, Turns

(* Raising an error goes to a pcall or ends the script, and nothing else. *)
LEMMA RaiseType ==
  ASSUME TypeOK, NEW e \in Failures, Raise(e)
  PROVE  /\ pc' \in {"lua", "library", "sending"}
         /\ guards' \in 0..MaxGuards
         /\ again' \in 0..MaxCallbacks
         /\ result' \in Results \cup {Empty}
<1>1. /\ guards \in 0..MaxGuards /\ again \in 0..MaxCallbacks
      /\ result \in Results \cup {Empty} /\ e \in Results
  BY DEF TypeOK, Results
<1>2. MaxGuards \in Nat /\ MaxCallbacks \in Nat
  BY PluginHostAssumption DEF PluginHostAssumption
<1>3. CASE guards > 0 /\ guards' = guards - 1 /\ pc' = "lua" /\ again' \in 0..again
           /\ UNCHANGED result
  BY <1>1, <1>2, <1>3
<1>4. CASE again > 0 /\ again' = again - 1 /\ pc' = "library" /\ UNCHANGED <<guards, result>>
  BY <1>1, <1>2, <1>4
<1>5. CASE guards = 0 /\ pc' = "sending" /\ result' = e /\ again' = 0 /\ UNCHANGED guards
  BY <1>1, <1>2, <1>5
<1> QED BY <1>3, <1>4, <1>5 DEF Raise

(* Leaving a host function keeps the clock well formed, and starts it. *)
LEMMA LeaveHostType ==
  ASSUME TypeInv, pc = "host", LeaveHost
  PROVE  /\ fn' = NoFunction /\ turn' = Idle
         /\ clock' \in [depth: 0..1, pausedAt: Nat, waited: Nat, now: Nat]
         /\ clock'.depth = 0
         /\ clock'.now = clock.now
         /\ Elapsed(clock') = Elapsed(clock)
<1>1. clock \in [depth: 0..1, pausedAt: Nat, waited: Nat, now: Nat]
  BY DEF TypeInv, TypeOK
<1>2. CASE fn \in FileCalls
  <2>1. clock.depth = 0
    BY <1>1, <1>2 DEF TypeInv, HostInv, OffScript
  <2> QED
    BY <1>1, <1>2, <2>1 DEF LeaveHost
<1>3. CASE fn \notin FileCalls
  <2>1. clock.depth = 1 /\ clock.pausedAt <= clock.now
    BY <1>1, <1>3 DEF TypeInv, HostInv, OffScript
  <2> DEFINE w == clock.waited + (clock.now - clock.pausedAt)
  <2>2. w \in Nat
    BY <1>1, <2>1
  <2>3. /\ clock' \in [depth: 0..1, pausedAt: Nat, waited: Nat, now: Nat]
        /\ clock'.depth = 0 /\ clock'.now = clock.now
        /\ clock'.waited = w
    <3>1. clock' = [clock EXCEPT !.depth = 0, !.pausedAt = 0, !.waited = w]
      BY <1>1, <1>3, <2>1 DEF LeaveHost, Resume
    <3> HIDE DEF w
    <3>2. clock' = [depth |-> 0, pausedAt |-> 0, waited |-> w, now |-> clock.now]
      BY <1>1, <3>1
    <3> QED BY <1>1, <2>2, <3>2
  <2>4. clock.now \in Int /\ clock.waited \in Int /\ clock.pausedAt \in Int
    BY <1>1
  <2>5. Elapsed(clock') = clock.now - (clock.waited + (clock.now - clock.pausedAt))
    BY <2>3, <2>4 DEF Elapsed
  <2>6. Elapsed(clock) = (clock.now - clock.waited) - (clock.now - clock.pausedAt)
    BY <2>1 DEF Elapsed
  <2> QED
    BY <2>3, <2>4, <2>5, <2>6 DEF LeaveHost
<1> QED BY <1>2, <1>3

(* Entering a host function keeps the clock well formed, and stops it. *)
LEMMA PauseType ==
  ASSUME NEW c \in [depth: 0..1, pausedAt: Nat, waited: Nat, now: Nat], c.depth = 0
  PROVE  /\ Pause(c) \in [depth: 0..1, pausedAt: Nat, waited: Nat, now: Nat]
         /\ Pause(c).depth = 1
         /\ Pause(c).pausedAt = c.now /\ Pause(c).now = c.now
         /\ Elapsed(Pause(c)) = Elapsed(c)
<1>1. Pause(c) = [depth |-> 1, pausedAt |-> c.now, waited |-> c.waited, now |-> c.now]
  <2>1. Pause(c) = [c EXCEPT !.depth = c.depth + 1, !.pausedAt = c.now]
    BY DEF Pause
  <2>2. c.depth + 1 = 1
    OBVIOUS
  <2>3. Pause(c) = [c EXCEPT !.depth = 1, !.pausedAt = c.now]
    BY <2>1, <2>2
  <2> QED BY <2>3
<1>2. /\ Pause(c) \in [depth: 0..1, pausedAt: Nat, waited: Nat, now: Nat]
      /\ Pause(c).depth = 1
      /\ Pause(c).pausedAt = c.now /\ Pause(c).now = c.now /\ Pause(c).waited = c.waited
  BY <1>1
<1>3. Elapsed(Pause(c)) = (c.now - c.waited) - (c.now - c.now)
  BY <1>2 DEF Elapsed
<1>4. Elapsed(c) = (c.now - c.waited) - 0
  BY DEF Elapsed
<1> QED BY <1>2, <1>3, <1>4

(* A tick moves the clock, and only its hand. *)
LEMMA TickType ==
  ASSUME NEW c \in [depth: 0..1, pausedAt: Nat, waited: Nat, now: Nat],
         NEW d, d = [c EXCEPT !.now = @ + 1]
  PROVE  /\ d \in [depth: 0..1, pausedAt: Nat, waited: Nat, now: Nat]
         /\ d.depth = c.depth /\ d.pausedAt = c.pausedAt /\ d.waited = c.waited
         /\ d.now = c.now + 1
<1>1. d = [depth |-> c.depth, pausedAt |-> c.pausedAt, waited |-> c.waited, now |-> c.now + 1]
  OBVIOUS
<1> QED BY <1>1

(* What the caller is told is one of the things it can be told. *)
LEMMA ExplainedType ==
  ASSUME TypeOK, NEW e \in Results
  PROVE  Explained(e) \in Results \cup {"timeout", "memory", "run"}
  BY DEF TypeOK, Explained, Results, Causes

LEMMA InitType == Init => TypeInv
<1> SUFFICES ASSUME Init PROVE TypeInv
  OBVIOUS
<1> USE CallsAllowedType, PluginHostAssumption DEF PluginHostAssumption
<1>1. TypeOK
  BY MostType DEF Init, TypeOK, Idle, Turns
<1>2. HostInv
  BY DEF Init, HostInv, OffScript
<1> QED BY <1>1, <1>2 DEF TypeInv

(* A step that leaves the host function's state alone, out of the function *)
(* before and after it, keeps what ties them together.                     *)
LEMMA OutsideHost ==
  ASSUME TypeInv, UNCHANGED <<fn, turn, clock>>,
         pc' # "host", pc # "host"
  PROVE  HostInv'
  BY DEF TypeInv, HostInv, OffScript

(* Likewise when the program counter stays where it is. *)
LEMMA SamePlace ==
  ASSUME TypeInv, UNCHANGED <<pc, fn, turn, clock>>
  PROVE  HostInv'
  BY DEF TypeInv, HostInv, OffScript

(* Every step keeps the types and ties the clock to the place. *)
LEMMA StepType == TypeInv /\ [Next]_vars => TypeInv'
<1> SUFFICES ASSUME TypeInv, [Next]_vars PROVE TypeInv'
  OBVIOUS
<1> USE CallsAllowedType, PluginHostAssumption DEF PluginHostAssumption
<1>t. TypeOK /\ HostInv
  BY DEF TypeInv
<1>1. CASE NextInstruction
  <2>1. pc' \in {"step", "lua", "library", "sending"} /\ guards' \in 0..MaxGuards
        /\ again' \in 0..MaxCallbacks /\ result' \in Results \cup {Empty}
    BY <1>t, <1>1, RaiseType DEF NextInstruction, TypeOK, Failures
  <2>2. HostInv'
    BY <1>1, <2>1, OutsideHost DEF NextInstruction, hostVars
  <2> QED
    BY <1>t, <1>1, <2>1, <2>2
    DEF NextInstruction, TypeOK, TypeInv, hostVars, timeVars, callVars
<1>2. CASE Compute
  <2>1. HostInv'
    BY <1>2, OutsideHost DEF Compute, hostVars
  <2> QED
    BY <1>t, <1>2, <2>1 DEF Compute, TypeOK, TypeInv, hostVars, timeVars, callVars
<1>20. CASE CallLibrary \/ EndCallback \/ LeaveLibrary
  <2>1. /\ pc \in {"step", "library"} /\ pc' \in {"lua", "library"}
        /\ UNCHANGED <<guards, result, done, fn, turn, charged, clock, bill, late,
                       ran, cause, caller>>
    BY <1>20 DEF CallLibrary, EndCallback, LeaveLibrary, hostVars, timeVars, callVars
  <2>2. HostInv'
    BY <2>1, OutsideHost
  <2>3. again' \in 0..MaxCallbacks
    BY <1>t, <1>20 DEF CallLibrary, EndCallback, LeaveLibrary, TypeOK
  <2> QED
    BY <1>t, <2>1, <2>2, <2>3 DEF TypeOK, TypeInv
<1>3. CASE RaiseOwn
  <2>1. pc' \in {"lua", "library", "sending"} /\ guards' \in 0..MaxGuards
        /\ again' \in 0..MaxCallbacks /\ result' \in Results \cup {Empty}
    BY <1>t, <1>3, RaiseType DEF RaiseOwn, Failures
  <2>2. HostInv'
    BY <1>3, <2>1, OutsideHost DEF RaiseOwn, hostVars
  <2> QED
    BY <1>t, <1>3, <2>1, <2>2 DEF RaiseOwn, TypeOK, TypeInv, hostVars, timeVars, callVars
<1>4. CASE ReturnOutput
  <2>1. HostInv'
    BY <1>4, OutsideHost DEF ReturnOutput, hostVars
  <2> QED
    BY <1>t, <1>4, <2>1
    DEF ReturnOutput, TypeOK, TypeInv, Results, Failures, hostVars, timeVars, callVars
<1>5. ASSUME NEW f \in Used, RefuseCall(f) PROVE TypeInv'
  <2>1. pc' \in {"lua", "library", "sending"} /\ guards' \in 0..MaxGuards
        /\ again' \in 0..MaxCallbacks /\ result' \in Results \cup {Empty}
    BY <1>t, <1>5, RaiseType DEF RefuseCall, Failures
  <2>2. HostInv'
    BY <1>5, <2>1, OutsideHost DEF RefuseCall, Calling, hostVars
  <2> QED
    BY <1>t, <1>5, <2>1, <2>2 DEF RefuseCall, TypeOK, TypeInv, hostVars, timeVars, callVars
<1>6. ASSUME NEW f \in Used, SpoilCall(f) PROVE TypeInv'
  <2>1. pc' \in {"lua", "library", "sending"} /\ guards' \in 0..MaxGuards
        /\ again' \in 0..MaxCallbacks /\ result' \in Results \cup {Empty}
    BY <1>t, <1>6, RaiseType DEF SpoilCall, Failures
  <2>2. HostInv'
    BY <1>6, <2>1, OutsideHost DEF SpoilCall, Calling
  <2>3. charged' \in 0..CallsAllowed
    BY <1>t, <1>6, ChargeType DEF SpoilCall, TypeOK
  <2> QED
    BY <1>t, <1>6, <2>1, <2>2, <2>3 DEF SpoilCall, TypeOK, TypeInv, timeVars, callVars
<1>7. ASSUME NEW f \in Used, EnterCall(f) PROVE TypeInv'
  <2>1. charged' \in 0..CallsAllowed
    BY <1>t, <1>7, ChargeType DEF EnterCall, TypeOK
  <2>2. turn' \in Turns /\ turn'.last <= MostOf(f)
    BY <1>7, OpeningType DEF EnterCall
  <2>3. clock \in [depth: 0..1, pausedAt: Nat, waited: Nat, now: Nat] /\ clock.depth = 0
    BY <1>t, <1>7 DEF TypeOK, HostInv, EnterCall, Calling, OffScript
  <2>4. /\ clock' \in [depth: 0..1, pausedAt: Nat, waited: Nat, now: Nat]
        /\ f \in FileCalls => clock'.depth = 0
        /\ f \notin FileCalls => clock'.depth = 1 /\ clock'.pausedAt = clock'.now
    BY <1>7, <2>3, PauseType DEF EnterCall
  <2>5. HostInv'
    BY <1>7, <2>4, NoFunctionIsNone DEF EnterCall, HostInv, OffScript
  <2> QED
    BY <1>t, <1>7, <2>1, <2>2, <2>4, <2>5 DEF EnterCall, Turns, TypeOK, TypeInv, timeVars, callVars
<1>8. CASE AskProvider
  <2>1. turn' \in Turns /\ turn'.last = turn.last /\ UNCHANGED fn
    BY <1>t, <1>8 DEF AskProvider, Turns, TypeOK
  <2>2. HostInv'
    BY <1>t, <1>8 DEF AskProvider, HostInv, OffScript
  <2> QED
    BY <1>t, <1>8, <2>1, <2>2 DEF AskProvider, Turns, TypeOK, TypeInv, timeVars, callVars
<1>9. CASE CallTools
  <2>1. turn' \in Turns /\ turn'.last = turn.last /\ UNCHANGED fn
    BY <1>t, <1>9 DEF CallTools, Turns, TypeOK
  <2>2. HostInv'
    BY <1>t, <1>9 DEF CallTools, HostInv, OffScript
  <2> QED
    BY <1>t, <1>9, <2>1, <2>2 DEF CallTools, Turns, TypeOK, TypeInv, timeVars, callVars
<1>10. CASE AnswerTools
  <2>3. turn' = [at |-> "ask", step |-> turn.step + 1, last |-> turn.last,
                 helper |-> "none"]
    BY <1>t, <1>10 DEF AnswerTools, Turns, TypeOK
  <2>4. turn.step + 1 \in Nat
    BY <1>t DEF Turns, TypeOK
  <2>1. turn' \in Turns /\ turn'.last = turn.last /\ UNCHANGED fn
    BY <1>t, <1>10, <2>3, <2>4 DEF AnswerTools, Turns, TypeOK
  <2>2. HostInv'
    BY <1>t, <1>10 DEF AnswerTools, HostInv, OffScript
  <2> QED
    BY <1>t, <1>10, <2>1, <2>2 DEF AnswerTools, Turns, TypeOK, TypeInv, timeVars, callVars
<1>21. CASE NextPass
  <2>3. turn' = [at |-> "ask", step |-> turn.step + 1, last |-> turn.last,
                 helper |-> turn.helper]
    BY <1>t, <1>21 DEF NextPass, Turns, TypeOK
  <2>4. turn.step + 1 \in Nat
    BY <1>t DEF Turns, TypeOK
  <2>1. turn' \in Turns /\ turn'.last = turn.last /\ UNCHANGED fn
    BY <1>t, <1>21, <2>3, <2>4 DEF NextPass, Turns, TypeOK
  <2>2. HostInv'
    BY <1>t, <1>21 DEF NextPass, HostInv, OffScript
  <2> QED
    BY <1>t, <1>21, <2>1, <2>2 DEF NextPass, Turns, TypeOK, TypeInv, timeVars, callVars
<1>22. CASE HelperHolds \/ HelperLeaves
  <2>1. /\ turn' \in Turns /\ turn'.last = turn.last /\ pc = "host"
        /\ UNCHANGED <<pc, fn, guards, again, charged, clock, result, done, bill, late,
                       ran, cause, caller>>
    BY <1>t, <1>22
    DEF HelperHolds, HelperLeaves, Held, TypeOK, HostInv, Idle, Turns, timeVars, callVars
  <2>2. HostInv'
    BY <1>t, <2>1 DEF HostInv, OffScript
  <2> QED
    BY <1>t, <2>1, <2>2 DEF Turns, TypeOK, TypeInv
<1>11. CASE ReturnCall
  <2>1. HostInv' /\ clock' \in [depth: 0..1, pausedAt: Nat, waited: Nat, now: Nat]
    BY <1>11, LeaveHostType DEF ReturnCall, HostInv, OffScript
  <2>2. pc' \in {"lua", "library"} /\ again' \in 0..MaxCallbacks
    BY <1>t, <1>11 DEF ReturnCall, TypeOK
  <2>3. MostOf(NoFunction) \in Nat
    BY MostType
  <2> QED
    BY <1>t, <1>11, <2>1, <2>2, <2>3
    DEF ReturnCall, LeaveHost, Idle, Turns, TypeOK, TypeInv, timeVars, callVars
<1>12. CASE FailCall
  <2>1. pc' \in {"lua", "library", "sending"} /\ guards' \in 0..MaxGuards
        /\ again' \in 0..MaxCallbacks /\ result' \in Results \cup {Empty}
    BY <1>t, <1>12, RaiseType DEF FailCall, Failures
  <2>2. HostInv' /\ clock' \in [depth: 0..1, pausedAt: Nat, waited: Nat, now: Nat]
    BY <1>12, <2>1, LeaveHostType DEF FailCall, HostInv, OffScript
  <2>3. MostOf(NoFunction) \in Nat
    BY MostType
  <2> QED
    BY <1>t, <1>12, <2>1, <2>2, <2>3
    DEF FailCall, LeaveHost, Idle, Turns, TypeOK, TypeInv, timeVars, callVars
<1>13. CASE Send
  <2>1. HostInv'
    BY <1>13, OutsideHost DEF Send, hostVars
  <2> QED
    BY <1>t, <1>13, <2>1 DEF Send, TypeOK, TypeInv, hostVars, timeVars, callVars
<1>14. CASE TakeResult
  <2>1. caller' \in Results \cup {Waiting, "timeout", "memory", "run"}
    BY <1>t, <1>14, ExplainedType DEF TakeResult, TypeOK, Empty, Results
  <2>2. HostInv'
    BY <1>14, SamePlace DEF TakeResult, hostVars
  <2> QED
    BY <1>t, <1>14, <2>1, <2>2 DEF TakeResult, Returned, TypeOK, TypeInv, Causes, hostVars, timeVars
<1>15. CASE GiveUp
  <2>1. caller' \in Results \cup {Waiting, "timeout", "memory", "run"}
    BY <1>t, <1>15, ExplainedType DEF GiveUp, Results, Failures
  <2>2. HostInv'
    BY <1>15, SamePlace DEF GiveUp, hostVars
  <2> QED
    BY <1>t, <1>15, <2>1, <2>2 DEF GiveUp, Returned, TypeOK, TypeInv, Causes, hostVars, timeVars
<1>16. ASSUME NEW why \in Causes, Cancel(why) PROVE TypeInv'
  <2>1. HostInv'
    BY <1>16, SamePlace DEF Cancel, hostVars
  <2> QED
    BY <1>t, <1>16, <2>1 DEF Cancel, TypeOK, TypeInv, hostVars, timeVars
<1>17. CASE ScriptTick
  <2>1. /\ clock' \in [depth: 0..1, pausedAt: Nat, waited: Nat, now: Nat]
        /\ clock'.depth = clock.depth /\ clock'.pausedAt = clock.pausedAt
        /\ clock'.now = clock.now + 1
    BY <1>t, <1>17, TickType DEF ScriptTick, TypeOK
  <2>2. HostInv'
    BY <1>t, <1>17, <2>1 DEF ScriptTick, HostInv, OffScript, TypeOK
  <2> QED
    BY <1>t, <1>17, <2>1, <2>2 DEF ScriptTick, TypeOK, TypeInv, callVars
<1>18. CASE HostTick
  <2>1. /\ clock' \in [depth: 0..1, pausedAt: Nat, waited: Nat, now: Nat]
        /\ clock'.depth = clock.depth /\ clock'.pausedAt = clock.pausedAt
        /\ clock'.now = clock.now + 1
    BY <1>t, <1>18, TickType DEF HostTick, TypeOK
  <2>2. HostInv'
    BY <1>t, <1>18, <2>1 DEF HostTick, HostInv, OffScript, TypeOK
  <2> QED
    BY <1>t, <1>18, <2>1, <2>2 DEF HostTick, TypeOK, TypeInv, callVars
<1>19. CASE UNCHANGED vars
  BY <1>t, <1>19 DEF vars, TypeInv, TypeOK, HostInv, OffScript
<1> QED
  BY <1>1, <1>2, <1>3, <1>4, <1>5, <1>6, <1>7, <1>8, <1>9, <1>10, <1>11, <1>12, <1>13,
     <1>14, <1>15, <1>16, <1>17, <1>18, <1>19, <1>20, <1>21, <1>22
  DEF Next, Script, CallHost, WatchScriptTime, WatchHeap, RunDeadline, Causes

(* The state of a node's execution is always well formed: in particular no *)
(* agent has more turns than the ceiling, and no node is charged for more  *)
(* calls than it may make.                                                 *)
THEOREM TypeCorrect == Spec => []TypeOK
<1>1. TypeInv => TypeOK
  BY DEF TypeInv
<1> QED BY InitType, StepType, <1>1, PTL DEF Spec

-----------------------------------------------------------------------------
(* What is spent.  The requests a host function may still send are paid    *)
(* for, along with those already sent, by the calls charged so far.        *)

SpendInv ==
    /\ bill <= charged * MostRequests
    /\ turn.at = "ask" => bill + (turn.last - turn.step) + 1 <= charged * MostRequests
    /\ turn.at \in {"wait", "tools"} =>
           bill + (turn.last - turn.step) <= charged * MostRequests

(* One call more pays for as many requests more as any of them sends. *)
LEMMA OneCallMore ==
  ASSUME NEW c \in Nat
  PROVE  /\ c * MostRequests \in Int
         /\ (c + 1) * MostRequests = c * MostRequests + MostRequests
         /\ (c + 0) * MostRequests = c * MostRequests
  BY MostType

LEMMA InitSpend == Init => SpendInv
  BY MostType DEF Init, SpendInv, Idle

LEMMA StepSpend == TypeInv /\ SpendInv /\ [Next]_vars => SpendInv'
<1> SUFFICES ASSUME TypeInv, SpendInv, [Next]_vars PROVE SpendInv'
  OBVIOUS
<1> USE CallsAllowedType, PluginHostAssumption DEF PluginHostAssumption
<1>t. /\ bill \in Int /\ charged \in Nat /\ charged * MostRequests \in Int
      /\ turn.step \in Nat /\ turn.last \in Int /\ turn.last <= MostRequests
      /\ MostRequests \in Nat
  BY OneCallMore, MostType DEF TypeInv, TypeOK, Turns
<1>1. CASE UNCHANGED <<turn, charged, bill>>
  BY <1>1 DEF SpendInv
<1>2. ASSUME NEW f \in Used, SpoilCall(f) PROVE SpendInv'
  <2>1. turn = Idle /\ turn' = Idle /\ bill' = bill
    BY <1>2 DEF SpoilCall, Calling, TypeInv, HostInv
  <2>2. charged' = charged \/ charged' = charged + 1
    BY <1>2, <1>t, ChargeType DEF SpoilCall
  <2>3. bill <= charged' * MostRequests
    BY <1>t, <2>2, OneCallMore DEF SpendInv
  <2> QED BY <2>1, <2>3 DEF SpendInv, Idle
<1>3. ASSUME NEW f \in Used, EnterCall(f) PROVE SpendInv'
  <2>1. /\ turn'.at \in {"ask", "work"} /\ turn'.step = 1
        /\ turn'.last \in Int /\ turn'.last <= MostRequests
        /\ f \notin Spends => turn'.at = "work"
    BY <1>3, OpeningType, MostType DEF EnterCall
  <2>2. bill' = bill
    BY <1>3 DEF EnterCall
  <2>3. CASE f \in Spends
    <3>1. charged' = charged + 1
      BY <1>3, <2>3 DEF EnterCall, Charge
    <3>2. bill + MostRequests <= charged' * MostRequests
      BY <1>t, <3>1, OneCallMore DEF SpendInv
    <3> QED BY <1>t, <2>1, <2>2, <3>1, <3>2, OneCallMore DEF SpendInv
  <2>4. CASE f \notin Spends
    <3>1. charged' = charged
      BY <1>3, <1>t, <2>4 DEF EnterCall, Charge
    <3> QED BY <2>1, <2>2, <2>4, <3>1 DEF SpendInv
  <2> QED BY <2>3, <2>4
<1>4. CASE AskProvider
  <2>1. /\ turn'.at = "wait" /\ turn'.step = turn.step /\ turn'.last = turn.last
        /\ bill' = bill + 1 /\ charged' = charged
        /\ turn.at = "ask" /\ turn.step <= turn.last
    BY <1>4 DEF AskProvider, TypeInv, TypeOK, Turns
  <2> QED BY <1>t, <2>1 DEF SpendInv
<1>5. CASE CallTools
  <2>1. /\ turn'.at = "tools" /\ turn'.step = turn.step /\ turn'.last = turn.last
        /\ bill' = bill /\ charged' = charged /\ turn.at = "wait"
    BY <1>5 DEF CallTools, TypeInv, TypeOK, Turns
  <2> QED BY <1>t, <2>1 DEF SpendInv
<1>6. CASE AnswerTools
  <2>1. /\ turn'.at = "ask" /\ turn'.step = turn.step + 1 /\ turn'.last = turn.last
        /\ bill' = bill /\ charged' = charged /\ turn.at = "tools"
    BY <1>6 DEF AnswerTools, TypeInv, TypeOK, Turns
  <2> QED BY <1>t, <2>1 DEF SpendInv
<1>8. CASE NextPass
  <2>1. /\ turn'.at = "ask" /\ turn'.step = turn.step + 1 /\ turn'.last = turn.last
        /\ bill' = bill /\ charged' = charged /\ turn.at = "wait"
    BY <1>8 DEF NextPass, TypeInv, TypeOK, Turns
  <2> QED BY <1>t, <2>1 DEF SpendInv
<1>9. CASE HelperHolds \/ HelperLeaves
  <2>1. /\ turn'.at = turn.at /\ turn'.step = turn.step /\ turn'.last = turn.last
        /\ bill' = bill /\ charged' = charged
    BY <1>9 DEF HelperHolds, HelperLeaves, TypeInv, TypeOK, Turns
  <2> QED BY <2>1 DEF SpendInv
<1>7. CASE turn' = Idle /\ UNCHANGED <<charged, bill>>
  BY <1>7 DEF SpendInv, Idle
<1> QED
  BY <1>1, <1>2, <1>3, <1>4, <1>5, <1>6, <1>7, <1>8, <1>9
  DEF Next, Script, CallHost, NextInstruction, Compute, CallLibrary, EndCallback, LeaveLibrary,
      RaiseOwn, ReturnOutput, RefuseCall,
      ReturnCall, FailCall, LeaveHost, Send, TakeResult, GiveUp, Cancel, WatchScriptTime,
      WatchHeap, RunDeadline, ScriptTick, HostTick, hostVars, vars

(* However its calls end, a node makes no more of them than it may, and    *)
(* what its host functions send stays within as many requests for each as  *)
(* an agent has turns or a matte has passes, whichever is more.            *)
THEOREM SpendIsAlwaysPaidFor == Spec => []SpendIsPaidFor
<1>1. TypeInv /\ SpendInv => SpendIsPaidFor
  BY CallsAllowedType DEF TypeInv, TypeOK, SpendInv, SpendIsPaidFor
<1>2. Init => TypeInv /\ SpendInv
  BY InitType, InitSpend
<1>3. TypeInv /\ SpendInv /\ [Next]_vars => (TypeInv /\ SpendInv)'
  BY StepType, StepSpend
<1> QED BY <1>1, <1>2, <1>3, PTL DEF Spec

-----------------------------------------------------------------------------
(* The clock.                                                              *)

LEMMA InitClock == Init => ClockIsScriptTime
  BY DEF Init, ClockIsScriptTime, Elapsed

LEMMA StepClock == TypeInv /\ ClockIsScriptTime /\ [Next]_vars => ClockIsScriptTime'
<1> SUFFICES ASSUME TypeInv, ClockIsScriptTime, [Next]_vars PROVE ClockIsScriptTime'
  OBVIOUS
<1>t. /\ clock \in [depth: 0..1, pausedAt: Nat, waited: Nat, now: Nat]
      /\ ran \in Nat
      /\ clock.depth \in 0..1 /\ clock.now \in Int /\ clock.waited \in Int /\ clock.pausedAt \in Int
  BY DEF TypeInv, TypeOK
<1>1. CASE UNCHANGED <<clock, ran>>
  BY <1>1 DEF ClockIsScriptTime, Elapsed
<1>2. ASSUME NEW f \in Used, EnterCall(f) PROVE ClockIsScriptTime'
  <2>1. clock.depth = 0
    BY <1>t, <1>2 DEF EnterCall, Calling, TypeInv, HostInv, OffScript
  <2>2. Elapsed(clock') = Elapsed(clock)
    BY <1>t, <1>2, <2>1, PauseType DEF EnterCall
  <2> QED BY <1>2, <2>2 DEF EnterCall, ClockIsScriptTime, timeVars, Elapsed
<1>3. CASE pc = "host" /\ LeaveHost /\ ran' = ran
  BY <1>3, LeaveHostType DEF ClockIsScriptTime, Elapsed
<1>4. CASE ScriptTick
  <2>1. clock.depth = 0
    BY <1>t, <1>4 DEF ScriptTick, TypeInv, HostInv
  <2>2. clock'.depth = 0 /\ clock'.waited = clock.waited /\ clock'.now = clock.now + 1
    BY <1>t, <1>4, <2>1, TickType DEF ScriptTick
  <2>3. Elapsed(clock) = clock.now - clock.waited
    BY <1>t, <2>1 DEF Elapsed
  <2>4. Elapsed(clock') = (clock.now + 1) - clock.waited
    BY <1>t, <2>2 DEF Elapsed
  <2>5. Elapsed(clock)' = Elapsed(clock')
    BY DEF Elapsed
  <2> QED BY <1>t, <1>4, <2>3, <2>4, <2>5 DEF ScriptTick, ClockIsScriptTime
<1>5. CASE HostTick
  <2>1. clock.depth = 1
    BY <1>5 DEF HostTick, TypeInv, HostInv
  <2>2. /\ clock'.depth = 1 /\ clock'.waited = clock.waited
        /\ clock'.now = clock.now + 1 /\ clock'.pausedAt = clock.pausedAt
    BY <1>t, <1>5, <2>1, TickType DEF HostTick
  <2>3. Elapsed(clock) = (clock.now - clock.waited) - (clock.now - clock.pausedAt)
    BY <2>1 DEF Elapsed
  <2>4. Elapsed(clock') = ((clock.now + 1) - clock.waited) - ((clock.now + 1) - clock.pausedAt)
    BY <2>2 DEF Elapsed
  <2>5. Elapsed(clock)' = Elapsed(clock')
    BY DEF Elapsed
  <2> QED BY <1>t, <1>5, <2>3, <2>4, <2>5 DEF HostTick, ClockIsScriptTime
<1> QED
  BY <1>1, <1>2, <1>3, <1>4, <1>5
  DEF Next, Script, CallHost, NextInstruction, Compute, CallLibrary, EndCallback, LeaveLibrary,
      RaiseOwn, ReturnOutput, RefuseCall,
      SpoilCall, AskProvider, CallTools, AnswerTools, NextPass, HelperHolds,
      HelperLeaves, ReturnCall, FailCall, Send, TakeResult,
      GiveUp, Cancel, WatchScriptTime, WatchHeap, RunDeadline, hostVars, timeVars, vars

(* The clock says how long the script itself ran, at every moment: what a  *)
(* host function took is left out while it runs and after it returned.     *)
THEOREM ClockIsAlwaysScriptTime == Spec => []ClockIsScriptTime
<1>1. Init => TypeInv /\ ClockIsScriptTime
  BY InitType, InitClock
<1>2. TypeInv /\ ClockIsScriptTime /\ [Next]_vars => (TypeInv /\ ClockIsScriptTime)'
  BY StepType, StepClock
<1> QED BY <1>1, <1>2, PTL DEF Spec

-----------------------------------------------------------------------------
(* What the caller is told.                                                *)

ReasonInv ==
    /\ cause = "timeout" => ran >= Budget
    /\ cause = "returned" => caller # Waiting
    /\ caller \in {"timeout", "memory"} => cause = caller
    /\ caller = "run" => cause = "run" \/ done = "deadline"

LEMMA InitReason == Init => ReasonInv
  BY DEF Init, ReasonInv, Live, Waiting

LEMMA StepReason ==
    TypeInv /\ ClockIsScriptTime /\ ReasonInv /\ [Next]_vars => ReasonInv'
<1> SUFFICES ASSUME TypeInv, ClockIsScriptTime, ReasonInv, [Next]_vars PROVE ReasonInv'
  OBVIOUS
<1> USE PluginHostAssumption DEF PluginHostAssumption
<1>t. ran \in Nat /\ cause \in Causes \cup {Live} /\ done \in Results \cup {Empty}
  BY DEF TypeInv, TypeOK
<1>1. CASE UNCHANGED <<cause, caller, done, ran>>
  BY <1>1 DEF ReasonInv
<1>2. CASE Send
  BY <1>2 DEF Send, ReasonInv, callVars, timeVars, Empty
<1>3. CASE TakeResult
  <2>1. CASE done = "value"
    BY <1>t, <1>3, <2>1 DEF TakeResult, Returned, ReasonInv, Waiting, Live, Causes, timeVars
  <2>2. CASE done # "value"
    <3>1. done \in Failures
      BY <1>t, <1>3, <2>2 DEF TakeResult, Results
    <3>2. caller' = Explained(done)
      BY <1>3, <2>2 DEF TakeResult
    <3> QED
      BY <1>t, <1>3, <3>1, <3>2
      DEF TakeResult, Returned, ReasonInv, Explained, Failures, Waiting, Live, Causes, timeVars
  <2> QED BY <2>1, <2>2
<1>4. CASE GiveUp
  BY <1>t, <1>4
  DEF GiveUp, Returned, ReasonInv, Explained, Failures, Waiting, Live, Causes, timeVars
<1>5. CASE WatchScriptTime
  <2>1. ran >= Budget
    BY <1>5 DEF WatchScriptTime, ClockIsScriptTime
  <2> QED
    BY <1>5, <2>1 DEF WatchScriptTime, Cancel, ReasonInv, Waiting, timeVars
<1>6. CASE Cancel("memory") \/ Cancel("run")
  BY <1>6 DEF Cancel, ReasonInv, Waiting, timeVars
<1>7. CASE ScriptTick
  BY <1>t, <1>7 DEF ScriptTick, ReasonInv, callVars
<1> QED
  BY <1>1, <1>2, <1>3, <1>4, <1>5, <1>6, <1>7
  DEF Next, Script, CallHost, NextInstruction, Compute, CallLibrary, EndCallback, LeaveLibrary,
      RaiseOwn, ReturnOutput, RefuseCall,
      SpoilCall, EnterCall, AskProvider, CallTools, AnswerTools, NextPass, HelperHolds,
      HelperLeaves, ReturnCall, FailCall,
      WatchHeap, RunDeadline, HostTick, callVars, timeVars, vars

(* What the caller is told is why the node stopped.                        *)
THEOREM ReasonIsAlwaysHonest == Spec => []ReasonIsHonest
<1>1. TypeInv /\ ClockIsScriptTime /\ ReasonInv => ReasonIsHonest
  BY DEF ReasonInv, ReasonIsHonest
<1>2. Init => TypeInv /\ ClockIsScriptTime /\ ReasonInv
  BY InitType, InitClock, InitReason
<1>3. TypeInv /\ ClockIsScriptTime /\ ReasonInv /\ [Next]_vars
        => (TypeInv /\ ClockIsScriptTime /\ ReasonInv)'
  BY StepType, StepClock, StepReason
<1> QED BY <1>1, <1>2, <1>3, PTL DEF Spec

-----------------------------------------------------------------------------
(* What a stopped script still does.                                       *)

LateInv ==
    /\ cause = Live \/ pc = "step" => late = 0
    /\ late <= MaxCallbacks
    /\ late + again <= MaxCallbacks + 1
    /\ pc = "library" => late + again <= MaxCallbacks

LEMMA InitLate == Init => LateInv
  BY PluginHostAssumption DEF PluginHostAssumption, Init, LateInv

(* A sum with a smaller part is no larger. *)
LEMMA SmallerSum ==
  ASSUME NEW a \in Nat, NEW b \in Nat, NEW c \in Nat, NEW d \in Nat, c <= b, a + b <= d
  PROVE  a + c <= d
  OBVIOUS

(* Whoever raises an error owes no callback more than before, and one less *)
(* when a library function goes on.                                        *)
LEMMA RaiseLate ==
  ASSUME TypeOK, LateInv, NEW e, Raise(e), late' = late, cause' = cause
  PROVE  LateInv'
<1>1. late \in Nat /\ again \in Nat /\ MaxCallbacks \in Nat
  BY PluginHostAssumption DEF PluginHostAssumption, TypeOK
<1>2. CASE pc' = "lua" /\ again' \in 0..again
  <2>1. again' \in Nat /\ again' <= again
    BY <1>1, <1>2
  <2>2. late + again <= MaxCallbacks + 1 /\ late <= MaxCallbacks
    BY DEF LateInv
  <2>3. late + again' <= MaxCallbacks + 1
    <3>1. MaxCallbacks + 1 \in Nat
      BY <1>1
    <3> QED BY <1>1, <2>1, <2>2, <3>1, SmallerSum
  <2>4. cause' = Live \/ pc' = "step" => late' = 0
    BY <1>2 DEF LateInv
  <2> QED BY <1>2, <2>2, <2>3, <2>4 DEF LateInv
<1>3. CASE again > 0 /\ again' = again - 1 /\ pc' = "library"
  BY <1>1, <1>3 DEF LateInv
<1>4. CASE pc' = "sending" /\ again' = 0
  BY <1>1, <1>4 DEF LateInv
<1> QED BY <1>2, <1>3, <1>4 DEF Raise

LEMMA StepLate == TypeInv /\ LateInv /\ [Next]_vars => LateInv'
<1> SUFFICES ASSUME TypeInv, LateInv, [Next]_vars PROVE LateInv'
  OBVIOUS
<1>t. /\ TypeOK /\ late \in Nat /\ again \in 0..MaxCallbacks /\ again \in Nat
      /\ MaxCallbacks \in Nat \ {0}
  BY PluginHostAssumption DEF PluginHostAssumption, TypeInv, TypeOK
<1>1. CASE UNCHANGED <<late, again, cause>> /\ pc' \notin {"step", "library"}
  BY <1>1 DEF LateInv
<1>2. CASE NextInstruction
  <2>1. CASE cause = Live
    BY <1>t, <1>2, <2>1 DEF NextInstruction, LateInv, hostVars, callVars
  <2>2. CASE cause # Live
    BY <1>t, <1>2, <2>2, RaiseLate DEF NextInstruction, hostVars, callVars
  <2> QED BY <2>1, <2>2
<1>3. CASE CallLibrary
  <2>1. late = 0 /\ late' = 0 /\ pc' = "library" /\ again' \in again..MaxCallbacks
    BY <1>3 DEF CallLibrary, LateInv, hostVars
  <2>2. again' \in Nat /\ again' <= MaxCallbacks
    BY <1>t, <2>1
  <2>3. 0 + again' <= MaxCallbacks /\ 0 + again' <= MaxCallbacks + 1
    <3>1. \A n \in Nat : n <= MaxCallbacks => 0 + n <= MaxCallbacks /\ 0 + n <= MaxCallbacks + 1
      BY <1>t
    <3> QED BY <2>2, <3>1
  <2>4. late' + again' <= MaxCallbacks /\ late' + again' <= MaxCallbacks + 1
    BY <2>1, <2>3
  <2>5. late' <= MaxCallbacks
    BY <1>t, <2>1
  <2> QED BY <2>1, <2>4, <2>5 DEF LateInv
<1>4. CASE EndCallback
  <2>1. late = 0 /\ late' = 0 /\ pc' = "library" /\ again' = again - 1 /\ again > 0
    BY <1>4 DEF EndCallback, LateInv, hostVars
  <2> QED BY <1>t, <2>1 DEF LateInv
<1>5. CASE LeaveLibrary
  <2>1. UNCHANGED <<late, cause>> /\ pc' = "lua" /\ again' \in 0..again
    BY <1>5 DEF LeaveLibrary, hostVars, callVars
  <2>2. late + again <= MaxCallbacks + 1 /\ late <= MaxCallbacks
    BY DEF LateInv
  <2>3. again' \in Nat /\ again' <= again
    BY <1>t, <2>1
  <2>4. late + again' <= MaxCallbacks + 1
    <3>1. MaxCallbacks + 1 \in Nat
      BY <1>t
    <3> QED BY <1>t, <2>2, <2>3, <3>1, SmallerSum
  <2>5. cause' = Live \/ pc' = "step" => late' = 0
    BY <2>1 DEF LateInv
  <2> QED BY <2>1, <2>2, <2>4, <2>5 DEF LateInv
<1>6. ASSUME NEW f \in Used, EnterCall(f) PROVE LateInv'
  <2>1. UNCHANGED <<again, cause>> /\ pc' = "host"
        /\ late' = IF cause = Live THEN late ELSE late + 1
    BY <1>6 DEF EnterCall, callVars
  <2>2. CASE cause = Live
    BY <2>1, <2>2 DEF LateInv
  <2>3. CASE cause # Live /\ pc = "step"
    <3>1. late = 0 /\ late' = 1
      BY <2>1, <2>3 DEF LateInv
    <3> QED BY <1>t, <2>1, <2>3, <3>1 DEF LateInv
  <2>4. CASE cause # Live /\ pc = "library" /\ again > 0
    <3>1. late' = late + 1 /\ late + again <= MaxCallbacks
      BY <2>1, <2>4 DEF LateInv
    <3> QED BY <1>t, <2>1, <2>4, <3>1 DEF LateInv
  <2> QED BY <1>6, <2>2, <2>3, <2>4 DEF EnterCall, Calling
<1>7. CASE ReturnCall
  <2>1. CASE pc' = "lua" /\ again' = again
    BY <1>7, <2>1 DEF ReturnCall, LateInv, callVars
  <2>2. CASE pc' = "library" /\ again > 0 /\ again' = again - 1
    BY <1>t, <1>7, <2>2 DEF ReturnCall, LateInv, callVars
  <2> QED BY <1>7, <2>1, <2>2 DEF ReturnCall
<1>8. ASSUME NEW e, Raise(e), late' = late, cause' = cause PROVE LateInv'
  BY <1>t, <1>8, RaiseLate
<1>9. CASE UNCHANGED <<pc, again, late>> /\ cause' # Live
  BY <1>9 DEF LateInv
<1>10. CASE UNCHANGED <<pc, again, late, cause>>
  BY <1>10 DEF LateInv
<1>11. CASE RaiseOwn \/ FailCall \/ (\E f \in Used : RefuseCall(f) \/ SpoilCall(f))
  <2>1. \E e : Raise(e) /\ late' = late /\ cause' = cause
    BY <1>11 DEF RaiseOwn, FailCall, RefuseCall, SpoilCall, hostVars, callVars
  <2> QED BY <2>1, <1>8
<1> QED
  BY <1>1, <1>2, <1>3, <1>4, <1>5, <1>6, <1>7, <1>9, <1>10, <1>11
  DEF Next, Script, CallHost, Compute, ReturnOutput, AskProvider, CallTools, AnswerTools,
      NextPass, HelperHolds, HelperLeaves, Send, TakeResult, GiveUp, Returned, Cancel,
      WatchScriptTime, WatchHeap, RunDeadline, ScriptTick, HostTick, Live,
      hostVars, callVars, vars

(* A script that was told to stop enters no more host functions than its   *)
(* one last instruction calls: itself, or through the library functions it *)
(* is inside of.                                                           *)
THEOREM LateCallsAreAlwaysOwed == Spec => []LateCallsAreOwed
<1>1. LateInv => LateCallsAreOwed
  BY DEF LateInv, LateCallsAreOwed
<1>2. Init => TypeInv /\ LateInv
  BY InitType, InitLate
<1>3. TypeInv /\ LateInv /\ [Next]_vars => (TypeInv /\ LateInv)'
  BY StepType, StepLate
<1> QED BY <1>1, <1>2, <1>3, PTL DEF Spec

=============================================================================
