---------------------------- MODULE MCExecution ----------------------------
(* Small workflows to run: a chain whose results depend on nothing outside *)
(* it, and one that reads a file.                                          *)
EXTENDS Execution

Link(from, to) == [source |-> from, target |-> to, kind |-> "data"]
Tool(from, to) == [source |-> from, target |-> to, kind |-> "tool"]

\* A text input, an agent, an output, and a tool node beside the agent.
Chain ==
    [nodes |-> <<"in", "brain", "out", "tool">>,
     edges |-> <<Link("in", "brain"), Link("brain", "out"), Tool("tool", "brain")>>]

\* The same chain saved to a file next to what another file holds: what reads
\* or writes the disk is never replayed, and nothing replayable depends on it.
Saved ==
    [nodes |-> <<"in", "llm", "file", "save">>,
     edges |-> <<Link("in", "llm"), Link("llm", "save"), Link("file", "save")>>]

\* A file read by a model, whose answer is shown.
FromFile ==
    [nodes |-> <<"file", "llm", "out">>,
     edges |-> <<Link("file", "llm"), Link("llm", "out")>>]

In == {"in"}
Out == {"out"}
File == {"file"}
Brain == {"brain"}
Save == {"save"}
Nobody == {}

Ask(input, target, useCache, batch) ==
    [input |-> input, target |-> target, useCache |-> useCache, batch |-> batch]

\* A batch's run, which can be stopped, one of the output alone, and one of a
\* node the workflow does not have.
ChainRequests ==
    {Ask("a", NoTarget, TRUE, TRUE), Ask("a", "out", TRUE, FALSE), Ask("a", "gone", FALSE, FALSE)}

\* Runs with either input, whole or of the model alone.
ReplayRequests ==
    {Ask("a", NoTarget, TRUE, FALSE), Ask("b", NoTarget, TRUE, FALSE), Ask("a", "llm", TRUE, FALSE)}

WholeRuns == {Ask("a", NoTarget, TRUE, FALSE)}
InputRun  == {Ask("a", "in", TRUE, FALSE)}

=============================================================================
