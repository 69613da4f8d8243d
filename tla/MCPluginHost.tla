---------------------------- MODULE MCPluginHost ----------------------------
(* A pack that may use everything, and a script that calls one function of *)
(* each kind: one request, an agent, the passes of a matte, work on this   *)
(* machine, a file.  The ceiling is as high as a matte has passes.         *)
EXTENDS PluginHost

AllCapabilities == {"llm", "image", "video", "vision", "agent", "files"}
OneOfEach ==
    {"generateImage", "brain", "removeBackground", "rotateImage", "readFile"}

\* No turn at all, and more than there may be.
SomeSteps == {0, Ceiling + 1}

=============================================================================
