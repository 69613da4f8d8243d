------------------------------ MODULE MCDaemon ------------------------------
(***************************************************************************)
(* What a folder and a machine may hold when the daemon starts, and the    *)
(* requests that come together.                                            *)
(***************************************************************************)
EXTENDS Daemon

Key(p, v) == [q \in {p} |-> v]
End(p, url, key, model) == [q \in {p} |-> [url |-> url, key |-> key, model |-> model]]

Launch == [keys |-> {}, host |-> "default", clis |-> {"claude-cli"}, text |-> "", image |-> "",
           video |-> "", project |-> "claude-cli"]
NoMachine == [dir |-> FALSE, readable |-> FALSE, keys |-> NoKeys, ends |-> NoEnds]
NewMachine == [dir |-> TRUE, readable |-> FALSE, keys |-> NoKeys, ends |-> NoEnds]
NoSecrets == [readable |-> TRUE, keys |-> NoKeys]
NoPrefs == [whole |-> FALSE, order |-> NoOrder, ends |-> NoEnds]

Place(launch, mach, secr, prefs) == [env |-> launch, machine |-> mach, secrets |-> secr, prefs |-> prefs]

\* A machine without a configuration directory; one that was never set up; a
\* key in both places and servers on each side; an install that imposes its
\* defaults and whose project file is damaged.
SomePlaces ==
    {Place([Launch EXCEPT !.keys = {"bfl"}], NoMachine, [NoSecrets EXCEPT !.keys = Key("google", "old")], NoPrefs),
     Place([Launch EXCEPT !.keys = {"bfl"}], NewMachine, NoSecrets, NoPrefs),
     Place(Launch,
           [NewMachine EXCEPT !.readable = TRUE, !.keys = Key("google", "old"),
                              !.ends = End("lmstudio", TRUE, FALSE, "m")],
           [NoSecrets EXCEPT !.keys = Key("google", "older")],
           [whole |-> TRUE, order |-> [role \in {"image", "music"} |-> <<"bfl", "google">>],
            ends |-> End("custom", FALSE, TRUE, "")]),
     Place([Launch EXCEPT !.image = "flux", !.video = "veo", !.text = "openai", !.project = ""],
           [NewMachine EXCEPT !.readable = TRUE], [NoSecrets EXCEPT !.readable = FALSE], NoPrefs)}

----------------------------------------------------------------------------
Set(id, p, v) == [id |-> id, kind |-> "set", provider |-> p, value |-> v]
Del(id, p) == [id |-> id, kind |-> "delete", provider |-> p]
Ordering(id, o) == [id |-> id, kind |-> "order", order |-> o]
Elsewhere(p) == [id |-> "w", kind |-> "elsewhere", provider |-> p]
Address(id, p, patch) == [id |-> id, kind |-> "endpoint", provider |-> p, patch |-> patch, badURL |-> FALSE]

ForAll(roles, list) == [role \in roles |-> list]
Off3 == [url |-> FALSE, key |-> FALSE, model |-> ""]

Configuring ==
    {{Set("a", "google", "new"), Set("b", "openai", "key"), Elsewhere("anthropic")},
     {Set("a", "google", "new"), Del("b", "google")},
     {Del("a", "google"), Elsewhere("openai")},
     {Set("a", "openai", "key"), Del("b", "google")},
     {Set("a", "claude-cli", "key"), Set("b", "openai", "")},
     {Del("a", "google"), Del("b", "google")},
     {Ordering("a", ForAll({"image", "completion"}, <<"bfl", "nobody", "bfl", "custom">>)),
      Ordering("c", ForAll({"completion"}, <<"lmstudio", "custom">>)), Address("b", "custom", [url |-> TRUE])},
     {Ordering("a", ForAll({"text", "nonsense"}, <<"openai", "claude-cli">>)), Set("b", "openai", "key")},
     {Address("a", "lmstudio", [url |-> TRUE]), Address("b", "custom", [model |-> "m2"])},
     {Address("a", "lmstudio", Off3), Set("b", "bfl", "key")},
     {Address("a", "google", [url |-> TRUE]),
      [Address("b", "mimo", [key |-> TRUE]) EXCEPT !.badURL = TRUE], Address("c", "mimo", [key |-> TRUE])}}

Create(id, name, graph, patch) ==
    [id |-> id, kind |-> "create", name |-> name, graph |-> graph, patch |-> patch]
Save(id, w, patch) == [id |-> id, kind |-> "save", workflow |-> w, patch |-> patch]
OnWorkflow(id, kind, w) == [id |-> id, kind |-> kind, workflow |-> w]

Editing ==
    {{Create("n", "new", "g", [note |-> "said"]), OnWorkflow("b", "discard", "n"), OnWorkflow("c", "list", "")},
     {Create("n", "", "g", <<>>), Create("o", "new", "", <<>>), OnWorkflow("c", "open", "o")},
     {Save("a", "w", [name |-> "named", note |-> "said"]), Save("b", "w", [name |-> "", graph |-> "null"])},
     {Save("a", "w", [graph |-> "g2"]), OnWorkflow("b", "discard", "w"), OnWorkflow("c", "open", "w")},
     {Save("a", "w", [graph |-> "g2"]), OnWorkflow("d", "duplicate", "w"), OnWorkflow("c", "discard", "w")},
     {OnWorkflow("d", "duplicate", "w"), OnWorkflow("e", "duplicate", "w")}}

Start(id, w, wait) == [id |-> id, kind |-> "run", workflow |-> w, wait |-> wait]
OnRun(id, kind, run, wait) == [id |-> id, kind |-> kind, run |-> run, wait |-> wait]

Running ==
    {{Start("r", "w", FALSE), OnRun("s", "status", "r", TRUE)},
     {Start("r", "w", TRUE), OnWorkflow("b", "discard", "w"), OnRun("t", "status", "r", FALSE)},
     {Start("r", "w", FALSE), Del("b", "google")},
     {Start("r", "w", FALSE), Del("b", "google"), Set("c", "google", "new")},
     {Start("r", "x", FALSE), OnRun("o", "output", "r", FALSE), OnRun("c", "cancel", "r", FALSE)},
     {Start("r", "w", FALSE), OnRun("o", "output", "r", FALSE), OnRun("c", "cancel", "r", FALSE),
      OnWorkflow("e", "executions", "w")}}

SomeShelves ==
    {[id \in {"w", "x"} |-> [NewWorkflow(id, IF id = "x" THEN "cyclic" ELSE "g", "") EXCEPT !.version = 3]]}

----------------------------------------------------------------------------
Def(type) == [type |-> type, category |-> "", inputs |-> {"text"}, outputs |-> {"text"}, toolOnly |-> FALSE,
              config |-> <<[key |-> "k", type |-> "select", options |-> 2]>>, run |-> TRUE]
File(def) == [lua |-> TRUE, fits |-> TRUE, returns |-> "table", def |-> def]
Manifest(name) == [found |-> TRUE, fields |-> "known", name |-> name, version |-> "1", capabilities |-> {"llm"}]
Pack1(name, defs) == [manifest |-> Manifest(name), files |-> [f \in DOMAIN defs |-> File(defs[f])]]

\* Two packs that clash, one that is broken, and one that clashes with itself
\* once the first is edited.
SomeFolders ==
    {[d \in 1..3 |-> CASE d = 1 -> Pack1("one", <<Def("shout"), Def("whisper")>>)
                       [] d = 2 -> Pack1("two", <<Def("whisper"), Def("sing")>>)
                       [] OTHER -> Pack1("three", <<[Def("hum") EXCEPT !.outputs = {"smell"}]>>)]}

Reload(id) == [id |-> id, kind |-> "reload"]
Edition(id, dir, pack) == [id |-> id, kind |-> "edit", dir |-> dir, pack |-> pack]

Reloading ==
    {{Reload("a"), Edition("e", 1, Nothing), Edition("f", 2, Pack1("two", <<Def("sing"), Def("llm")>>))},
     {Reload("a"), Edition("e", 1, Pack1("one", <<Def("shout"), Def("hum")>>)),
      Edition("f", 3, Pack1("three", <<Def("hum")>>))},
     {Reload("a"), Edition("e", 4, Pack1("one", <<Def("growl")>>)),
      Edition("f", 2, Pack1("one", <<Def("sing"), Def("sing")>>))},
     {Reload("a"), Reload("b"), Edition("e", 3, Pack1("three", <<Def("hum")>>))}}

SomeScripts == Configuring \cup Editing \cup Running \cup Reloading

=============================================================================
