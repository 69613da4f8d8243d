------------------------------ MODULE MCCalls ------------------------------
(***************************************************************************)
(* Configurations and nodes for Calls.                                     *)
(***************************************************************************)
EXTENDS Calls

Nobody == [keys |-> {}, host |-> "default", clis |-> {}, endpoints |-> [p \in {} |-> {}],
           order |-> [r \in {} |-> <<>>], text |-> "", image |-> "", video |-> "", pinned |-> ""]

On(url, key, model) == [url |-> url, key |-> key, model |-> model]

\* Nothing at all; a project as it is created, on a machine with two CLIs; an
\* install with every key; one that only has local servers; one where the
\* order decides; and ones that are half configured.
SomeConfigs ==
    {Nobody,
     [Nobody EXCEPT !.text = "claude-cli", !.clis = {"claude-cli", "codex-cli"}],
     [Nobody EXCEPT !.keys = KeyedProviders, !.text = "ollama", !.clis = {"mimo-cli"}],
     [Nobody EXCEPT !.keys = {"bfl"}, !.clis = {"qwen-cli"},
                    !.endpoints = [p \in {"lmstudio", "custom"} |-> On(FALSE, FALSE, "local-model")]],
     [Nobody EXCEPT !.keys = {"google", "bfl", "openai"}, !.clis = {"codex-cli", "qwen-cli"},
                    !.order = [r \in Roles |-> CASE r = "text" -> <<"anthropic", "codex-cli", "openai">>
                                                 [] r = "image" -> <<"custom-image", "bfl">>
                                                 [] r = "vision" -> <<"ollama", "openai">>
                                                 [] r = "video" -> <<"bfl">>
                                                 [] OTHER -> <<>>]],
     [Nobody EXCEPT !.host = "typed", !.pinned = "pinned-model",
                    !.endpoints = [p \in {"mimo", "custom", "custom-image"} |->
                                      On(p = "custom-image", FALSE, "")]],
     [Nobody EXCEPT !.clis = {"mimo-cli"}, !.image = "flux", !.video = "veo", !.keys = {"google"},
                    !.endpoints = [p \in {"mimo", "custom-image"} |-> On(TRUE, TRUE, "")]]}

Plain(kind) == [kind |-> kind, provider |-> "", model |-> "", prompt |-> "said", images |-> 1,
                storage |-> TRUE, aspect |-> "", size |-> "1K", resolution |-> "", duration |-> 0,
                draft |-> FALSE]

Shapes == {[Plain("image") EXCEPT !.aspect = a, !.size = s] :
              a \in {"16:9", "9:16", "4:3", "3:4", "3:2", "2:3", "1:1"}, s \in {"1K", "2K", "512"}}

Videos == {[Plain("video") EXCEPT !.resolution = r, !.duration = d, !.draft = b] :
              r \in {"", "720p", "2k", "8k"}, d \in {0, 8, 21}, b \in BOOLEAN}

SomeNodes ==
    {Plain(k) : k \in {"llm", "agent", "vision", "completion", "image", "edit", "video", "matte", "local"}}
    \cup {[Plain(k) EXCEPT !.prompt = p] : k \in {"llm", "image", "completion"}, p \in {"none", "unresolved"}}
    \cup {[Plain("llm") EXCEPT !.provider = p] :
             p \in {"claude-cli", "codex-cli", "mimo-cli", "anthropic", "custom", "nobody"}}
    \cup {[Plain("vision") EXCEPT !.provider = p] : p \in {"gemini", "chatgpt", "lmstudio"}}
    \cup {[Plain("image") EXCEPT !.provider = p, !.model = m] :
             p \in {"", "klein", "gemini"}, m \in {"other", "google"}}
    \cup {[Plain("video") EXCEPT !.provider = p, !.model = m] : p \in {"veo", "flux"}, m \in {"", "other", "bfl"}}
    \cup {[Plain(k) EXCEPT !.storage = FALSE] : k \in {"image", "video", "matte"}}
    \cup {[Plain("vision") EXCEPT !.images = 0], [Plain("video") EXCEPT !.aspect = "21:9"]}
    \cup Shapes \cup Videos

ASSUME \A n \in SomeNodes : DOMAIN n = NodeFields

=============================================================================
