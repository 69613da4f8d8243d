------------------------------ MODULE Routing ------------------------------
(***************************************************************************)
(* Which provider does a job, with which credential and which model: the   *)
(* routers of src/providers.  A configuration is what providerConfig       *)
(* builds for one call:                                                    *)
(*   keys      the keyed services with a key                               *)
(*   host      "default" or "typed": whether OLLAMA_URL was changed        *)
(*   clis      the local CLIs found on the PATH                            *)
(*   endpoints the address-configured providers turned on: [url, key,      *)
(*             model], each FALSE or "" when left empty                    *)
(*   order     the project's order for each role                           *)
(*   text, image, video   the deployment's default, or ""                  *)
(*   pinned    the text model pinned for one command, or ""                *)
(***************************************************************************)
EXTENDS Sequences, Naturals

Elements(list) == {list[i] : i \in DOMAIN list}

Roles == {"text", "image", "vision", "video", "completion"}

CLIProviders == {"claude-cli", "codex-cli", "qwen-cli", "mimo-cli"}
KeyedProviders == {"google", "bfl", "anthropic", "openai", "ollama"}
HostedEndpoints == {"mimo"}

OpenAICompatibleProviders == <<"ollama-local", "lmstudio", "custom">>
ImageEndpointProviders == <<"custom-image">>
AddressConfigured ==
    Elements(OpenAICompatibleProviders) \cup HostedEndpoints \cup Elements(ImageEndpointProviders)

TextProviders ==
    <<"ollama", "anthropic", "openai", "claude-cli", "codex-cli", "qwen-cli", "mimo-cli",
      "ollama-local", "lmstudio", "custom", "mimo">>
ImageProviders == <<"google", "bfl">> \o ImageEndpointProviders
VisionProviders == <<"google", "ollama", "openai">> \o OpenAICompatibleProviders
VideoProviders == <<"google", "bfl">>
CompletionProviders == <<"ollama">> \o OpenAICompatibleProviders

ProvidersFor(role) ==
    CASE role = "text" -> TextProviders
      [] role = "image" -> ImageProviders
      [] role = "vision" -> VisionProviders
      [] role = "video" -> VideoProviders
      [] role = "completion" -> CompletionProviders

AllProviders == UNION {Elements(ProvidersFor(role)) : role \in Roles}

RolesOf(p) == {role \in Roles : p \in Elements(ProvidersFor(role))}

----------------------------------------------------------------------------
(* What is configured.                                                     *)

HasDefaultURL == {"ollama-local", "lmstudio", "mimo"}

\* endpointFor: an endpoint that is on and left without an address has the
\* address its kind usually listens on; MiMo also has a model of its own.
EndpointFor(cfg, p) ==
    IF p \notin DOMAIN cfg.endpoints THEN [url |-> FALSE, key |-> FALSE, model |-> ""]
    ELSE LET e == cfg.endpoints[p] IN
         [url |-> e.url \/ p \in HasDefaultURL, key |-> e.key,
          model |-> IF p = "mimo" /\ e.model = "" THEN "mimo-default" ELSE e.model]

\* Variant: a hosted endpoint needs no key.
EndpointWithoutKey(cfg, p) == EndpointFor(cfg, p).url

\* A hosted one needs a key as well as an address.
EndpointConfigured(cfg, p) ==
    EndpointFor(cfg, p).url /\ (p \in HostedEndpoints => EndpointFor(cfg, p).key)

\* hasOllama: a key, or an address somebody typed.
HasOllama(cfg) == "ollama" \in cfg.keys \/ cfg.host = "typed"

\* TextCredentialFor, hasImageCredential, hasVisionCredential,
\* hasVideoCredential, hasCompletionCredential.
Has(cfg, role, p) ==
    /\ p \in Elements(ProvidersFor(role))
    /\ \/ p \in KeyedProviders /\ p \in cfg.keys
       \/ p = "ollama" /\ role \in {"vision", "completion"} /\ HasOllama(cfg)
       \/ p \in CLIProviders /\ p \in cfg.clis
       \* For text, the three local servers are asked for an address only.
       \/ p \in AddressConfigured /\ EndpointConfigured(cfg, p)

Usable(cfg, role) == {p \in Elements(ProvidersFor(role)) : Has(cfg, role, p)}

----------------------------------------------------------------------------
(* Who answers.                                                            *)

Hits(list, S) == {i \in DOMAIN list : list[i] \in S}

\* The first of a list that is in S; only asked when there is one.
First(list, S) == list[CHOOSE i \in Hits(list, S) : \A j \in Hits(list, S) : i <= j]

\* The names a node or a deployment may use for a provider of the role.
Synonyms(role) ==
    CASE role = "image" -> [google |-> {"google", "gemini"},
                            bfl |-> {"bfl", "blackforestlabs", "flux", "klein"}]
      [] role = "video" -> [google |-> {"google", "gemini", "veo"},
                            bfl |-> {"bfl", "blackforestlabs", "flux"}]
      [] role = "vision" -> [google |-> {"google", "gemini"}, openai |-> {"openai", "chatgpt"}]
      [] OTHER -> [p \in {} |-> {}]

Names(role, p) == IF p \in DOMAIN Synonyms(role) THEN Synonyms(role)[p] ELSE {p}

Known(role, name) == \E p \in Elements(ProvidersFor(role)) : name \in Names(role, p)

Meant(role, name) == CHOOSE p \in Elements(ProvidersFor(role)) : name \in Names(role, p)

\* The deployment's default: vision and completion have none.
Deployment(cfg, role) ==
    CASE role = "text" -> cfg.text
      [] role = "image" -> cfg.image
      [] role = "video" -> cfg.video
      [] OTHER -> ""

\* Each role's own rule, for when nothing was said.
OwnRule(cfg, role) ==
    CASE role = "text" -> "ollama"
      [] role \in {"image", "video"} ->
            IF "google" \notin cfg.keys /\ "bfl" \in cfg.keys THEN "bfl" ELSE "google"
      [] role = "vision" ->
            IF "google" \in cfg.keys THEN "google"
            ELSE IF HasOllama(cfg) THEN "ollama"
            ELSE IF "openai" \in cfg.keys THEN "openai" ELSE "google"
      [] role = "completion" ->
            IF \E p \in Elements(OpenAICompatibleProviders) : EndpointConfigured(cfg, p)
            THEN First(OpenAICompatibleProviders,
                       {p \in AddressConfigured : EndpointConfigured(cfg, p)})
            ELSE "ollama"

Order(cfg, role) == IF role \in DOMAIN cfg.order THEN cfg.order[role] ELSE <<>>

\* Variant: the last resort may be a CLI.
PreferredOrAny(cfg, role) ==
    LET usable == Usable(cfg, role) IN
    IF Hits(Order(cfg, role), usable) # {} THEN First(Order(cfg, role), usable)
    ELSE IF OwnRule(cfg, role) \in usable THEN OwnRule(cfg, role)
    ELSE IF usable # {} THEN First(ProvidersFor(role), usable)
    ELSE OwnRule(cfg, role)

\* PreferredOrDefault: the project's order, the role's own rule, then anything
\* usable that is not a CLI, which nobody asked to start.
PreferredOrDefault(cfg, role) ==
    LET usable == Usable(cfg, role) IN
    IF Hits(Order(cfg, role), usable) # {} THEN First(Order(cfg, role), usable)
    ELSE IF OwnRule(cfg, role) \in usable THEN OwnRule(cfg, role)
    ELSE IF usable \ CLIProviders # {} THEN First(ProvidersFor(role), usable \ CLIProviders)
    ELSE OwnRule(cfg, role)

\* resolveTextProvider and its four siblings: what was asked for, what the
\* deployment says, then the preference.
Resolve(cfg, role, requested) ==
    IF Known(role, requested) THEN Meant(role, requested)
    ELSE IF Known(role, Deployment(cfg, role)) THEN Meant(role, Deployment(cfg, role))
    ELSE PreferredOrDefault(cfg, role)

\* HostedTextProviders and its siblings: what a deployment can offer.
HostedOnly(role) == Elements(ProvidersFor(role)) \ (CLIProviders \cup AddressConfigured)

----------------------------------------------------------------------------
(* With which credential, and which model.                                 *)

\* TextCredential, ImageCredential, VisionCredential, CompletionCredential:
\* whether there is one to show for the provider that would answer.
Credential(cfg, role, requested) ==
    LET p == Resolve(cfg, role, requested) IN
    CASE p \in CLIProviders -> p \in cfg.clis
      [] p \in HostedEndpoints -> EndpointConfigured(cfg, p)
      [] p \in AddressConfigured -> EndpointFor(cfg, p).url
      \* Asked for vision, an Ollama without a key shows its address, whatever
      \* the address; for completion only one that somebody typed.
      [] p = "ollama" /\ role = "vision" -> TRUE
      [] p = "ollama" /\ role = "completion" -> HasOllama(cfg)
      [] OTHER -> p \in cfg.keys

\* The model a provider is asked for when the node names none: its own.
OwnModel(cfg, role, p) ==
    CASE p \in AddressConfigured -> EndpointFor(cfg, p).model
      [] p = "ollama" /\ role = "completion" -> ""
      \* A CLI is left to its own default.
      [] p \in CLIProviders -> ""
      [] OTHER -> p

\* LLMComplete: a pinned model outranks the node's.
TextModelAsked(cfg, asked) == IF cfg.pinned # "" THEN cfg.pinned ELSE asked

=============================================================================
