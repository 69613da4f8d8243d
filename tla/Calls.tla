------------------------------- MODULE Calls -------------------------------
(***************************************************************************)
(* One node's call to a provider: the nodes of src/engine that ask a model *)
(* for something, and the adapters of src/providers that carry the request *)
(* over HTTP, as a paid job that is polled and fetched, or through a CLI   *)
(* started on this machine.                                                *)
(*                                                                         *)
(* The run's context may end at any moment; replies are lost, refused or   *)
(* unreadable; a job goes on at the provider whether or not anyone polls.  *)
(*                                                                         *)
(* A model's name is who knows it: a provider's id stands for a name of    *)
(* that provider's, "" for none.                                           *)
(***************************************************************************)
EXTENDS Routing, FiniteSets

CONSTANTS
    Configs,    \* what providerConfig may have built
    Nodes       \* what a node may ask: see NodeFields

Kinds == {"llm", "agent", "image", "edit", "vision", "completion", "video", "matte", "local"}

\* The order of a role is a list.
ASSUME CallsAssumption ==
    /\ \A n \in Nodes : n.kind \in Kinds /\ n.images \in Nat /\ n.storage \in BOOLEAN
    /\ \A c \in Configs, role \in Roles : DOMAIN Order(c, role) \subseteq Nat \ {0}

\* kind, provider and model asked; prompt "said", "none" or "unresolved";
\* image inputs; a media store or none; and the shape asked for.
NodeFields ==
    {"kind", "provider", "model", "prompt", "images", "storage",
     "aspect", "size", "resolution", "duration", "draft"}

None == "none"
Nothing == [ok |-> FALSE]
NothingMade == [media |-> None, whole |-> FALSE]

VARIABLES
    cfg,      \* the configuration of this call
    node,     \* the node and what feeds it
    pc,       \* where the call stands
    sent,     \* what was asked of providers, each item a request that costs
    job,      \* the provider's side of a submitted job
    ctx,      \* the run's context: "live" or "ended"
    child,    \* the CLI process: its state, exit and what it said
    pass,     \* the matte pass under way, 0 before
    made,     \* what came back and is about to be stored
    answer    \* the node's outcome, Nothing before

vars == <<cfg, node, pc, sent, job, ctx, child, pass, made, answer>>

NoChild == [state |-> "none", exit |-> None, said |-> {}, helper |-> FALSE]

Init ==
    /\ cfg \in Configs /\ node \in Nodes
    /\ pc = "begin" /\ sent = <<>> /\ job = None /\ ctx = "live"
    /\ child = NoChild /\ pass = 0 /\ made = NothingMade /\ answer = Nothing

----------------------------------------------------------------------------
(* Who is asked, for what model, and in which size.                        *)

RoleOf(kind) ==
    CASE kind \in {"llm", "agent"} -> "text"
      [] kind \in {"image", "edit"} -> "image"
      [] OTHER -> kind

\* removeBackground's two passes go to Gemini whatever the routing says.
Backend ==
    CASE node.kind = "matte" -> "google"
      [] node.kind = "local" -> None
      [] OTHER -> Resolve(cfg, RoleOf(node.kind), node.provider)

\* Variant: the deployment's model goes with every image.
AskedAlways ==
    IF node.kind \in {"image", "edit", "matte", "vision"} /\ node.model = "" THEN "google"
    ELSE IF RoleOf(node.kind) = "text" THEN TextModelAsked(cfg, node.model) ELSE node.model

\* The engine's part: the deployment's image and vision models are Gemini's
\* and go nowhere else; its video model is unset.
Asked ==
    IF node.kind \in {"image", "edit", "matte", "vision"} /\ node.model = "" /\ Backend = "google"
    THEN "google"
    ELSE IF RoleOf(node.kind) = "text" THEN TextModelAsked(cfg, node.model) ELSE node.model

\* The adapter's part: a provider fills in its own, and Black Forest Labs'
\* image route drops a name it does not know.
ModelSent ==
    IF node.kind \in {"image", "edit"} /\ Backend = "bfl" THEN "bfl"
    ELSE IF Asked # "" THEN Asked ELSE OwnModel(cfg, RoleOf(node.kind), Backend)

Ratio(aspect) ==
    CASE aspect = "16:9" -> <<16, 9>> [] aspect = "9:16" -> <<9, 16>>
      [] aspect = "4:3" -> <<4, 3>>   [] aspect = "3:4" -> <<3, 4>>
      [] aspect = "3:2" -> <<3, 2>>   [] aspect = "2:3" -> <<2, 3>>
      [] OTHER -> <<1, 1>>

Round32(v) == IF (v \div 32) * 32 < 64 THEN 64 ELSE (v \div 32) * 32

Longest(size) == CASE size = "2K" -> 1536 [] size = "512" -> 512 [] OTHER -> 1024

\* bflDimensions: the long side as asked, the other in proportion.
BflDimensions(aspect, size) ==
    LET long == Longest(size)
        w == Ratio(aspect)[1]  h == Ratio(aspect)[2]
    IN  IF w >= h THEN <<Round32(long), Round32((long * h) \div w)>>
        ELSE <<Round32((long * w) \div h), Round32(long)>>

Round16(v) ==
    LET n == ((v + 8) \div 16) * 16 IN
    IF n < 256 THEN 256 ELSE IF n > 2048 THEN 2048 ELSE n

\* The square root of p * a / b, rounded down.
RootOf(p, a, b) == CHOOSE k \in 0..2100 : k * k * b <= p * a /\ (k + 1) * (k + 1) * b > p * a

\* imageEndpointDimensions: the area as asked, in the ratio asked, on a stride
\* of 16.  The source's square root is a float; adding 8 and truncating sees
\* only its integer part.
EndpointDimensions(aspect, size) ==
    LET pixels == CASE size = "2K" -> 2359296 [] size = "512" -> 262144 [] OTHER -> 1048576
        w == Ratio(aspect)[1]  h == Ratio(aspect)[2]
    IN  <<Round16(RootOf(pixels, w, h)), Round16(RootOf(pixels, h, w))>>

\* An edit names no aspect and 1K.
SizeSent ==
    LET aspect == IF node.kind = "image" THEN node.aspect ELSE ""
        size == IF node.kind = "image" THEN node.size ELSE "1K"
    IN  CASE Backend = "bfl" /\ node.kind \in {"image", "edit"} -> BflDimensions(aspect, size)
          [] Backend = "custom-image" -> EndpointDimensions(aspect, size)
          [] OTHER -> <<>>

Request == [to |-> Backend, model |-> ModelSent, size |-> SizeSent]

----------------------------------------------------------------------------
(* What is refused before anything is sent.                                *)

NoPrompt == node.prompt = "none"

\* A text that came in may hold a placeholder nothing answers.
NoText == node.prompt \in {"none", "unresolved"}

LLMRefuses == node.kind = "llm" /\ NoText
AgentRefuses == node.kind = "agent" /\ NoText
GenerateImageRefuses == node.kind = "image" /\ NoText
GenerateVideoRefuses == node.kind = "video" /\ (NoText \/ ~node.storage)
EditImageRefuses == node.kind = "edit" /\ (NoPrompt \/ node.images = 0)
VisionRefuses == node.kind = "vision" /\ (NoPrompt \/ node.images = 0)
RemoveBackgroundRefuses == node.kind = "matte" /\ node.images = 0

\* The programmatic removal, rotate and flip.
LocalWorkRefuses == node.kind = "local" /\ node.images = 0

RefusedByNode ==
    \/ LLMRefuses \/ AgentRefuses \/ GenerateImageRefuses \/ GenerateVideoRefuses
    \/ EditImageRefuses \/ VisionRefuses \/ RemoveBackgroundRefuses \/ LocalWorkRefuses

\* normalizeResolution: every spelling of a step, and "?" for anything else.
NormalizeResolution(v) ==
    CASE v \in {"hd", "720", "720p"} -> "hd"
      [] v \in {"fhd", "fullhd", "1080", "1080p"} -> "fhd"
      [] v \in {"qhd", "1440", "1440p", "2k"} -> "qhd"
      [] v \in {"uhd", "4k", "2160", "2160p"} -> "uhd"
      [] v = "" -> ""
      [] OTHER -> "?"

\* bflVideoGenerate's guards.
BflVideoRefuses ==
    LET resolution == NormalizeResolution(node.resolution) IN
    \/ "bfl" \notin cfg.keys
    \/ node.model \notin {"", "bfl"}
    \/ resolution = "?"
    \/ node.draft /\ resolution \notin {"", "hd"}
    \/ node.aspect \notin {"", "auto", "21:9", "2:1", "16:9", "4:3", "1:1", "3:4", "9:16"}
    \/ node.duration # 0 /\ node.duration \notin 5..20

\* geminiVideoGenerate's guards, checkVeoModel among them.
VeoRefuses ==
    \/ "google" \notin cfg.keys
    \/ node.model \notin {"", "google"}
    \/ NormalizeResolution(node.resolution) \in {"?", "qhd"}
    \/ node.aspect \notin {"", "auto", "16:9", "9:16"}
    \/ node.duration \notin {0, 4, 6, 8}
    \/ node.draft

\* The guards of the adapters that answer in one exchange.  Ollama and
\* Gemini's image and vision routes check nothing.
CLIRefuses == Backend \in CLIProviders /\ (node.kind = "agent" \/ Backend \notin cfg.clis)

IsText == RoleOf(node.kind) = "text"

AnthropicRefuses == IsText /\ Backend = "anthropic" /\ "anthropic" \notin cfg.keys

OpenAIRefuses == IsText /\ Backend = "openai" /\ "openai" \notin cfg.keys

EndpointRefuses ==
    IsText /\ Backend \in AddressConfigured /\ (~EndpointFor(cfg, Backend).url \/ ModelSent = "")

ImageEndpointRefuses == Backend = "custom-image" /\ ~EndpointFor(cfg, Backend).url

\* Of the three local servers, only one with an address is ever resolved to,
\* unless the node named it; a request then goes to no address at all.
VisionEndpointRefuses ==
    node.kind = "vision" /\ Backend \in AddressConfigured
    /\ (ModelSent = "" \/ ~EndpointFor(cfg, Backend).url)

CompletionRefuses ==
    node.kind = "completion"
    /\ (ModelSent = "" \/ (Backend \in AddressConfigured /\ ~EndpointFor(cfg, Backend).url))

BflImageRefuses == node.kind \in {"image", "edit"} /\ Backend = "bfl" /\ "bfl" \notin cfg.keys

RefusedByAdapter ==
    \/ CLIRefuses \/ AnthropicRefuses \/ OpenAIRefuses \/ EndpointRefuses
    \/ ImageEndpointRefuses \/ VisionEndpointRefuses \/ CompletionRefuses \/ BflImageRefuses
    \/ node.kind = "video" /\ (IF Backend = "bfl" THEN BflVideoRefuses ELSE VeoRefuses)

Refused == RefusedByNode \/ (node.kind # "local" /\ RefusedByAdapter)

\* VideoGenerate and Black Forest Labs' images: submitted, then waited for.
IsJob == node.kind = "video" \/ (Backend = "bfl" /\ node.kind \in {"image", "edit"})

----------------------------------------------------------------------------
(* Steps shared by every kind of call.                                     *)

Settle(outcome) == pc' = "done" /\ answer' = outcome

Fail == Settle([ok |-> FALSE]) /\ UNCHANGED made

\* What came back goes to the media store, or straight out for text.
Deliver(what) ==
    /\ made' = what
    /\ IF what.media \in {"image", "video"} THEN pc' = "storing" /\ UNCHANGED answer
       ELSE Settle([ok |-> TRUE, media |-> what.media, whole |-> what.whole, url |-> FALSE])

\* A refusal, or a completion with nothing to complete.
Refuse ==
    /\ pc = "begin"
    /\ \/ Refused /\ Fail
       \/ ~Refused /\ node.kind = "completion" /\ node.prompt = "none"
          /\ Deliver([media |-> "text", whole |-> TRUE])
    /\ UNCHANGED <<cfg, node, sent, job, ctx, child, pass>>

\* rotate, flip and the programmatic background removal: no provider.
WorkLocally ==
    /\ pc = "begin" /\ node.kind = "local" /\ ~Refused
    /\ Fail \/ Deliver([media |-> "image", whole |-> TRUE])
    /\ UNCHANGED <<cfg, node, sent, job, ctx, child, pass>>

\* The deadline of the run, its cancellation or the end of the process.
ContextEnds ==
    /\ ctx = "live" /\ pc # "done" /\ ctx' = "ended"
    /\ UNCHANGED <<cfg, node, pc, sent, job, child, pass, made, answer>>

\* What the media store answers: an address, an error, or nothing.
Saved == IF node.storage THEN {"url", "failed", "no address"} ELSE {"failed"}

\* storeImage: best effort, the image goes on by itself.
StoreImage ==
    /\ pc = "storing" /\ made.media = "image"
    /\ \E saved \in Saved :
           Settle([ok |-> TRUE, media |-> "image", whole |-> made.whole, url |-> saved = "url"])
    /\ UNCHANGED <<cfg, node, sent, job, ctx, child, pass, made>>

\* storeVideo: a video nobody can open is a failure.
StoreVideo ==
    /\ pc = "storing" /\ made.media = "video"
    /\ \E saved \in Saved :
           IF saved # "url" THEN Fail
           ELSE Settle([ok |-> TRUE, media |-> "video", whole |-> made.whole, url |-> TRUE])
                /\ UNCHANGED made
    /\ UNCHANGED <<cfg, node, sent, job, ctx, child, pass>>

----------------------------------------------------------------------------
(* One exchange: ask and be answered.                                      *)

AsksOnce ==
    /\ ~Refused /\ ~IsJob /\ node.kind # "local" /\ Backend \notin CLIProviders
    /\ ~(node.kind = "completion" /\ node.prompt = "none")

\* A request made on an ended context is not sent.
Ask ==
    /\ pc = "begin" /\ AsksOnce
    /\ IF ctx = "ended" THEN Fail /\ UNCHANGED <<sent, pass>>
       ELSE /\ pc' = "asked" /\ sent' = Append(sent, Request)
            /\ pass' = IF node.kind = "matte" THEN 1 ELSE 0
            /\ UNCHANGED <<made, answer>>
    /\ UNCHANGED <<cfg, node, job, ctx, child>>

\* What comes back: nothing that can be read, an error in the provider's own
\* words, or a reply that holds nothing, blanks, a declined request, a call of
\* a tool or what was asked for.
Broken == {"lost", "refused", "unreadable"}
Replies == Broken \cup {"error", "nothing", "blank", "declined", "tools", "content"}

\* emptyCompletion: a tool call is an answer, blanks are none.
Says(reply) == reply \in {"declined", "tools", "content"}

Understood == {reply \in Replies \ (Broken \cup {"error"}) : Says(reply)}

\* parseOpenAIStyleCompletion and openAIComplete: a decline is text like any
\* other.
OpenAIStyleAnswers == Understood

\* anthropicComplete: a decline says so and is an error.
AnthropicAnswers == Understood \ {"declined"}

OpenAIStyleVisionAnswers == Understood \ {"tools"}

\* GeminiVision answers with whatever text there is, none included.
GeminiVisionAnswers == {"nothing", "blank", "declined", "content"}

\* CodeCompletion: nothing to insert is an answer.
CompletionAnswers == {"nothing", "blank", "declined", "content"}

\* An image has to be there.
GeminiImageAnswers == {"content"}
EndpointImageAnswers == {"content"}

Accepted ==
    CASE IsText -> IF Backend = "anthropic" THEN AnthropicAnswers ELSE OpenAIStyleAnswers
      [] node.kind = "vision" ->
            IF Backend = "google" THEN GeminiVisionAnswers ELSE OpenAIStyleVisionAnswers
      [] node.kind = "completion" -> CompletionAnswers
      [] OTHER -> IF Backend = "google" THEN GeminiImageAnswers ELSE EndpointImageAnswers

MediaOf(kind) == IF kind \in {"llm", "agent", "vision", "completion"} THEN "text" ELSE "image"

Answered ==
    /\ pc = "asked" /\ node.kind # "matte"
    /\ \E reply \in Replies :
           IF reply \notin Accepted THEN Fail
           ELSE Deliver([media |-> MediaOf(node.kind), whole |-> Says(reply)])
    /\ UNCHANGED <<cfg, node, sent, job, ctx, child, pass>>

\* Variant: the firmer white prompt is tried until it works.
NextPassForever == CASE pass \in {1, 2} -> {2} [] pass = 3 -> {4} [] pass = 4 -> {5} [] OTHER -> {}

\* Passes 1 and 2 want a white background, 3 to 5 a black one; a pass that
\* left the background as it was is tried again more firmly, a pass that
\* brought no image ends the node, and so does the last try of each colour.
NextPass == CASE pass = 1 -> {2} [] pass = 3 -> {4} [] pass = 4 -> {5} [] OTHER -> {}

MatteAnswered ==
    /\ pc = "asked" /\ node.kind = "matte"
    /\ \E reply \in {"no image", "wrong background", "right background", "sizes differ"} :
           LET next == CASE reply = "wrong background" -> NextPass
                         [] reply \in {"right background", "sizes differ"} /\ pass \in {1, 2} -> {3}
                         [] OTHER -> {}
           IN  \/ \E p \in next :
                     IF ctx = "ended" THEN Fail /\ UNCHANGED <<sent, pass>>
                     ELSE /\ pass' = p /\ sent' = Append(sent, Request)
                          /\ UNCHANGED <<pc, made, answer>>
               \/ /\ next = {} /\ UNCHANGED <<sent, pass>>
                  \* mattingExtract wants two pictures of one size.
                  /\ IF reply = "right background" THEN Deliver([media |-> "image", whole |-> TRUE])
                     ELSE Fail
    /\ UNCHANGED <<cfg, node, job, ctx, child>>

----------------------------------------------------------------------------
(* A job: submit, poll, fetch.                                             *)

\* Of a reply that does not name the job, nothing says whether there is one.
Submit ==
    /\ pc = "begin" /\ ~Refused /\ IsJob
    /\ IF ctx = "ended" THEN Fail /\ UNCHANGED <<sent, job>>
       ELSE /\ sent' = Append(sent, Request)
            /\ \/ pc' = "waiting" /\ job' = "working" /\ UNCHANGED <<made, answer>>
               \/ Fail /\ job' \in {None, "working"}
    /\ UNCHANGED <<cfg, node, ctx, child, pass>>

BflSubmit == Backend = "bfl" /\ Submit
VeoSubmit == Backend = "google" /\ Submit

JobMoves ==
    /\ job = "working" /\ job' \in {"ready", "failed", "moderated", "forgotten"}
    /\ UNCHANGED <<cfg, node, pc, sent, ctx, child, pass, made, answer>>

\* bflAwait, veoAwait: the interval passes, or the context ends; when both
\* have, either may be seen first.
Wait ==
    /\ pc = "waiting"
    /\ (ctx = "ended" /\ Fail) \/ (pc' = "polling" /\ UNCHANGED <<made, answer>>)
    /\ UNCHANGED <<cfg, node, sent, job, ctx, child, pass>>

\* One poll: a lost or refused reply gives the job up for good; only a job
\* still working is asked again, and a ready one has to name its sample.
Poll ==
    /\ pc = "polling"
    /\ \/ Fail
       \/ ctx = "live" /\ job = "working" /\ pc' = "waiting" /\ UNCHANGED <<made, answer>>
       \/ ctx = "live" /\ job = "ready" /\ pc' = "fetching" /\ UNCHANGED <<made, answer>>
    /\ UNCHANGED <<cfg, node, sent, job, ctx, child, pass>>

\* Variant: a video that comes is taken for what was expected.
VideoDownloadAny ==
    /\ pc = "fetching" /\ node.kind = "video"
    /\ \/ Fail
       \/ ctx = "live" /\ \E whole \in BOOLEAN : Deliver([media |-> "video", whole |-> whole])
    /\ UNCHANGED <<cfg, node, sent, job, ctx, child, pass>>

\* bflVideoDownload and veoDownload: a body that is not a video is refused.
VideoDownload ==
    /\ pc = "fetching" /\ node.kind = "video"
    /\ Fail \/ (ctx = "live" /\ Deliver([media |-> "video", whole |-> TRUE]))
    /\ UNCHANGED <<cfg, node, sent, job, ctx, child, pass>>

\* bflDownload takes any body for a PNG.
BflDownload ==
    /\ pc = "fetching" /\ node.kind # "video"
    /\ \/ Fail
       \/ ctx = "live" /\ \E whole \in BOOLEAN : Deliver([media |-> "image", whole |-> whole])
    /\ UNCHANGED <<cfg, node, sent, job, ctx, child, pass>>

----------------------------------------------------------------------------
(* A CLI.                                                                  *)

\* runLocalCLI up to cmd.Run.  On an ended context the process is not started.
StartCLI ==
    /\ pc = "begin" /\ ~Refused /\ Backend \in CLIProviders
    /\ IF ctx = "ended" THEN Fail /\ UNCHANGED <<child, sent>>
       ELSE /\ pc' = "running" /\ child' = [NoChild EXCEPT !.state = "running"]
            /\ sent' = Append(sent, Request) /\ UNCHANGED <<made, answer>>
    /\ UNCHANGED <<cfg, node, job, ctx, pass>>

\* The process ends by itself, having said what it said, and may leave a
\* helper that holds its output open.
ChildExits ==
    /\ child.state = "running"
    /\ \E exit \in {"zero", "nonzero"}, said \in SUBSET {"message", "error"}, helper \in BOOLEAN :
           child' = [state |-> "over", exit |-> exit, said |-> said, helper |-> helper]
    /\ UNCHANGED <<cfg, node, pc, sent, job, ctx, pass, made, answer>>

\* Variant: the process is not tied to the context.
KillNever == FALSE /\ UNCHANGED vars

\* CommandContext kills the process when its ten minutes or the run are over.
KillChild ==
    /\ child.state = "running"
    /\ \E said \in SUBSET {"message", "error"}, helper \in BOOLEAN :
           child' = [state |-> "over", exit |-> IF ctx = "ended" THEN "killed" ELSE "timed out",
                     said |-> said, helper |-> helper]
    /\ UNCHANGED <<cfg, node, pc, sent, job, ctx, pass, made, answer>>

HelperLeaves ==
    /\ child.state = "over" /\ child.helper
    /\ child' = [child EXCEPT !.helper = FALSE]
    /\ UNCHANGED <<cfg, node, pc, sent, job, ctx, pass, made, answer>>

CleanExit == child.exit = "zero"

\* claudeCLIComplete and qwenCLIComplete: a clean exit and no error envelope.
\* Without an envelope, whatever was printed is the answer.
ClaudeAnswers == CleanExit /\ "error" \notin child.said
QwenAnswers == CleanExit /\ "error" \notin child.said

\* codexCLIComplete: the exit alone decides, and an error event is advice.
CodexAnswers == CleanExit

\* mimoCLIComplete: an error event comes with a clean exit too.
MimoAnswers == "error" \notin child.said /\ CleanExit

CLIAnswers ==
    CASE Backend = "claude-cli" -> ClaudeAnswers
      [] Backend = "codex-cli" -> CodexAnswers
      [] Backend = "qwen-cli" -> QwenAnswers
      [] OTHER -> MimoAnswers

\* cmd.Run returns when the process is over and its output is closed.
CLIReturns ==
    /\ pc = "running" /\ child.state = "over" /\ ~child.helper
    /\ IF CLIAnswers THEN Deliver([media |-> "text", whole |-> "message" \in child.said]) ELSE Fail
    /\ UNCHANGED <<cfg, node, sent, job, ctx, child, pass>>

----------------------------------------------------------------------------
Code ==
    \/ Refuse \/ WorkLocally \/ StoreImage \/ StoreVideo
    \/ Ask \/ Answered \/ MatteAnswered
    \/ BflSubmit \/ VeoSubmit \/ Wait \/ Poll \/ VideoDownload \/ BflDownload
    \/ StartCLI \/ CLIReturns

Next == Code \/ ContextEnds \/ JobMoves \/ ChildExits \/ KillChild \/ HelperLeaves

\* The code goes on: the HTTP client gives a reply up after five minutes, the
\* run's deadline ends its context, the CLI's own kills the process.  Neither
\* a provider's job, nor a process, nor a helper is bound to end.
Fairness == WF_vars(Code) /\ WF_vars(ContextEnds) /\ WF_vars(KillChild)

Spec == Init /\ [][Next]_vars /\ Fairness

----------------------------------------------------------------------------
(* Properties.                                                             *)

\* The type of the state.
TypeOK ==
    /\ cfg \in Configs /\ node \in Nodes
    /\ pc \in {"begin", "asked", "waiting", "polling", "fetching", "running", "storing", "done"}
    /\ job \in {None, "working", "ready", "failed", "moderated", "forgotten"}
    /\ ctx \in {"live", "ended"} /\ pass \in 0..5
    /\ child.state \in {"none", "running", "over"}
    /\ pc # "done" => answer = Nothing

\* A call goes to a provider that does this job, to a CLI only when the node,
\* the deployment or the project named it, and, when nobody named one, to the
\* first of the project's order that is usable, or else to any that is
\* (PreferredOrDefault and the five resolvers).
RoutedRight ==
    node.kind # "matte" /\ sent # <<>> =>
        LET role == RoleOf(node.kind)
            p == sent[1].to
            order == Order(cfg, role)
            named == Known(role, node.provider) \/ Known(role, Deployment(cfg, role))
        IN  /\ role \in RolesOf(p)
            /\ p \in CLIProviders => named \/ p \in Elements(order)
            /\ ~named => \/ Has(cfg, role, p)
                         \/ Usable(cfg, role) \subseteq CLIProviders \ Elements(order)
            /\ ~named => \A i \in DOMAIN order :
                             Has(cfg, role, order[i]) => \E j \in 1..i : order[j] = p

\* What is sent can be understood at the other end: a model the node or a pin
\* named, or one of the provider's own; for Black Forest Labs a size in
\* multiples of 32 whose long side is the one asked for, for an image endpoint
\* one in multiples of 16, in range, with about the area asked for
\* (runtime.go, "handing over a name nobody there has heard of";
\* bflDimensions, imageEndpointSize).
SentIsUnderstood ==
    \A i \in DOMAIN sent :
        LET s == sent[i] IN
        /\ \/ s.model # "" /\ s.model \in {node.model, cfg.pinned}
           \/ s.model = OwnModel(cfg, RoleOf(node.kind), s.to)
        /\ s.size # <<>> /\ s.to = "bfl" =>
              /\ \A k \in 1..2 : s.size[k] % 32 = 0 /\ s.size[k] >= 64
              /\ \E k \in 1..2 : s.size[k] = Longest(IF node.kind = "image" THEN node.size ELSE "1K")
        /\ s.size # <<>> /\ s.to = "custom-image" =>
              LET long == IF node.kind # "image" THEN 1024
                          ELSE Longest(node.size)
                  area == s.size[1] * s.size[2]
              IN  /\ \A k \in 1..2 : s.size[k] % 16 = 0 /\ s.size[k] \in 256..2048
                  /\ 100 * area \in (96 * long * long)..(104 * long * long)

\* An answer is what the provider made of this very request: a video is the
\* whole video of a job that ended well, at an address somebody can open; text
\* over HTTP says something or calls a tool; a CLI's comes from a process that
\* ended by itself with status 0 (bflVideoDownload, veoDownload, storeVideo,
\* emptyCompletion, runLocalCLI).
AnswersAreEarned ==
    answer.ok =>
        /\ job # None => job = "ready"
        /\ node.kind = "video" => job = "ready" /\ answer.whole /\ answer.url
        /\ node.kind \in {"llm", "agent"} /\ child.state = "none" => answer.whole
        /\ child.state # "none" => child.state = "over" /\ child.exit = "zero"
        /\ sent = <<>> => node.kind \in {"local", "completion"}

\* Nobody is asked twice for one thing: one request per node, and for a
\* background removal two white passes and three black ones at most
\* (runRemoveBackground, "do not retry blindly"; bflAwait, veoAwait).
PaidOnce ==
    /\ Len(sent) <= IF node.kind = "matte" THEN 5 ELSE 1
    /\ answer.ok /\ node.kind = "matte" => pass >= 3

\* Every call comes to an end, whatever the provider's job and the CLI's
\* process do: the run's deadline and the CLI's own see to it.  The one thing
\* neither of them reaches is a helper that a CLI left behind and that keeps
\* its output open for good (runLocalCLI gives cmd.Run no WaitDelay).
CallEnds == <>(pc = "done") \/ <>[](child.helper)

=============================================================================
