---------------------------- MODULE CallsProofs ----------------------------
(***************************************************************************)
(* One node's call, for every configuration and every node: who is asked,  *)
(* how often, and what an answer rests on.                                 *)
(***************************************************************************)
EXTENDS Calls, RoutingProofs

\* Where the call stands says what it has done so far.
Progress ==
    /\ pc = "begin" => sent = <<>> /\ job = None /\ child = NoChild /\ pass = 0
    /\ pc \notin {"begin", "done"} => sent # <<>> \/ node.kind = "local"
    /\ pc \in {"asked", "running"} => job = None
    /\ pc = "fetching" => job = "ready"
    /\ pc = "storing" => job \in {None, "ready"}
    /\ pc \in {"asked", "waiting", "polling", "fetching", "storing"} => child.state = "none"

\* And of what kind it can be.
KindFits ==
    /\ pc = "asked" => node.kind \notin {"video", "local"}
    /\ pc = "running" => node.kind = "llm"
    /\ pc \in {"waiting", "polling", "fetching"} => node.kind \in {"video", "image", "edit"}
    /\ pc = "storing" =>
          /\ node.kind \notin {"llm", "agent"}
          /\ node.kind = "video" => made.media = "video" /\ made.whole /\ job = "ready"
          /\ made.media = "video" => node.kind = "video"

\* What was asked of providers: this request, as often as its kind allows.
Asking ==
    /\ sent \in Seq({Request})
    /\ node.kind = "local" => sent = <<>>
    /\ node.kind # "matte" => Len(sent) <= 1
    /\ node.kind = "matte" => Len(sent) <= pass
    /\ node.kind = "matte" /\ pc = "asked" => pass \in 1..5
    /\ node.kind = "matte" /\ (pc = "storing" \/ answer.ok) => pass >= 3

IInv == TypeOK /\ Progress /\ KindFits /\ Asking /\ AnswersAreEarned

----------------------------------------------------------------------------
(* The operators.                                                          *)

LEMMA RoleIsOne == ASSUME NEW kind \in Kinds \ {"matte", "local"} PROVE RoleOf(kind) \in Roles
  BY DEF Kinds, RoleOf, Roles

\* Whoever answers does the job asked for.
LEMMA ResolvedDoesTheJob ==
    ASSUME NEW c, NEW role \in Roles, NEW name, Listed(Order(c, role))
    PROVE  Resolve(c, role, name) \in Elements(ProvidersFor(role))
  <1>1. PreferredOrDefault(c, role) \in Elements(ProvidersFor(role))
    BY PreferenceIsRight
  <1> QED BY <1>1, MeantIsOne DEF Resolve

\* The lists an order is made of have places.
LEMMA OrdersAreListed ==
    ASSUME cfg \in Configs, NEW role \in Roles
    PROVE  Listed(Order(cfg, role))
  BY CallsAssumption DEF Listed

\* Only a question to a language model goes to a CLI.
LEMMA CLIsAnswerText ==
    ASSUME cfg \in Configs, node \in Nodes, Backend \in CLIProviders
    PROVE  node.kind \in {"llm", "agent"}
  <1>1. node.kind \in Kinds
    BY CallsAssumption
  <1>2. node.kind \notin {"matte", "local"}
    BY DEF Backend, CLIProviders, None
  <1>3. RoleOf(node.kind) \in Roles
    BY <1>1, <1>2, RoleIsOne
  <1>4. Backend \in Elements(ProvidersFor(RoleOf(node.kind)))
    BY <1>2, <1>3, OrdersAreListed, ResolvedDoesTheJob DEF Backend
  <1>5. RoleOf(node.kind) = "text"
    BY <1>3, <1>4, ImageOnes, VideoOnes, VisionOnes, CompletionOnes DEF Roles, ProvidersFor, CLIProviders
  <1> QED BY <1>1, <1>2, <1>5 DEF RoleOf, Kinds

\* The request stays what it is while the call goes on.
LEMMA RequestStays ==
    ASSUME UNCHANGED <<cfg, node>>
    PROVE  Request' = Request /\ Backend' = Backend
  <1>1. Backend' = Backend
    BY DEF Backend
  <1>2. Asked' = Asked
    BY <1>1 DEF Asked
  <1>3. ModelSent' = ModelSent
    BY <1>1, <1>2 DEF ModelSent
  <1>4. SizeSent' = SizeSent
    BY <1>1 DEF SizeSent
  <1> QED BY <1>1, <1>3, <1>4 DEF Request

\* One more request is one more.
LEMMA OneMore ==
    ASSUME NEW r, NEW s \in Seq({r})
    PROVE  Append(s, r) \in Seq({r}) /\ Len(Append(s, r)) = Len(s) + 1 /\ Append(s, r) # <<>>
  <1>1. Append(s, r) \in Seq({r})
    OBVIOUS
  <1>2. Len(Append(s, r)) = Len(s) + 1 /\ Len(s) \in Nat
    OBVIOUS
  <1> QED BY <1>1, <1>2, EmptySeq

\* The next pass of a matte is a later one.
LEMMA NextIsLater ==
    ASSUME pass \in 1..5, NEW p \in NextPass
    PROVE  p \in 1..5 /\ p > pass
  <1>1. NextPass = IF pass = 1 THEN {2} ELSE IF pass = 3 THEN {4} ELSE IF pass = 4 THEN {5} ELSE {}
    BY DEF NextPass
  <1> QED BY <1>1

----------------------------------------------------------------------------
(* Sizes.                                                                  *)

\* Squares grow.
LEMMA SquaresGrow == ASSUME NEW x \in Nat, NEW y \in Nat, x <= y PROVE x * x <= y * y
  <1>1. x * x <= x * y
    OBVIOUS
  <1>2. x * y <= y * y
    OBVIOUS
  <1> QED BY <1>1, <1>2

\* There is one square root rounded down.
IsRoot(v, b, k) == k * k * b <= v /\ (k + 1) * (k + 1) * b > v

\* A number whose square is not over v is no more than one whose successor's is.
LEMMA RootsMeet ==
    ASSUME NEW v \in Nat, NEW b \in Nat \ {0}, NEW i \in Nat, NEW j \in Nat,
           (i + 1) * (i + 1) * b > v, j * j * b <= v
    PROVE  j <= i
  <1> SUFFICES ASSUME ~ (j <= i) PROVE FALSE
    OBVIOUS
  <1> DEFINE x == (i + 1) * (i + 1)  y == j * j
  <1>1. i + 1 \in Nat /\ i + 1 <= j
    OBVIOUS
  <1>2. x <= y
    BY <1>1, SquaresGrow
  <1>3. x \in Nat /\ y \in Nat
    OBVIOUS
  <1>4. x * b > v /\ y * b <= v
    OBVIOUS
  <1> HIDE DEF x, y
  <1>5. x * b <= y * b
    BY <1>2, <1>3
  <1>6. x * b \in Nat /\ y * b \in Nat
    BY <1>3
  <1> QED BY <1>4, <1>5, <1>6

LEMMA OneRoot ==
    ASSUME NEW v \in Nat, NEW b \in Nat \ {0}, NEW i \in Nat, NEW j \in Nat,
           IsRoot(v, b, i), IsRoot(v, b, j)
    PROVE  i = j
  <1>1. (i + 1) * (i + 1) * b > v /\ j * j * b <= v
    BY DEF IsRoot
  <1>2. (j + 1) * (j + 1) * b > v /\ i * i * b <= v
    BY DEF IsRoot
  <1>3. j <= i
    BY <1>1, RootsMeet
  <1>4. i <= j
    BY <1>2, RootsMeet
  <1> QED BY <1>3, <1>4

LEMMA RootIs ==
    ASSUME NEW p \in Nat, NEW a \in Nat, NEW b \in Nat \ {0}, NEW k \in 0..2100,
           k * k * b <= p * a, (k + 1) * (k + 1) * b > p * a
    PROVE  RootOf(p, a, b) = k
  <1> DEFINE v == p * a
             Places == 0..2100
             r == CHOOSE j \in Places : IsRoot(v, b, j)
  <1>1. v \in Nat /\ IsRoot(v, b, k) /\ k \in Places
    BY DEF IsRoot
  <1>2. RootOf(p, a, b) = r
    BY DEF RootOf, IsRoot
  <1> HIDE DEF v, Places
  <1>3. \E j \in Places : IsRoot(v, b, j)
    BY <1>1
  <1>4. r \in Places /\ IsRoot(v, b, r)
    BY <1>3
  <1> HIDE DEF r
  <1>5. r \in Nat /\ k \in Nat
    BY <1>4 DEF Places
  <1>6. r = k
    BY <1>1, <1>4, <1>5, OneRoot
  <1> QED BY <1>2, <1>6

\* The sides of a large image, in each ratio.
LEMMA LargeSides ==
    /\ Round16(RootOf(2359296, 16, 9)) = 2048
    /\ Round16(RootOf(2359296, 9, 16)) = 1152
    /\ Round16(RootOf(2359296, 4, 3)) = 1776
    /\ Round16(RootOf(2359296, 3, 4)) = 1328
    /\ Round16(RootOf(2359296, 3, 2)) = 1888
    /\ Round16(RootOf(2359296, 2, 3)) = 1248
    /\ Round16(RootOf(2359296, 1, 1)) = 1536
  <1>1. RootOf(2359296, 16, 9) = 2048
    BY RootIs, SMT
  <1>2. RootOf(2359296, 9, 16) = 1152
    BY RootIs, SMT
  <1>3. RootOf(2359296, 4, 3) = 1773
    BY RootIs, SMT
  <1>4. RootOf(2359296, 3, 4) = 1330
    BY RootIs, SMT
  <1>5. RootOf(2359296, 3, 2) = 1881
    BY RootIs, SMT
  <1>6. RootOf(2359296, 2, 3) = 1254
    BY RootIs, SMT
  <1>7. RootOf(2359296, 1, 1) = 1536
    BY RootIs, SMT
  <1> QED BY <1>1, <1>2, <1>3, <1>4, <1>5, <1>6, <1>7, SMT DEF Round16

\* The sides of a small image, in each ratio.
LEMMA SmallSides ==
    /\ Round16(RootOf(262144, 16, 9)) = 688
    /\ Round16(RootOf(262144, 9, 16)) = 384
    /\ Round16(RootOf(262144, 4, 3)) = 592
    /\ Round16(RootOf(262144, 3, 4)) = 448
    /\ Round16(RootOf(262144, 3, 2)) = 624
    /\ Round16(RootOf(262144, 2, 3)) = 416
    /\ Round16(RootOf(262144, 1, 1)) = 512
  <1>1. RootOf(262144, 16, 9) = 682
    BY RootIs, SMT
  <1>2. RootOf(262144, 9, 16) = 384
    BY RootIs, SMT
  <1>3. RootOf(262144, 4, 3) = 591
    BY RootIs, SMT
  <1>4. RootOf(262144, 3, 4) = 443
    BY RootIs, SMT
  <1>5. RootOf(262144, 3, 2) = 627
    BY RootIs, SMT
  <1>6. RootOf(262144, 2, 3) = 418
    BY RootIs, SMT
  <1>7. RootOf(262144, 1, 1) = 512
    BY RootIs, SMT
  <1> QED BY <1>1, <1>2, <1>3, <1>4, <1>5, <1>6, <1>7, SMT DEF Round16

\* The sides of the usual image, in each ratio.
LEMMA UsualSides ==
    /\ Round16(RootOf(1048576, 16, 9)) = 1360
    /\ Round16(RootOf(1048576, 9, 16)) = 768
    /\ Round16(RootOf(1048576, 4, 3)) = 1184
    /\ Round16(RootOf(1048576, 3, 4)) = 880
    /\ Round16(RootOf(1048576, 3, 2)) = 1248
    /\ Round16(RootOf(1048576, 2, 3)) = 832
    /\ Round16(RootOf(1048576, 1, 1)) = 1024
  <1>1. RootOf(1048576, 16, 9) = 1365
    BY RootIs, SMT
  <1>2. RootOf(1048576, 9, 16) = 768
    BY RootIs, SMT
  <1>3. RootOf(1048576, 4, 3) = 1182
    BY RootIs, SMT
  <1>4. RootOf(1048576, 3, 4) = 886
    BY RootIs, SMT
  <1>5. RootOf(1048576, 3, 2) = 1254
    BY RootIs, SMT
  <1>6. RootOf(1048576, 2, 3) = 836
    BY RootIs, SMT
  <1>7. RootOf(1048576, 1, 1) = 1024
    BY RootIs, SMT
  <1> QED BY <1>1, <1>2, <1>3, <1>4, <1>5, <1>6, <1>7, SMT DEF Round16

\* What the parts of a size are made of: seven ratios, three lengths.
InRatio(w, h) ==
    \/ w = 16 /\ h = 9
    \/ w = 9 /\ h = 16
    \/ w = 4 /\ h = 3
    \/ w = 3 /\ h = 4
    \/ w = 3 /\ h = 2
    \/ w = 2 /\ h = 3
    \/ w = 1 /\ h = 1

LEMMA RatioIsOneOfSeven == ASSUME NEW aspect PROVE InRatio(Ratio(aspect)[1], Ratio(aspect)[2])
  <1>1. CASE aspect = "16:9"
    <2>1. Ratio(aspect) = <<16, 9>>
      BY <1>1 DEF Ratio
    <2> QED BY <2>1 DEF InRatio
  <1>2. CASE aspect = "9:16"
    <2>1. Ratio(aspect) = <<9, 16>>
      BY <1>2 DEF Ratio
    <2> QED BY <2>1 DEF InRatio
  <1>3. CASE aspect = "4:3"
    <2>1. Ratio(aspect) = <<4, 3>>
      BY <1>3 DEF Ratio
    <2> QED BY <2>1 DEF InRatio
  <1>4. CASE aspect = "3:4"
    <2>1. Ratio(aspect) = <<3, 4>>
      BY <1>4 DEF Ratio
    <2> QED BY <2>1 DEF InRatio
  <1>5. CASE aspect = "3:2"
    <2>1. Ratio(aspect) = <<3, 2>>
      BY <1>5 DEF Ratio
    <2> QED BY <2>1 DEF InRatio
  <1>6. CASE aspect = "2:3"
    <2>1. Ratio(aspect) = <<2, 3>>
      BY <1>6 DEF Ratio
    <2> QED BY <2>1 DEF InRatio
  <1>7. CASE aspect \notin {"16:9", "9:16", "4:3", "3:4", "3:2", "2:3"}
    <2>1. Ratio(aspect) = <<1, 1>>
      BY <1>7 DEF Ratio
    <2> QED BY <2>1 DEF InRatio
  <1> QED BY <1>1, <1>2, <1>3, <1>4, <1>5, <1>6, <1>7

LEMMA LongestIsOneOfThree == ASSUME NEW size PROVE Longest(size) \in {1536, 512, 1024}
  BY DEF Longest

\* What an image endpoint takes: multiples of 16 in range, about the area asked for.
EndpointTakes(x, y, long) ==
    /\ x % 16 = 0 /\ x \in 256..2048 /\ y % 16 = 0 /\ y \in 256..2048
    /\ 96 * long * long <= 100 * (x * y) /\ 100 * (x * y) <= 104 * long * long

\* Whatever the ratio, an image endpoint takes the size asked for.
LEMMA LargeIsTaken ==
    ASSUME NEW w, NEW h, InRatio(w, h)
    PROVE  EndpointTakes(Round16(RootOf(2359296, w, h)), Round16(RootOf(2359296, h, w)), 1536)
  BY LargeSides, SMT DEF EndpointTakes, InRatio

LEMMA SmallIsTaken ==
    ASSUME NEW w, NEW h, InRatio(w, h)
    PROVE  EndpointTakes(Round16(RootOf(262144, w, h)), Round16(RootOf(262144, h, w)), 512)
  BY SmallSides, SMT DEF EndpointTakes, InRatio

LEMMA UsualIsTaken ==
    ASSUME NEW w, NEW h, InRatio(w, h)
    PROVE  EndpointTakes(Round16(RootOf(1048576, w, h)), Round16(RootOf(1048576, h, w)), 1024)
  BY UsualSides, SMT DEF EndpointTakes, InRatio

LEMMA EndpointTakesIt ==
    ASSUME NEW aspect, NEW size, NEW d, d = EndpointDimensions(aspect, size)
    PROVE  EndpointTakes(d[1], d[2], Longest(size))
  <1> DEFINE w == Ratio(aspect)[1]  h == Ratio(aspect)[2]
  <1>1. InRatio(w, h)
    BY RatioIsOneOfSeven
  <1>2. CASE size = "2K"
    <2>1. d = <<Round16(RootOf(2359296, w, h)), Round16(RootOf(2359296, h, w))>> /\ Longest(size) = 1536
      BY <1>2, SMT DEF EndpointDimensions, Longest
    <2> HIDE DEF w, h
    <2> QED BY <1>1, <2>1, LargeIsTaken, SMT
  <1>3. CASE size = "512"
    <2>1. d = <<Round16(RootOf(262144, w, h)), Round16(RootOf(262144, h, w))>> /\ Longest(size) = 512
      BY <1>3, SMT DEF EndpointDimensions, Longest
    <2> HIDE DEF w, h
    <2> QED BY <1>1, <2>1, SmallIsTaken, SMT
  <1>4. CASE size \notin {"2K", "512"}
    <2>1. d = <<Round16(RootOf(1048576, w, h)), Round16(RootOf(1048576, h, w))>> /\ Longest(size) = 1024
      BY <1>4, SMT DEF EndpointDimensions, Longest
    <2> HIDE DEF w, h
    <2> QED BY <1>1, <2>1, UsualIsTaken, SMT
  <1> QED BY <1>2, <1>3, <1>4

\* What Black Forest Labs takes: multiples of 32, the long side as asked.
TakesBfl(d, long) ==
    /\ \A k \in 1..2 : d[k] % 32 = 0 /\ d[k] >= 64
    /\ \E k \in 1..2 : d[k] = long

\* Sides are on a stride of 32, and the long ones are where they were.
LEMMA StrideOf32 ==
    /\ Round32(1536) = 1536 /\ Round32(512) = 512 /\ Round32(1024) = 1024
    /\ \A v \in Nat : Round32(v) % 32 = 0 /\ Round32(v) >= 64
  <1>1. Round32(1536) = 1536 /\ Round32(512) = 512 /\ Round32(1024) = 1024
    BY DEF Round32
  <1>2. ASSUME NEW v \in Nat PROVE Round32(v) % 32 = 0 /\ Round32(v) >= 64
    BY DEF Round32
  <1> QED BY <1>1, <1>2

LEMMA BflTakesIt ==
    ASSUME NEW aspect, NEW size
    PROVE  TakesBfl(BflDimensions(aspect, size), Longest(size))
  <1> DEFINE w == Ratio(aspect)[1]  h == Ratio(aspect)[2]  long == Longest(size)
  <1>1. w \in Nat \ {0} /\ h \in Nat \ {0}
    BY RatioIsOneOfSeven DEF InRatio
  <1>2. long \in {1536, 512, 1024}
    BY LongestIsOneOfThree
  <1>3. Round32(long) = long
    BY <1>2, StrideOf32
  <1>4. BflDimensions(aspect, size) = IF w >= h THEN <<Round32(long), Round32((long * h) \div w)>>
                                      ELSE <<Round32((long * w) \div h), Round32(long)>>
    BY DEF BflDimensions
  <1> HIDE DEF w, h, long
  <1>5. long \in Nat /\ (long * h) \div w \in Nat /\ (long * w) \div h \in Nat
    BY <1>1, <1>2
  <1>6. CASE w >= h
    BY <1>3, <1>4, <1>5, <1>6, StrideOf32 DEF TakesBfl, long
  <1>7. CASE ~ (w >= h)
    BY <1>3, <1>4, <1>5, <1>7, StrideOf32 DEF TakesBfl, long
  <1> QED BY <1>6, <1>7

\* The model a request names is the node's, the pinned one, or one of the
\* provider's own.
LEMMA ModelIsKnown ==
    \/ ModelSent # "" /\ ModelSent \in {node.model, cfg.pinned}
    \/ ModelSent = OwnModel(cfg, RoleOf(node.kind), Backend)
  <1>1. \A role, p : p \in {"google", "bfl"} => OwnModel(cfg, role, p) = p
    <2>1. Elements(OpenAICompatibleProviders) = {"ollama-local", "lmstudio", "custom"}
      BY DEF Elements, OpenAICompatibleProviders
    <2>2. Elements(ImageEndpointProviders) = {"custom-image"}
      BY DEF Elements, ImageEndpointProviders
    <2>3. \A p \in {"google", "bfl"} : p \notin AddressConfigured /\ p # "ollama" /\ p \notin CLIProviders
      BY <2>1, <2>2 DEF AddressConfigured, HostedEndpoints, CLIProviders
    <2> QED BY <2>3 DEF OwnModel
  <1>2. CASE node.kind \in {"image", "edit"} /\ Backend = "bfl"
    BY <1>1, <1>2 DEF ModelSent
  <1>3. CASE ~ (node.kind \in {"image", "edit"} /\ Backend = "bfl") /\ Asked = ""
    BY <1>3 DEF ModelSent
  <1>4. CASE ~ (node.kind \in {"image", "edit"} /\ Backend = "bfl") /\ Asked # ""
    <2>1. ModelSent = Asked
      BY <1>4 DEF ModelSent
    <2>2. CASE node.kind \in {"image", "edit", "matte", "vision"} /\ node.model = "" /\ Backend = "google"
      BY <1>1, <2>1, <2>2 DEF Asked
    <2>3. CASE ~ (node.kind \in {"image", "edit", "matte", "vision"} /\ node.model = "" /\ Backend = "google")
      <3>1. Asked = IF RoleOf(node.kind) = "text" THEN TextModelAsked(cfg, node.model) ELSE node.model
        BY <2>3 DEF Asked
      <3>2. Asked \in {node.model, cfg.pinned}
        BY <3>1 DEF TextModelAsked
      <3> QED BY <1>4, <2>1, <3>2
    <2> QED BY <2>2, <2>3
  <1> QED BY <1>2, <1>3, <1>4

\* The size a request asks for is one its reader takes.
LEMMA SizeIsTaken ==
    ASSUME SizeSent # <<>>
    PROVE  LET long == Longest(IF node.kind = "image" THEN node.size ELSE "1K") IN
           /\ Backend = "bfl" => TakesBfl(SizeSent, long)
           /\ Backend = "custom-image" => EndpointTakes(SizeSent[1], SizeSent[2], long)
  <1> DEFINE aspect == IF node.kind = "image" THEN node.aspect ELSE ""
             size == IF node.kind = "image" THEN node.size ELSE "1K"
  <1>1. CASE Backend = "bfl"
    <2>1. SizeSent = BflDimensions(aspect, size)
      BY <1>1 DEF SizeSent
    <2> HIDE DEF aspect
    <2>2. TakesBfl(SizeSent, Longest(size))
      BY <2>1, BflTakesIt
    <2> QED BY <1>1, <2>2
  <1>2. CASE Backend = "custom-image"
    <2>1. SizeSent = EndpointDimensions(aspect, size)
      BY <1>2 DEF SizeSent
    <2> HIDE DEF aspect
    <2>2. EndpointTakes(SizeSent[1], SizeSent[2], Longest(size))
      BY <2>1, EndpointTakesIt
    <2> QED BY <1>2, <2>2
  <1> QED BY <1>1, <1>2

\* The area in percent is a number.
LEMMA AreaIsANumber == ASSUME NEW x \in Nat, NEW y \in Nat PROVE 100 * (x * y) \in Int
  <1>1. x * y \in Nat
    OBVIOUS
  <1> QED BY <1>1

\* In a range is between its ends.
LEMMA Between ==
    ASSUME NEW lo \in Int, NEW hi \in Int, NEW x \in Int, lo <= x, x <= hi
    PROVE  x \in lo..hi
  OBVIOUS

----------------------------------------------------------------------------
(* Two steps that take more.                                               *)

\* A process that ends, by itself or killed, is over.
LEMMA ChildIsOver ==
    ASSUME ChildExits \/ KillChild
    PROVE  /\ child.state = "running" /\ child'.state = "over"
           /\ UNCHANGED <<pc, sent, job, ctx, pass, made, answer>>
  <1>1. CASE ChildExits
    BY <1>1 DEF ChildExits
  <1>2. CASE KillChild
    <2>1. PICK said \in SUBSET {"message", "error"}, helper \in BOOLEAN :
             child' = [state |-> "over", exit |-> IF ctx = "ended" THEN "killed" ELSE "timed out",
                       said |-> said, helper |-> helper]
      BY <1>2 DEF KillChild
    <2>2. child'.state = "over"
      BY <2>1, Zenon
    <2> QED BY <1>2, <2>2 DEF KillChild
  <1> QED BY <1>1, <1>2

LEMMA FirstPasses ==
    ASSUME NEW x \in 1..5
    PROVE  (x \in {1, 2} => 3 > x /\ 3 \in 1..5) /\ (x \notin {1, 2} => x >= 3)
  OBVIOUS

\* What one pass of a matte does: it ends the node, asks once more and later,
\* or has both pictures.
LEMMA MatteCases ==
    ASSUME MatteAnswered, pass \in 1..5
    PROVE  /\ pc = "asked" /\ node.kind = "matte" /\ UNCHANGED <<job, ctx, child>>
           /\ \/ pc' = "done" /\ answer' = [ok |-> FALSE] /\ UNCHANGED <<made, sent, pass>>
              \/ /\ pass' \in 1..5 /\ pass' > pass
                 /\ sent' = Append(sent, Request) /\ UNCHANGED <<pc, made, answer>>
              \/ /\ pass >= 3 /\ pc' = "storing" /\ made' = [media |-> "image", whole |-> TRUE]
                 /\ UNCHANGED <<answer, sent, pass>>
  <1> DEFINE Later(reply) == CASE reply = "wrong background" -> NextPass
                               [] reply \in {"right background", "sizes differ"} /\ pass \in {1, 2} -> {3}
                               [] OTHER -> {}
  <1>1. PICK reply \in {"no image", "wrong background", "right background", "sizes differ"} :
           \/ \E p \in Later(reply) :
                 IF ctx = "ended" THEN Fail /\ UNCHANGED <<sent, pass>>
                 ELSE /\ pass' = p /\ sent' = Append(sent, Request)
                      /\ UNCHANGED <<pc, made, answer>>
           \/ /\ Later(reply) = {} /\ UNCHANGED <<sent, pass>>
              /\ IF reply = "right background" THEN Deliver([media |-> "image", whole |-> TRUE])
                 ELSE Fail
    BY DEF MatteAnswered
  <1>2. \/ reply = "wrong background" /\ Later(reply) = NextPass
        \/ /\ reply \in {"right background", "sizes differ"}
           /\ Later(reply) = IF pass \in {1, 2} THEN {3} ELSE {}
        \/ reply = "no image" /\ Later(reply) = {}
    OBVIOUS
  <1> HIDE DEF Later
  <1>3. ASSUME NEW p \in Later(reply) PROVE p \in 1..5 /\ p > pass
    <2>1. CASE p \in NextPass
      BY <2>1, NextIsLater
    <2>2. CASE pass \in {1, 2} /\ p = 3
      BY <2>2, FirstPasses
    <2> QED BY <1>2, <1>3, <2>1, <2>2
  <1>4. reply = "right background" /\ Later(reply) = {} => pass >= 3
    <2>1. reply = "right background" /\ Later(reply) = {} => pass \notin {1, 2}
      BY <1>2
    <2> QED BY <2>1, FirstPasses
  <1>5. Fail => pc' = "done" /\ answer' = [ok |-> FALSE] /\ UNCHANGED made
    BY DEF Fail, Settle
  <1>6. Deliver([media |-> "image", whole |-> TRUE]) =>
           /\ pc' = "storing" /\ made' = [media |-> "image", whole |-> TRUE] /\ UNCHANGED answer
    BY DEF Deliver
  <1>7. pc = "asked" /\ node.kind = "matte" /\ UNCHANGED <<job, ctx, child>>
    BY DEF MatteAnswered
  <1>8. CASE \E p \in Later(reply) :
                IF ctx = "ended" THEN Fail /\ UNCHANGED <<sent, pass>>
                ELSE /\ pass' = p /\ sent' = Append(sent, Request)
                     /\ UNCHANGED <<pc, made, answer>>
    BY <1>3, <1>5, <1>7, <1>8
  <1>9. CASE /\ Later(reply) = {} /\ UNCHANGED <<sent, pass>>
             /\ IF reply = "right background" THEN Deliver([media |-> "image", whole |-> TRUE])
                ELSE Fail
    BY <1>4, <1>5, <1>6, <1>7, <1>9
  <1> QED BY <1>1, <1>8, <1>9

LEMMA MatteHolds ==
    ASSUME IInv, MatteAnswered, UNCHANGED <<cfg, node>>, Request' = Request
    PROVE  IInv'
  <1>1. pass \in 1..5 /\ pc = "asked" /\ node.kind = "matte"
    BY DEF MatteAnswered, IInv, Asking
  <1>2. sent \in Seq({Request}) /\ Len(sent) <= pass
    BY <1>1 DEF IInv, Asking
  <1>3. Len(sent) \in Nat
    BY <1>2
  <1>4. CASE pc' = "done" /\ answer' = [ok |-> FALSE] /\ UNCHANGED <<made, sent, pass>>
    BY <1>1, <1>4, MatteCases DEF IInv, TypeOK, Progress, KindFits, Asking, AnswersAreEarned
  <1>5. CASE /\ pass' \in 1..5 /\ pass' > pass
             /\ sent' = Append(sent, Request) /\ UNCHANGED <<pc, made, answer>>
    <2>1. sent' \in Seq({Request}) /\ Len(sent') = Len(sent) + 1 /\ sent' # <<>>
      BY <1>2, <1>5, OneMore
    <2>2. Len(sent') <= pass' /\ pass' \in 0..5
      BY <1>1, <1>2, <1>3, <1>5, <2>1
    <2>3. UNCHANGED <<job, ctx, child>>
      BY <1>1, MatteCases
    <2>4. (TypeOK /\ Progress /\ KindFits)'
      BY <1>1, <1>5, <2>1, <2>2, <2>3 DEF IInv, TypeOK, Progress, KindFits
    <2>5. ~answer'.ok
      BY <1>1, <1>5 DEF IInv, TypeOK, Nothing
    <2> QED BY <1>1, <1>5, <2>1, <2>2, <2>3, <2>4, <2>5 DEF IInv, Asking, AnswersAreEarned
  <1>6. CASE /\ pass >= 3 /\ pc' = "storing" /\ made' = [media |-> "image", whole |-> TRUE]
             /\ UNCHANGED <<answer, sent, pass>>
    BY <1>1, <1>6, MatteCases
       DEF IInv, TypeOK, Progress, KindFits, Asking, AnswersAreEarned, Nothing
  <1> QED BY <1>1, <1>4, <1>5, <1>6, MatteCases

----------------------------------------------------------------------------
LEMMA InitHolds == Init => IInv
  <1> SUFFICES ASSUME Init PROVE IInv
    OBVIOUS
  <1> USE DEF Init
  <1>1. TypeOK
    BY DEF TypeOK, NoChild, None
  <1>2. Progress /\ KindFits
    BY DEF Progress, KindFits
  <1>3. Asking
    BY CallsAssumption DEF Asking, Nothing
  <1>4. AnswersAreEarned
    BY DEF AnswersAreEarned, Nothing
  <1> QED BY <1>1, <1>2, <1>3, <1>4 DEF IInv

LEMMA StepHolds == IInv /\ [Next]_vars => IInv'
  <1> SUFFICES ASSUME IInv, [Next]_vars PROVE IInv'
    OBVIOUS
  <1> USE DEF IInv
  <1>k. node.kind \in Kinds
    BY CallsAssumption DEF TypeOK
  <1>s. UNCHANGED <<cfg, node>>
    BY DEF Next, Code, vars, Refuse, WorkLocally, StoreImage, StoreVideo, Ask, Answered,
           MatteAnswered, BflSubmit, VeoSubmit, Submit, Wait, Poll, VideoDownload, BflDownload,
           StartCLI, CLIReturns, ContextEnds, JobMoves, ChildExits, KillChild, HelperLeaves
  <1>r. Request' = Request /\ Backend' = Backend
    BY <1>s, RequestStays
  <1> USE <1>k, <1>s, <1>r DEF TypeOK, Progress, KindFits, Asking, AnswersAreEarned
  <1>1. CASE Refuse
    BY <1>1 DEF Refuse, Fail, Deliver, Settle, NoChild, Nothing
  <1>2. CASE WorkLocally
    BY <1>2 DEF WorkLocally, Fail, Deliver, Settle, NoChild, Nothing
  <1>3. CASE StoreImage
    BY <1>3 DEF StoreImage, Settle, Nothing
  <1>4. CASE StoreVideo
    BY <1>4 DEF StoreVideo, Settle, Fail, Nothing
  <1>5. CASE Ask
    <2>1. /\ pc = "begin" /\ node.kind \notin {"video", "local"}
          /\ UNCHANGED <<job, ctx, child>>
      BY <1>5 DEF Ask, AsksOnce, IsJob
    <2>2. child.state = "none"
      BY <2>1 DEF NoChild
    <2>3. CASE ctx = "ended"
      <3>1. pc' = "done" /\ answer' = [ok |-> FALSE] /\ UNCHANGED <<sent, pass, made>>
        BY <1>5, <2>3 DEF Ask, Fail, Settle
      <3> QED BY <2>1, <2>2, <3>1
    <2>4. CASE ctx # "ended"
      <3>1. /\ pc' = "asked" /\ sent' = Append(sent, Request) /\ UNCHANGED <<made, answer>>
            /\ pass' = IF node.kind = "matte" THEN 1 ELSE 0
        BY <1>5, <2>4 DEF Ask
      <3>2. sent' \in Seq({Request}) /\ Len(sent') = 1 /\ sent' # <<>>
        BY <2>1, <3>1, OneMore
      <3> QED BY <2>1, <2>2, <3>1, <3>2 DEF Nothing
    <2> QED BY <2>3, <2>4
  <1>6. CASE Answered
    <2>1. /\ pc = "asked" /\ node.kind # "matte"
          /\ UNCHANGED <<sent, job, ctx, child, pass>>
      BY <1>6 DEF Answered
    <2>2. PICK reply \in Replies :
             IF reply \notin Accepted THEN Fail
             ELSE Deliver([media |-> MediaOf(node.kind), whole |-> Says(reply)])
      BY <1>6 DEF Answered
    <2>3. CASE reply \notin Accepted
      <3>1. pc' = "done" /\ answer' = [ok |-> FALSE] /\ UNCHANGED made
        BY <2>2, <2>3 DEF Fail, Settle
      <3> QED BY <2>1, <3>1
    <2>4. CASE reply \in Accepted /\ MediaOf(node.kind) = "text"
      <3>1. /\ pc' = "done" /\ answer' = [ok |-> TRUE, media |-> "text", whole |-> Says(reply), url |-> FALSE]
        BY <2>2, <2>4 DEF Deliver, Settle
      <3>2. node.kind \in {"llm", "agent"} => Says(reply)
        BY <2>4 DEF Accepted, IsText, RoleOf, AnthropicAnswers, OpenAIStyleAnswers, Understood
      <3> QED BY <2>1, <3>1, <3>2
    <2>5. CASE reply \in Accepted /\ MediaOf(node.kind) # "text"
      <3>1. node.kind \notin {"llm", "agent"} /\ MediaOf(node.kind) = "image"
        BY <2>5 DEF MediaOf
      <3>2. /\ pc' = "storing" /\ made' = [media |-> "image", whole |-> Says(reply)]
            /\ UNCHANGED answer
        BY <2>2, <2>5, <3>1 DEF Deliver
      <3> QED BY <2>1, <3>1, <3>2 DEF Nothing
    <2> QED BY <2>3, <2>4, <2>5
  <1>7. CASE MatteAnswered
    BY <1>7, MatteHolds DEF TypeOK
  <1>8. CASE BflSubmit \/ VeoSubmit
    BY <1>8, OneMore DEF BflSubmit, VeoSubmit, Submit, IsJob, Fail, Settle, NoChild, Nothing
  <1>9. CASE Wait
    BY <1>9 DEF Wait, Fail, Settle, Nothing
  <1>10. CASE Poll
    BY <1>10 DEF Poll, Fail, Settle, Nothing
  <1>11. CASE VideoDownload
    BY <1>11 DEF VideoDownload, Fail, Deliver, Settle, Nothing
  <1>12. CASE BflDownload
    BY <1>12 DEF BflDownload, Fail, Deliver, Settle, Nothing
  <1>13. CASE StartCLI
    <2>1. /\ pc = "begin" /\ Backend \in CLIProviders /\ ~Refused
          /\ UNCHANGED <<job, ctx, pass>>
      BY <1>13 DEF StartCLI
    <2>2. node.kind = "llm"
      BY <2>1, CLIsAnswerText DEF Refused, RefusedByAdapter, CLIRefuses
    <2>3. CASE ctx = "ended"
      <3>1. pc' = "done" /\ answer' = [ok |-> FALSE] /\ UNCHANGED <<child, sent, made>>
        BY <1>13, <2>3 DEF StartCLI, Fail, Settle
      <3> QED BY <2>1, <2>2, <3>1
    <2>4. CASE ctx # "ended"
      <3>1. /\ pc' = "running" /\ sent' = Append(sent, Request) /\ UNCHANGED <<made, answer>>
            /\ child' = [NoChild EXCEPT !.state = "running"]
        BY <1>13, <2>4 DEF StartCLI
      <3>2. child'.state = "running"
        BY <3>1 DEF NoChild
      <3>3. sent' \in Seq({Request}) /\ Len(sent') = 1 /\ sent' # <<>>
        BY <2>1, <3>1, OneMore
      <3> QED BY <2>1, <2>2, <3>1, <3>2, <3>3 DEF Nothing
    <2> QED BY <2>3, <2>4
  <1>14. CASE CLIReturns
    BY <1>14 DEF CLIReturns, CLIAnswers, Fail, Deliver, Settle, Nothing, ClaudeAnswers, CodexAnswers, QwenAnswers, MimoAnswers, CleanExit
  <1>15. CASE ContextEnds
    BY <1>15 DEF ContextEnds
  <1>16. CASE JobMoves
    BY <1>16 DEF JobMoves, None
  <1>17. CASE ChildExits \/ KillChild
    <2>1. /\ child.state = "running" /\ child'.state = "over"
          /\ UNCHANGED <<pc, sent, job, ctx, pass, made, answer>>
      BY <1>17, ChildIsOver
    <2>2. pc # "begin"
      BY <2>1 DEF NoChild
    <2> QED BY <2>1, <2>2
  <1>18. CASE HelperLeaves
    BY <1>18 DEF HelperLeaves, NoChild
  <1>19. CASE UNCHANGED vars
    BY <1>19 DEF vars
  <1> QED BY <1>1, <1>2, <1>3, <1>4, <1>5, <1>6, <1>7, <1>8, <1>9, <1>10, <1>11, <1>12, <1>13,
             <1>14, <1>15, <1>16, <1>17, <1>18, <1>19 DEF Next, Code

THEOREM StageIsKept == Spec => []IInv
  BY InitHolds, StepHolds, PTL DEF Spec

\* The type of the state, at every moment of every call.
THEOREM CallsTypeCorrect == Spec => []TypeOK
  BY StageIsKept, PTL DEF IInv

\* One request per node; a background removal asks five times at most, and
\* answers only once it has a black background too.
THEOREM PaidOnceAlways == Spec => []PaidOnce
  <1>1. ASSUME IInv PROVE PaidOnce
    <2>1. Len(sent) \in Nat
      BY <1>1 DEF IInv, Asking
    <2> QED BY <1>1, <2>1 DEF IInv, Asking, TypeOK, PaidOnce
  <1> QED BY <1>1, StageIsKept, PTL

\* An answer is what the provider made of this request: the job ended well,
\* the video is whole, the text says something, the process ended with 0.
THEOREM AnswersAlwaysEarned == Spec => []AnswersAreEarned
  BY StageIsKept, PTL DEF IInv

\* Whoever is asked does the job, is a CLI only if somebody named it, and is
\* the first of the project's order that can be used.
THEOREM AlwaysRoutedRight == Spec => []RoutedRight
  <1>1. ASSUME IInv PROVE RoutedRight
    <2> SUFFICES ASSUME node.kind # "matte", sent # <<>>
                 PROVE  LET role == RoleOf(node.kind)
                            p == sent[1].to
                            order == Order(cfg, role)
                            named == Known(role, node.provider) \/ Known(role, Deployment(cfg, role))
                        IN  /\ role \in RolesOf(p)
                            /\ p \in CLIProviders => named \/ p \in Elements(order)
                            /\ ~named => \/ Has(cfg, role, p)
                                         \/ Usable(cfg, role) \subseteq CLIProviders \ Elements(order)
                            /\ ~named => \A i \in DOMAIN order :
                                             Has(cfg, role, order[i]) => \E j \in 1..i : order[j] = p
      BY DEF RoutedRight
    <2> DEFINE role == RoleOf(node.kind)
               order == Order(cfg, role)
               named == Known(role, node.provider) \/ Known(role, Deployment(cfg, role))
    <2>1. node.kind \in Kinds \ {"matte", "local"}
      BY <1>1, CallsAssumption DEF IInv, TypeOK, Asking
    <2>2. role \in Roles
      BY <2>1, RoleIsOne
    <2>3. Listed(order)
      BY <1>1, <2>2, OrdersAreListed DEF IInv, TypeOK
    <2>4. sent[1] = Request
      BY <1>1 DEF IInv, Asking
    <2>5. sent[1].to = Resolve(cfg, role, node.provider)
      BY <2>1, <2>4 DEF Request, Backend
    <2> DEFINE p == sent[1].to
    <2>6. role \in RolesOf(p)
      BY <2>2, <2>3, <2>5, ResolvedDoesTheJob DEF RolesOf
    <2>7. ASSUME ~named
          PROVE  /\ p \in CLIProviders => p \in Elements(order)
                 /\ p \in Usable(cfg, role) \/ Usable(cfg, role) \subseteq CLIProviders \ Elements(order)
                 /\ \A i \in DOMAIN order :
                       order[i] \in Usable(cfg, role) => \E j \in 1..i : order[j] = p
      <3>1. p = PreferredOrDefault(cfg, role)
        BY <2>5, <2>7 DEF Resolve
      <3> QED BY <2>2, <2>3, <3>1, PreferenceIsRight
    <2>8. \A q : Has(cfg, role, q) <=> q \in Usable(cfg, role)
      BY DEF Usable, Has
    <2> HIDE DEF role, order, p, named
    <2> QED BY <2>6, <2>7, <2>8 DEF role, order, p, named
  <1> QED BY <1>1, StageIsKept, PTL

\* What is sent can be understood at the other end: its model is the node's,
\* the pinned one or the provider's own, and its size is one the provider takes.
THEOREM SentAlwaysUnderstood == Spec => []SentIsUnderstood
  <1>1. ASSUME IInv PROVE SentIsUnderstood
    <2> SUFFICES ASSUME NEW i \in DOMAIN sent
                 PROVE  LET s == sent[i] IN
                        /\ \/ s.model # "" /\ s.model \in {node.model, cfg.pinned}
                           \/ s.model = OwnModel(cfg, RoleOf(node.kind), s.to)
                        /\ s.size # <<>> /\ s.to = "bfl" =>
                              /\ \A k \in 1..2 : s.size[k] % 32 = 0 /\ s.size[k] >= 64
                              /\ \E k \in 1..2 : s.size[k] = Longest(IF node.kind = "image" THEN node.size ELSE "1K")
                        /\ s.size # <<>> /\ s.to = "custom-image" =>
                              LET long == IF node.kind # "image" THEN 1024
                                          ELSE Longest(node.size)
                                  area == s.size[1] * s.size[2]
                              IN  /\ \A k \in 1..2 : s.size[k] % 16 = 0 /\ s.size[k] \in 256..2048
                                  /\ 100 * area \in (96 * long * long)..(104 * long * long)
      BY DEF SentIsUnderstood
    <2> DEFINE s == sent[i]
               long == IF node.kind # "image" THEN 1024 ELSE Longest(node.size)
               d == s.size
    <2>1. s = Request
      BY <1>1 DEF IInv, Asking
    <2>2. s.to = Backend /\ s.model = ModelSent /\ d = SizeSent
      BY <2>1 DEF Request
    <2>3. \/ s.model # "" /\ s.model \in {node.model, cfg.pinned}
          \/ s.model = OwnModel(cfg, RoleOf(node.kind), s.to)
      BY <2>2, ModelIsKnown
    <2> DEFINE asked == Longest(IF node.kind = "image" THEN node.size ELSE "1K")
    <2>4. d # <<>> => /\ s.to = "bfl" => TakesBfl(d, asked)
                      /\ s.to = "custom-image" => EndpointTakes(d[1], d[2], asked)
      BY <2>2, SizeIsTaken
    <2>5. asked = long
      BY DEF Longest
    <2>6. long \in Nat
      BY LongestIsOneOfThree
    <2> HIDE DEF s, long, d, asked
    <2>7. ASSUME d # <<>>, s.to = "bfl"
          PROVE  /\ \A k \in 1..2 : d[k] % 32 = 0 /\ d[k] >= 64
                 /\ \E k \in 1..2 : d[k] = asked
      BY <2>4, <2>7 DEF TakesBfl
    <2>8. ASSUME d # <<>>, s.to = "custom-image"
          PROVE  /\ \A k \in 1..2 : d[k] % 16 = 0 /\ d[k] \in 256..2048
                 /\ 100 * (d[1] * d[2]) \in (96 * long * long)..(104 * long * long)
      <3> DEFINE x == d[1]
                 y == d[2]
                 area == 100 * (x * y)
                 lo == 96 * long * long
                 hi == 104 * long * long
      <3>1. EndpointTakes(x, y, long)
        BY <2>4, <2>5, <2>8
      <3> HIDE DEF x, y
      <3>2. lo <= area /\ area <= hi
        BY <3>1 DEF EndpointTakes
      <3>3. x % 16 = 0 /\ x \in 256..2048 /\ y % 16 = 0 /\ y \in 256..2048
        BY <3>1 DEF EndpointTakes
      <3>4. x \in Nat /\ y \in Nat
        BY <3>3
      <3>5. area \in Int /\ lo \in Int /\ hi \in Int
        BY <2>6, <3>4, AreaIsANumber
      <3> HIDE DEF area, lo, hi
      <3>6. area \in lo..hi
        BY <3>2, <3>5, Between
      <3>7. ASSUME NEW k \in 1..2 PROVE d[k] % 16 = 0 /\ d[k] \in 256..2048
        <4>1. k = 1 \/ k = 2
          OBVIOUS
        <4> QED BY <3>3, <4>1 DEF x, y
      <3> QED BY <3>6, <3>7 DEF area, lo, hi, x, y
    <2> QED BY <2>3, <2>7, <2>8 DEF s, d, long, asked
  <1> QED BY <1>1, StageIsKept, PTL

=============================================================================
