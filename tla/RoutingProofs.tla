--------------------------- MODULE RoutingProofs ---------------------------
(***************************************************************************)
(* What the routers answer, for every configuration: a provider of the     *)
(* job, one that can be used where there is one, and a CLI only where      *)
(* somebody named it.                                                      *)
(***************************************************************************)
EXTENDS Routing, WellFoundedInduction, SequenceTheorems, TLAPS

\* A list's places are numbers, so that there is a first one.
Listed(list) == DOMAIN list \subseteq Nat \ {0}

----------------------------------------------------------------------------
(* Lists.                                                                  *)

\* Any set of places has a first one.
LEMMA Least ==
    ASSUME NEW T, T \subseteq Nat, T # {}
    PROVE  \E x \in T : \A y \in T : x <= y
  <1>1. PICK x \in T : \A y \in T : ~ (<<y, x>> \in OpToRel(<, Nat))
    BY NatLessThanWellFounded, WFMin
  <1>2. \A y \in T : ~ (y < x)
    BY <1>1 DEF OpToRel
  <1>3. ASSUME NEW y \in T PROVE x <= y
    BY <1>2
  <1> QED BY <1>3

\* The first of a list that is in S is in S, and nothing before it is.
LEMMA FirstHit ==
    ASSUME NEW list, NEW S, Listed(list), Hits(list, S) # {}
    PROVE  \E i \in DOMAIN list : /\ First(list, S) = list[i]
                                  /\ list[i] \in S
                                  /\ \A j \in DOMAIN list : list[j] \in S => i <= j
  <1>1. Hits(list, S) \subseteq Nat
    BY DEF Listed, Hits
  <1>2. \E i \in Hits(list, S) : \A j \in Hits(list, S) : i <= j
    BY <1>1, Least
  <1> DEFINE i == CHOOSE i \in Hits(list, S) : \A j \in Hits(list, S) : i <= j
  <1>3. i \in Hits(list, S) /\ \A j \in Hits(list, S) : i <= j
    BY <1>2
  <1>4. First(list, S) = list[i]
    BY DEF First
  <1> HIDE DEF i
  <1> QED BY <1>3, <1>4 DEF Hits

\* Something of the list in S is a hit.
LEMMA ElementHits ==
    ASSUME NEW list, NEW S, NEW p \in Elements(list), p \in S
    PROVE  Hits(list, S) # {}
  BY DEF Elements, Hits

\* Of two lists put together, the elements are those of either.
LEMMA ElementsOfBoth ==
    ASSUME NEW S, NEW s \in Seq(S), NEW t \in Seq(S)
    PROVE  Listed(s \o t) /\ Elements(s \o t) = Elements(s) \cup Elements(t)
  <1>1. /\ s \o t \in Seq(S) /\ Len(s \o t) = Len(s) + Len(t)
        /\ \A i \in 1..Len(s) + Len(t) : (s \o t)[i] = IF i <= Len(s) THEN s[i] ELSE t[i - Len(s)]
    BY ConcatProperties
  <1>2. DOMAIN (s \o t) = 1..(Len(s) + Len(t)) /\ Len(s) \in Nat /\ Len(t) \in Nat
    BY <1>1
  <1>3. ASSUME NEW i \in DOMAIN s PROVE i \in DOMAIN (s \o t) /\ (s \o t)[i] = s[i]
    BY <1>1, <1>2
  <1>4. ASSUME NEW i \in DOMAIN t
        PROVE  Len(s) + i \in DOMAIN (s \o t) /\ (s \o t)[Len(s) + i] = t[i]
    <2>1. i \in 1..Len(t)
      OBVIOUS
    <2>2. Len(s) + i \in 1..(Len(s) + Len(t)) /\ ~ (Len(s) + i <= Len(s)) /\ (Len(s) + i) - Len(s) = i
      BY <1>2, <2>1
    <2> QED BY <1>1, <1>2, <2>2
  <1>5. ASSUME NEW i \in DOMAIN (s \o t)
        PROVE  (s \o t)[i] \in Elements(s) \cup Elements(t)
    <2>1. CASE i <= Len(s)
      BY <1>1, <1>2, <2>1 DEF Elements
    <2>2. CASE ~ (i <= Len(s))
      <3>1. i - Len(s) \in DOMAIN t
        BY <1>2, <2>2
      <3> QED BY <1>1, <1>2, <2>2, <3>1 DEF Elements
    <2> QED BY <2>1, <2>2
  <1>6. Elements(s \o t) \subseteq Elements(s) \cup Elements(t)
    BY <1>5 DEF Elements
  <1>7. Elements(s) \subseteq Elements(s \o t)
    BY <1>3 DEF Elements
  <1>8. Elements(t) \subseteq Elements(s \o t)
    BY <1>4 DEF Elements
  <1> QED BY <1>2, <1>6, <1>7, <1>8 DEF Listed

----------------------------------------------------------------------------
(* The providers of each job.                                              *)

\* The text providers, the CLIs among them.
LEMMA TextOnes ==
    /\ Listed(TextProviders)
    /\ Elements(TextProviders) =
         {"ollama", "anthropic", "openai", "ollama-local", "lmstudio", "custom", "mimo"} \cup CLIProviders
  <1>1. DOMAIN TextProviders = 1..11
    BY DEF TextProviders
  <1> QED BY <1>1 DEF TextProviders, Elements, Listed, CLIProviders

LEMMA ImageOnes ==
    /\ Listed(ImageProviders)
    /\ Elements(ImageProviders) = {"google", "bfl", "custom-image"}
  <1> DEFINE S == {"google", "bfl", "custom-image"}
             head == <<"google", "bfl">>
  <1>1. head \in Seq(S)
    OBVIOUS
  <1>2. DOMAIN head = 1..2
    OBVIOUS
  <1>3. Elements(head) = {"google", "bfl"}
    BY <1>2 DEF Elements
  <1>4. ImageEndpointProviders \in Seq(S)
    BY DEF ImageEndpointProviders
  <1>5. DOMAIN ImageEndpointProviders = 1..1
    BY DEF ImageEndpointProviders
  <1>6. Elements(ImageEndpointProviders) = {"custom-image"}
    BY <1>5 DEF Elements, ImageEndpointProviders
  <1>7. ImageProviders = head \o ImageEndpointProviders
    BY DEF ImageProviders
  <1> HIDE DEF S, head
  <1>8. /\ Listed(head \o ImageEndpointProviders)
        /\ Elements(head \o ImageEndpointProviders) = Elements(head) \cup Elements(ImageEndpointProviders)
    BY <1>1, <1>4, ElementsOfBoth
  <1> QED BY <1>3, <1>6, <1>7, <1>8

LEMMA VideoOnes == Listed(VideoProviders) /\ Elements(VideoProviders) = {"google", "bfl"}
  BY DEF VideoProviders, Elements, Listed

LEMMA LocalOnes ==
    /\ Listed(OpenAICompatibleProviders)
    /\ Elements(OpenAICompatibleProviders) = {"ollama-local", "lmstudio", "custom"}
  BY DEF OpenAICompatibleProviders, Elements, Listed

LEMMA VisionOnes ==
    /\ Listed(VisionProviders)
    /\ Elements(VisionProviders) = {"google", "ollama", "openai", "ollama-local", "lmstudio", "custom"}
  <1> DEFINE S == {"google", "ollama", "openai", "ollama-local", "lmstudio", "custom"}
             head == <<"google", "ollama", "openai">>
  <1>1. head \in Seq(S)
    OBVIOUS
  <1>2. DOMAIN head = 1..3
    OBVIOUS
  <1>3. Elements(head) = {"google", "ollama", "openai"}
    BY <1>2 DEF Elements
  <1>4. OpenAICompatibleProviders \in Seq(S)
    BY DEF OpenAICompatibleProviders
  <1>5. DOMAIN OpenAICompatibleProviders = 1..3
    BY DEF OpenAICompatibleProviders
  <1>6. Elements(OpenAICompatibleProviders) = {"ollama-local", "lmstudio", "custom"}
    BY <1>5 DEF Elements, OpenAICompatibleProviders
  <1>7. VisionProviders = head \o OpenAICompatibleProviders
    BY DEF VisionProviders
  <1> HIDE DEF S, head
  <1>8. /\ Listed(head \o OpenAICompatibleProviders)
        /\ Elements(head \o OpenAICompatibleProviders) = Elements(head) \cup Elements(OpenAICompatibleProviders)
    BY <1>1, <1>4, ElementsOfBoth
  <1> QED BY <1>3, <1>6, <1>7, <1>8

LEMMA CompletionOnes ==
    /\ Listed(CompletionProviders)
    /\ Elements(CompletionProviders) = {"ollama", "ollama-local", "lmstudio", "custom"}
  <1> DEFINE S == {"ollama", "ollama-local", "lmstudio", "custom"}
             head == <<"ollama">>
  <1>1. head \in Seq(S)
    OBVIOUS
  <1>2. DOMAIN head = 1..1
    OBVIOUS
  <1>3. Elements(head) = {"ollama"}
    BY <1>2 DEF Elements
  <1>4. OpenAICompatibleProviders \in Seq(S)
    BY DEF OpenAICompatibleProviders
  <1>5. DOMAIN OpenAICompatibleProviders = 1..3
    BY DEF OpenAICompatibleProviders
  <1>6. Elements(OpenAICompatibleProviders) = {"ollama-local", "lmstudio", "custom"}
    BY <1>5 DEF Elements, OpenAICompatibleProviders
  <1>7. CompletionProviders = head \o OpenAICompatibleProviders
    BY DEF CompletionProviders
  <1> HIDE DEF S, head
  <1>8. /\ Listed(head \o OpenAICompatibleProviders)
        /\ Elements(head \o OpenAICompatibleProviders) = Elements(head) \cup Elements(OpenAICompatibleProviders)
    BY <1>1, <1>4, ElementsOfBoth
  <1> QED BY <1>3, <1>6, <1>7, <1>8

\* Every job has a list of providers.
LEMMA EveryRoleIsListed == \A role \in Roles : Listed(ProvidersFor(role))
  BY TextOnes, ImageOnes, VideoOnes, VisionOnes, CompletionOnes DEF Roles, ProvidersFor

----------------------------------------------------------------------------
(* Who answers.                                                            *)

\* A name that is known stands for a provider of the job.
LEMMA MeantIsOne ==
    ASSUME NEW role, NEW name, Known(role, name)
    PROVE  Meant(role, name) \in Elements(ProvidersFor(role))
  BY DEF Known, Meant

\* A job's own rule names a provider of that job, never a CLI.
LEMMA OwnRuleIsOne ==
    ASSUME NEW cfg, NEW role \in Roles
    PROVE  OwnRule(cfg, role) \in Elements(ProvidersFor(role)) \ CLIProviders
  <1>1. CASE role = "text"
    BY <1>1, TextOnes DEF OwnRule, ProvidersFor, CLIProviders
  <1>2. CASE role \in {"image", "video"}
    BY <1>2, ImageOnes, VideoOnes DEF OwnRule, ProvidersFor, CLIProviders
  <1>3. CASE role = "vision"
    BY <1>3, VisionOnes DEF OwnRule, ProvidersFor, CLIProviders
  <1>4. CASE role = "completion"
    <2> DEFINE configured == {p \in AddressConfigured : EndpointConfigured(cfg, p)}
    <2>1. ProvidersFor(role) = CompletionProviders
      BY <1>4 DEF ProvidersFor
    <2>2. CASE \E p \in Elements(OpenAICompatibleProviders) : EndpointConfigured(cfg, p)
      <3>1. PICK p \in Elements(OpenAICompatibleProviders) : EndpointConfigured(cfg, p)
        BY <2>2
      <3>2. p \in configured
        BY <3>1 DEF AddressConfigured
      <3>3. Hits(OpenAICompatibleProviders, configured) # {}
        BY <3>1, <3>2, ElementHits
      <3>4. First(OpenAICompatibleProviders, configured) \in Elements(OpenAICompatibleProviders)
        BY <3>3, LocalOnes, FirstHit DEF Elements
      <3>5. OwnRule(cfg, role) = First(OpenAICompatibleProviders, configured)
        BY <1>4, <2>2 DEF OwnRule
      <3> QED BY <2>1, <3>4, <3>5, LocalOnes, CompletionOnes DEF CLIProviders
    <2>3. CASE ~ \E p \in Elements(OpenAICompatibleProviders) : EndpointConfigured(cfg, p)
      BY <1>4, <2>1, <2>3, CompletionOnes DEF OwnRule, CLIProviders
    <2> QED BY <2>2, <2>3
  <1> QED BY <1>1, <1>2, <1>3, <1>4 DEF Roles

\* The preference of a project, when nobody names a provider: one of the job;
\* one that can be used, unless only CLIs nobody ordered can; none that comes
\* after another usable one of the order; a CLI only if the order has it.
THEOREM PreferenceIsRight ==
    ASSUME NEW cfg, NEW role \in Roles, Listed(Order(cfg, role))
    PROVE  LET p == PreferredOrDefault(cfg, role)
               order == Order(cfg, role)
           IN  /\ p \in Elements(ProvidersFor(role))
               /\ p \in CLIProviders => p \in Elements(order)
               /\ \/ p \in Usable(cfg, role)
                  \/ Usable(cfg, role) \subseteq CLIProviders \ Elements(order)
               /\ \A i \in DOMAIN order :
                     order[i] \in Usable(cfg, role) => \E j \in 1..i : order[j] = p
  <1> DEFINE order == Order(cfg, role)
             usable == Usable(cfg, role)
             p == PreferredOrDefault(cfg, role)
  <1>1. usable \subseteq Elements(ProvidersFor(role))
    BY DEF Usable
  <1>2. CASE Hits(order, usable) # {}
    <2>1. p = First(order, usable)
      BY <1>2 DEF PreferredOrDefault
    <2>2. PICK i \in DOMAIN order :
             /\ First(order, usable) = order[i] /\ order[i] \in usable
             /\ \A j \in DOMAIN order : order[j] \in usable => i <= j
      BY <1>2, FirstHit
    <2>3. p \in usable /\ p \in Elements(order)
      BY <2>1, <2>2 DEF Elements
    <2>4. ASSUME NEW j \in DOMAIN order, order[j] \in usable
          PROVE  \E k \in 1..j : order[k] = p
      <3>1. i \in 1..j
        BY <2>2, <2>4 DEF Listed
      <3> QED BY <2>1, <2>2, <3>1
    <2> QED BY <1>1, <2>3, <2>4
  <1>3. CASE Hits(order, usable) = {}
    <2>1. \A i \in DOMAIN order : order[i] \notin usable
      BY <1>3 DEF Hits
    <2>2. usable \cap Elements(order) = {}
      BY <2>1 DEF Elements
    <2>3. CASE OwnRule(cfg, role) \in usable
      <3>1. p = OwnRule(cfg, role)
        BY <1>3, <2>3 DEF PreferredOrDefault
      <3> QED BY <1>1, <2>1, <2>3, <3>1, OwnRuleIsOne
    <2>4. CASE OwnRule(cfg, role) \notin usable /\ usable \ CLIProviders # {}
      <3>1. p = First(ProvidersFor(role), usable \ CLIProviders)
        BY <1>3, <2>4 DEF PreferredOrDefault
      <3>2. PICK q \in usable \ CLIProviders : TRUE
        BY <2>4
      <3>3. Hits(ProvidersFor(role), usable \ CLIProviders) # {}
        BY <1>1, <3>2, ElementHits
      <3>4. p \in usable \ CLIProviders
        BY <3>1, <3>3, EveryRoleIsListed, FirstHit
      <3> QED BY <1>1, <2>1, <3>4
    <2>5. CASE OwnRule(cfg, role) \notin usable /\ usable \ CLIProviders = {}
      <3>1. p = OwnRule(cfg, role)
        BY <1>3, <2>5 DEF PreferredOrDefault
      <3> QED BY <2>1, <2>2, <2>5, <3>1, OwnRuleIsOne
    <2> QED BY <2>3, <2>4, <2>5
  <1> QED BY <1>2, <1>3

=============================================================================
