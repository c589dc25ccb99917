------------------------ MODULE ConfigurationProofs ------------------------
(***************************************************************************)
(* Proofs about Configuration, for every proxy.env, environment and        *)
(* document.                                                               *)
(*                                                                         *)
(* EnvironmentInv says what the lines that have been read made of the      *)
(* environment; ParsedInv says of each section that has been taken what    *)
(* its conditions had to let through, and where its numbers came from.     *)
(* Neither the environment nor the document changes once they are parsed,  *)
(* and so the value of an operator such as Runtime, which reads both, is   *)
(* the same when the configuration is served.                              *)
(*                                                                         *)
(* For substitution the names are nodes of a graph, with an edge from each *)
(* to those its value refers to.  The references of a string walk through  *)
(* that graph, one step a round: without circles the walk ends before it   *)
(* has as many steps as there are names, and with one it never does.       *)
(***************************************************************************)
EXTENDS Configuration, DataLemmas

-----------------------------------------------------------------------------
(* The environment.                                                        *)

\* The lines among the first k that name a variable, and what they make of
\* the environment.
AssigningUpTo(n, k) == {i \in 1 .. k : input.file[i][1] = "assign" /\ input.file[i][2] = n}
EnvironmentAfter(k) ==
  [n \in DOMAIN input.environ \cup {m \in Names : AssigningUpTo(m, k) # {}} |->
     IF AssigningUpTo(n, k) = {} THEN input.environ[n] ELSE input.file[Max(AssigningUpTo(n, k))][3]]

EnvironmentInv ==
  /\ input \in Inputs
  /\ line \in 0 .. Len(input.file)
  /\ env = EnvironmentAfter(line)
  /\ pc # "environment" => line = Len(input.file)

\* The lines of a file.
LEMMA FileLines ==
  ASSUME input \in Inputs
  PROVE  /\ Len(input.file) \in Nat /\ DOMAIN input.file = 1 .. Len(input.file)
         /\ \A k \in 1 .. Len(input.file) :
              input.file[k][1] = "assign" => input.file[k][2] \in Names
<1>1. input.file \in Seq(Lines)
  BY InputsAssumption
<1>2. ASSUME NEW l \in Lines, l[1] = "assign"
      PROVE  l[2] \in Names
  BY <1>2 DEF Lines
<1>3. QED
  BY <1>1, <1>2

\* Before the first line the environment is what the process was started with.
LEMMA NothingRead ==
  ASSUME input \in Inputs
  PROVE  EnvironmentAfter(0) = input.environ
<1>1. \A n : AssigningUpTo(n, 0) = {}
  BY DEF AssigningUpTo
<1>2. input.environ = [n \in DOMAIN input.environ |-> input.environ[n]]
  BY InputsAssumption
<1>3. QED
  BY <1>1, <1>2 DEF EnvironmentAfter

\* A line that assigns a variable is the last to do so.
LEMMA OneLineMore ==
  ASSUME input \in Inputs, NEW k \in 0 .. Len(input.file) - 1
  PROVE  LET l == input.file[k + 1]
         IN  EnvironmentAfter(k + 1) =
               IF l[1] = "assign" THEN Over([n \in {l[2]} |-> l[3]], EnvironmentAfter(k))
               ELSE EnvironmentAfter(k)
<1> DEFINE l == input.file[k + 1]
<1>1. Len(input.file) \in Nat /\ k \in Nat /\ k + 1 \in 1 .. Len(input.file)
  BY FileLines
<1>2. ASSUME NEW n, ~ (l[1] = "assign" /\ l[2] = n)
      PROVE  AssigningUpTo(n, k + 1) = AssigningUpTo(n, k)
  BY <1>1, <1>2 DEF AssigningUpTo
<1>3. CASE l[1] # "assign"
  <2>1. \A n : AssigningUpTo(n, k + 1) = AssigningUpTo(n, k)
    BY <1>2, <1>3
  <2>2. QED
    BY <1>3, <2>1 DEF EnvironmentAfter
<1>4. CASE l[1] = "assign"
  <2>1. l[2] \in Names
    BY <1>1, <1>4, FileLines
  <2>2. AssigningUpTo(l[2], k + 1) # {} /\ Max(AssigningUpTo(l[2], k + 1)) = k + 1
    <3>1. /\ k + 1 \in AssigningUpTo(l[2], k + 1)
          /\ AssigningUpTo(l[2], k + 1) \subseteq 1 .. k + 1
      BY <1>1, <1>4 DEF AssigningUpTo
    <3>2. \A i \in AssigningUpTo(l[2], k + 1) :
            (\A j \in AssigningUpTo(l[2], k + 1) : i >= j) <=> i = k + 1
      BY <1>1, <3>1
    <3>3. QED
      BY <3>1, <3>2 DEF Max
  <2>3. \A n : n # l[2] => AssigningUpTo(n, k + 1) = AssigningUpTo(n, k)
    BY <1>2
  <2> DEFINE new == EnvironmentAfter(k + 1)
             old == Over([n \in {l[2]} |-> l[3]], EnvironmentAfter(k))
             there == DOMAIN input.environ \cup {m \in Names : AssigningUpTo(m, k + 1) # {}}
  <2>4. new = [n \in there |-> new[n]]
    BY DEF EnvironmentAfter
  <2>5. old = [n \in there |-> old[n]]
    <3>1. DOMAIN EnvironmentAfter(k) = DOMAIN input.environ \cup {m \in Names : AssigningUpTo(m, k) # {}}
      BY DEF EnvironmentAfter
    <3>2. there = {l[2]} \cup DOMAIN EnvironmentAfter(k)
      BY <2>1, <2>2, <2>3, <3>1
    <3>3. QED
      BY <3>2 DEF Over
  <2>6. ASSUME NEW n \in there
        PROVE  new[n] = old[n]
    <3>1. CASE n = l[2]
      BY <2>2, <3>1 DEF EnvironmentAfter, Over
    <3>2. CASE n # l[2]
      <4>1. AssigningUpTo(n, k + 1) = AssigningUpTo(n, k)
        BY <2>3, <3>2
      <4>2. n \in DOMAIN EnvironmentAfter(k) /\ EnvironmentAfter(k)[n] = new[n]
        BY <4>1 DEF EnvironmentAfter
      <4>3. old[n] = EnvironmentAfter(k)[n]
        BY <3>2, <4>2 DEF Over
      <4>4. QED
        BY <4>2, <4>3
    <3>3. QED
      BY <3>1, <3>2
  <2>7. new = old
    <3> HIDE DEF new, old, there
    <3>1. QED
      BY <2>4, <2>5, <2>6
  <2>8. QED
    BY <1>4, <2>7
<1>5. QED
  BY <1>3, <1>4

\* What is made of a whole file is what Effective says.
LEMMA WholeFile ==
  ASSUME input \in Inputs
  PROVE  EnvironmentAfter(Len(input.file)) = Effective
<1>1. \A n : AssigningUpTo(n, Len(input.file)) = Assigning(n)
  BY FileLines DEF AssigningUpTo, Assigning
<1> DEFINE whole == EnvironmentAfter(Len(input.file))
           there == DOMAIN input.environ \cup {m \in Names : Assigning(m) # {}}
<1>2. {m \in Names : AssigningUpTo(m, Len(input.file)) # {}} = {m \in Names : Assigning(m) # {}}
  BY <1>1
<1>3. whole = [n \in there |-> whole[n]] /\ Effective = [n \in there |-> Effective[n]]
  BY <1>2 DEF EnvironmentAfter, Effective
<1>4. ASSUME NEW n \in there
      PROVE  whole[n] = Effective[n]
  <2>1. AssigningUpTo(n, Len(input.file)) = Assigning(n)
    BY <1>1
  <2>2. QED
    BY <1>2, <2>1 DEF EnvironmentAfter, Effective
<1>5. QED
  <2> HIDE DEF whole, there
  <2>1. whole = Effective
    BY <1>3, <1>4
  <2>2. QED
    BY <2>1 DEF whole

\* What every section leaves alone.
SectionStep(here, next) ==
  /\ pc = here /\ outcome = "none" /\ UNCHANGED <<input, line, env, fields>>
  /\ \/ pc' = next /\ outcome' = "none"
     \/ pc' = here /\ outcome' = "refused" /\ cfg' = cfg

\* The four sections one after another.
LEMMA SectionSteps ==
  /\ ParseUpstream => SectionStep("upstream", "auth")
  /\ ParseAuth => SectionStep("auth", "runtime")
  /\ ParseRuntime => SectionStep("runtime", "server")
  /\ ParseServer => SectionStep("server", "main")
<1>1. ASSUME NEW here, NEW next, NEW accepted, NEW settings,
             Section(here, next, accepted, settings)
      PROVE  SectionStep(here, next)
  BY <1>1 DEF Section, SectionStep, Refuse
<1>2. ParseUpstream => SectionStep("upstream", "auth")
  BY <1>1 DEF ParseUpstream
<1>3. ParseAuth => SectionStep("auth", "runtime")
  BY <1>1 DEF ParseAuth
<1>4. ParseRuntime => SectionStep("runtime", "server")
  BY <1>1 DEF ParseRuntime
<1>5. ParseServer => SectionStep("server", "main")
  BY <1>1 DEF ParseServer
<1>6. QED
  BY <1>2, <1>3, <1>4, <1>5

\* Only ReadLine changes the environment, and only before LoadJson.
LEMMA EnvironmentKept ==
  ASSUME EnvironmentInv, [Next]_vars
  PROVE  EnvironmentInv'
<1>1. Len(input.file) \in Nat /\ line \in Int /\ input \in Inputs
  BY FileLines DEF EnvironmentInv
<1>2. CASE ReadLine
  <2> DEFINE l == input.file[line + 1]
  <2>1. /\ pc = "environment" /\ pc' = pc /\ line' = line + 1 /\ input' = input
        /\ line \in 0 .. Len(input.file) - 1
        /\ env' = IF l[1] = "assign" THEN Over([n \in {l[2]} |-> l[3]], env) ELSE env
    <3>1. /\ pc = "environment" /\ pc' = pc /\ line' = line + 1 /\ input' = input
          /\ line < Len(input.file)
          /\ \/ l[1] = "malformed" /\ env' = env
             \/ env' = IF l[1] = "assign" THEN Over([n \in {l[2]} |-> l[3]], env) ELSE env
      BY <1>2 DEF ReadLine, Refuse
    <3>2. QED
      BY <1>1, <3>1 DEF EnvironmentInv
  <2>2. EnvironmentAfter(line + 1) =
          IF l[1] = "assign" THEN Over([n \in {l[2]} |-> l[3]], EnvironmentAfter(line))
          ELSE EnvironmentAfter(line)
    BY <1>1, <2>1, OneLineMore
  <2>3. env' = EnvironmentAfter(line + 1)
    BY <2>1, <2>2 DEF EnvironmentInv
  <2>4. EnvironmentAfter(line + 1) = EnvironmentAfter(line)'
    BY <2>1 DEF EnvironmentAfter, AssigningUpTo
  <2>5. QED
    BY <1>1, <2>1, <2>3, <2>4 DEF EnvironmentInv
<1>3. CASE UNCHANGED <<input, line, env>> /\ (pc = "environment" /\ pc' # pc => line = Len(input.file))
  BY <1>3 DEF EnvironmentInv, EnvironmentAfter, AssigningUpTo
<1>4. CASE LoadJson
  BY <1>3, <1>4 DEF LoadJson, Refuse
<1>5. CASE Substitute
  BY <1>3, <1>5 DEF Substitute, Refuse
<1>6. CASE ParseUpstream \/ ParseAuth \/ ParseRuntime \/ ParseServer
  BY <1>3, <1>6, SectionSteps DEF SectionStep
<1>7. CASE Main
  BY <1>3, <1>7 DEF Main, Refuse
<1>8. CASE UNCHANGED vars
  BY <1>3, <1>8 DEF vars
<1>9. QED
  BY <1>2, <1>4, <1>5, <1>6, <1>7, <1>8 DEF Next

-----------------------------------------------------------------------------
(* The sections.                                                           *)

\* Runtime depends on the environment and on the document only.
LEMMA RuntimeIsSettled ==
  ASSUME UNCHANGED <<env, fields>>
  PROVE  Runtime' = Runtime
<1>1. \A n, d : EnvFloat(n, d)' = EnvFloat(n, d)
  BY DEF EnvFloat, IsSet
<1>2. \A n, d : EnvInt(n, d)' = EnvInt(n, d)
  BY DEF EnvInt, IsSet
<1>3. \A f, n, d : RuntimeFloat(f, n, d)' = RuntimeFloat(f, n, d)
  BY <1>1 DEF RuntimeFloat
<1>4. \A f, n, d : RuntimeInt(f, n, d)' = RuntimeInt(f, n, d)
  BY <1>2 DEF RuntimeInt
<1>5. RefreshInterval' = RefreshInterval
  BY <1>1 DEF RefreshInterval, Field
<1>6. QED
  BY <1>1, <1>3, <1>4, <1>5 DEF Runtime, Field

\* ... and so does Server.
LEMMA ServerIsSettled ==
  ASSUME UNCHANGED <<env, fields>>
  PROVE  Server' = Server
<1>1. \A n, d : EnvString(n, d)' = EnvString(n, d) /\ EnvBool(n, d)' = EnvBool(n, d)
  BY DEF EnvString, EnvBool, IsSet
<1>2. \A f, n, d : RuntimeInt(f, n, d)' = RuntimeInt(f, n, d)
  BY DEF RuntimeInt, EnvInt, IsSet
<1>3. QED
  BY <1>1, <1>2 DEF Server, Field

\* What has been parsed is what the files and the environment say, and fit to
\* be served.
ParsedInv ==
  /\ DOMAIN fields = DOMAIN input.fields
  /\ pc \in {"runtime", "server", "main"} => "request" \in DOMAIN cfg /\ Encodes(cfg.request)
  /\ pc \in {"server", "main"} =>
       /\ NumbersAreGood(Runtime)
       /\ \A s \in DOMAIN Runtime : s \in DOMAIN cfg /\ cfg[s] = Runtime[s]
  /\ pc = "main" => \A s \in DOMAIN Server : s \in DOMAIN cfg /\ cfg[s] = Server[s]
  /\ outcome = "serving" => BindIsSecure

ConfigurationInv == TypeOK /\ EnvironmentInv /\ ParsedInv

\* Over, where its first argument speaks and where it does not.
LEMMA OverBoth ==
  ASSUME NEW f, NEW g, NEW x
  PROVE  /\ x \in DOMAIN f => x \in DOMAIN Over(f, g) /\ Over(f, g)[x] = f[x]
         /\ x \notin DOMAIN f /\ x \in DOMAIN g => x \in DOMAIN Over(f, g) /\ Over(f, g)[x] = g[x]
BY DEF Over

\* Which settings come from which section.
LEMMA SettingNames ==
  /\ DOMAIN Runtime = {"retry", "interval", "fallback", "margin", "minimum", "timeout",
                       "maxRequest", "maxResponse", "stale"}
  /\ DOMAIN Server = {"host", "port", "key", "override"}
BY DEF Runtime, Server

\* The types are those of the environment's invariant, step by step.
LEMMA TypesKept ==
  ASSUME ConfigurationInv, [Next]_vars
  PROVE  TypeOK' /\ (DOMAIN fields = DOMAIN input.fields)'
<1> USE DEF ConfigurationInv
<1>1. /\ line' \in 0 .. Len(input'.file)
      /\ DOMAIN input'.environ \subseteq DOMAIN env' /\ DOMAIN env' \subseteq Names
  <2>1. EnvironmentInv'
    BY EnvironmentKept
  <2>2. ASSUME EnvironmentInv
        PROVE  /\ line \in 0 .. Len(input.file)
               /\ DOMAIN input.environ \subseteq DOMAIN env /\ DOMAIN env \subseteq Names
    BY <2>2, InputsAssumption DEF EnvironmentInv, EnvironmentAfter
  <2>3. QED
    BY <2>1, InputsAssumption DEF EnvironmentInv, EnvironmentAfter
<1>2. input' = input /\ DOMAIN fields' = DOMAIN fields
      /\ pc' \in {"environment", "substituting", "upstream", "auth", "runtime", "server", "main"}
      /\ outcome' \in {"none", "refused", "checked", "authenticating", "serving"}
      /\ (outcome' \notin {"none", "refused"} => pc' = "main")
  <2>1. CASE ReadLine
    BY <2>1 DEF ReadLine, Refuse, TypeOK
  <2>2. CASE LoadJson
    BY <2>2 DEF LoadJson, Refuse, TypeOK
  <2>3. CASE Substitute
    <3>1. input' = input /\ DOMAIN fields' = DOMAIN fields
      BY <2>3 DEF Substitute, Over
    <3>2. \/ pc' = "upstream" /\ outcome' = outcome
          \/ pc' = pc /\ outcome' = "refused"
      BY <2>3 DEF Substitute, Refuse
    <3>3. QED
      BY <2>3, <3>1, <3>2 DEF TypeOK, Substitute
  <2>4. CASE ParseUpstream \/ ParseAuth \/ ParseRuntime \/ ParseServer
    BY <2>4, SectionSteps DEF SectionStep, TypeOK
  <2>5. CASE Main
    BY <2>5 DEF Main, Refuse, TypeOK
  <2>6. CASE UNCHANGED vars
    BY <2>6 DEF vars, TypeOK
  <2>7. QED
    BY <2>1, <2>2, <2>3, <2>4, <2>5, <2>6 DEF Next
<1>3. QED
  BY <1>1, <1>2 DEF TypeOK, ParsedInv

\* What has been parsed stays, as long as nothing more is.
LEMMA ParsedStays ==
  ASSUME ConfigurationInv, [Next]_vars, pc' = pc, UNCHANGED <<env, fields, cfg>>, outcome' # "serving"
  PROVE  ParsedInv'
<1>1. Runtime' = Runtime /\ Server' = Server
  BY RuntimeIsSettled, ServerIsSettled
<1>2. ParsedInv /\ (DOMAIN fields = DOMAIN input.fields)'
  BY TypesKept DEF ConfigurationInv
<1>3. (pc \in {"runtime", "server", "main"} => "request" \in DOMAIN cfg /\ Encodes(cfg.request))'
  BY <1>2 DEF ParsedInv, Encodes
<1>4. (pc \in {"server", "main"} =>
         /\ NumbersAreGood(Runtime)
         /\ \A s \in DOMAIN Runtime : s \in DOMAIN cfg /\ cfg[s] = Runtime[s])'
  BY <1>1, <1>2 DEF ParsedInv
<1>5. (pc = "main" => \A s \in DOMAIN Server : s \in DOMAIN cfg /\ cfg[s] = Server[s])'
  BY <1>1, <1>2 DEF ParsedInv
<1>6. QED
  BY <1>2, <1>3, <1>4, <1>5 DEF ParsedInv

\* A body that fits its type can be encoded.
LEMMA FittingBodies ==
  ASSUME NEW request, BodyFits(request)
  PROVE  Encodes(request)
BY DEF BodyFits, Encodes, IsFalse

\* The authentication section lets no body through that does not fit.
LEMMA AuthParsed ==
  ASSUME ConfigurationInv, ParseAuth
  PROVE  ParsedInv'
<1>1. /\ pc = "auth" /\ outcome = "none" /\ UNCHANGED <<input, line, env, fields>>
      /\ \/ pc' = "runtime" /\ outcome' = "none" /\ AuthIsGood(Auth) /\ cfg' = Over(Auth, cfg)
         \/ pc' = pc /\ outcome' = "refused" /\ cfg' = cfg
  BY DEF ParseAuth, Section, Refuse
<1>2. CASE pc' = "runtime"
  <2>1. "request" \in DOMAIN Auth /\ BodyFits(Auth.request)
    BY <1>1, <1>2 DEF Auth, AuthIsGood
  <2>2. "request" \in DOMAIN cfg' /\ cfg'.request = Auth.request
    BY <1>1, <1>2, <2>1, OverBoth
  <2>3. Encodes(cfg.request)'
    BY <2>1, <2>2, FittingBodies DEF Encodes
  <2>4. QED
    BY <1>1, <1>2, <2>2, <2>3 DEF ParsedInv, ConfigurationInv
<1>3. CASE pc' = pc /\ outcome' = "refused" /\ cfg' = cfg
  BY <1>1, <1>3, ParsedStays DEF Next
<1>4. QED
  BY <1>1, <1>2, <1>3

\* The runtime section is taken as Runtime has it.
LEMMA RuntimeParsed ==
  ASSUME ConfigurationInv, ParseRuntime
  PROVE  ParsedInv'
<1> DEFINE level == [level |-> OrDefault(Field("runtime.log_level", EnvString("LOG_LEVEL", Blank)), "INFO")]
<1>1. /\ pc = "runtime" /\ outcome = "none" /\ UNCHANGED <<input, line, env, fields>>
      /\ \/ /\ pc' = "server" /\ outcome' = "none" /\ NumbersAreGood(Runtime)
            /\ cfg' = Over(Over(Runtime, level), cfg)
         \/ pc' = pc /\ outcome' = "refused" /\ cfg' = cfg
  BY DEF ParseRuntime, Section, Refuse
<1>2. CASE pc' = "server"
  <2>1. ParsedInv
    BY DEF ConfigurationInv
  <2>2. Runtime' = Runtime
    BY <1>1, RuntimeIsSettled
  <2>3. \A s \in DOMAIN Runtime : s \in DOMAIN cfg' /\ cfg'[s] = Runtime[s]
    BY <1>1, <1>2, OverBoth
  <2>4. "request" \in DOMAIN cfg' /\ cfg'.request = cfg.request
    <3>1. "request" \notin DOMAIN Over(Runtime, level)
      BY SettingNames DEF Over
    <3> HIDE DEF level
    <3>2. QED
      BY <1>1, <1>2, <2>1, <3>1, OverBoth DEF ParsedInv
  <2>5. Encodes(cfg.request)'
    BY <1>1, <2>1, <2>4 DEF ParsedInv, Encodes
  <2>6. NumbersAreGood(Runtime)'
    BY <1>1, <1>2, <2>2
  <2>7. QED
    BY <1>1, <1>2, <2>1, <2>2, <2>3, <2>4, <2>5, <2>6 DEF ParsedInv
<1>3. CASE pc' = pc /\ outcome' = "refused" /\ cfg' = cfg
  BY <1>1, <1>3, ParsedStays DEF Next
<1>4. QED
  BY <1>1, <1>2, <1>3

\* ... and the server section as Server has it.
LEMMA ServerParsed ==
  ASSUME ConfigurationInv, ParseServer
  PROVE  ParsedInv'
<1>1. /\ pc = "server" /\ outcome = "none" /\ UNCHANGED <<input, line, env, fields>>
      /\ \/ pc' = "main" /\ outcome' = "none" /\ cfg' = Over(Server, cfg)
         \/ pc' = pc /\ outcome' = "refused" /\ cfg' = cfg
  BY DEF ParseServer, Section, Refuse
<1>2. CASE pc' = "main"
  <2>1. ParsedInv
    BY DEF ConfigurationInv
  <2>2. Runtime' = Runtime /\ Server' = Server
    BY <1>1, RuntimeIsSettled, ServerIsSettled
  <2>3. \A s \in DOMAIN Server : s \in DOMAIN cfg' /\ cfg'[s] = Server[s]
    BY <1>1, <1>2, OverBoth
  <2>4. \A s \in DOMAIN Runtime : s \in DOMAIN cfg' /\ cfg'[s] = Runtime[s]
    <3>1. \A s \in DOMAIN Runtime : s \notin DOMAIN Server
      BY SettingNames
    <3>2. QED
      BY <1>1, <1>2, <2>1, <3>1, OverBoth DEF ParsedInv
  <2>5. "request" \in DOMAIN cfg' /\ cfg'.request = cfg.request
    <3>1. "request" \notin DOMAIN Server
      BY SettingNames
    <3>2. QED
      BY <1>1, <1>2, <2>1, <3>1, OverBoth DEF ParsedInv
  <2>6. Encodes(cfg.request)'
    BY <1>1, <2>1, <2>5 DEF ParsedInv, Encodes
  <2>7. NumbersAreGood(Runtime)'
    BY <1>1, <2>1, <2>2 DEF ParsedInv
  <2>8. QED
    BY <1>1, <1>2, <2>1, <2>2, <2>3, <2>4, <2>5, <2>6, <2>7 DEF ParsedInv
<1>3. CASE pc' = pc /\ outcome' = "refused" /\ cfg' = cfg
  BY <1>1, <1>3, ParsedStays DEF Next
<1>4. QED
  BY <1>1, <1>2, <1>3

\* Every step keeps what has been parsed.
LEMMA ParsedKept ==
  ASSUME ConfigurationInv, [Next]_vars
  PROVE  ParsedInv'
<1>1. (DOMAIN fields = DOMAIN input.fields)'
  BY TypesKept
<1>2. CASE ReadLine \/ LoadJson \/ Substitute \/ ParseUpstream
  <2>1. pc' \in {"environment", "substituting", "upstream", "auth"} /\ outcome' # "serving"
    BY <1>2, SectionSteps DEF ReadLine, LoadJson, Substitute, Refuse, SectionStep
  <2>2. QED
    BY <1>1, <2>1 DEF ParsedInv
<1>3. CASE Main
  <2>1. /\ pc' = pc /\ UNCHANGED <<input, line, env, fields, cfg>>
        /\ outcome' = "serving" => BindIsSecure
    BY <1>3 DEF Main, Refuse
  <2>2. CASE outcome' # "serving"
    BY <2>1, <2>2, ParsedStays
  <2>3. CASE outcome' = "serving"
    <3>1. ParsedInv /\ Runtime' = Runtime /\ Server' = Server /\ BindIsSecure'
      BY <2>1, <2>3, RuntimeIsSettled, ServerIsSettled DEF ConfigurationInv, BindIsSecure
    <3>2. (pc \in {"runtime", "server", "main"} => "request" \in DOMAIN cfg /\ Encodes(cfg.request))'
      BY <2>1, <3>1 DEF ParsedInv, Encodes
    <3>3. QED
      BY <1>1, <2>1, <3>1, <3>2 DEF ParsedInv
  <2>4. QED
    BY <2>2, <2>3
<1>4. CASE UNCHANGED vars
  <2>1. ParsedInv /\ pc' = pc /\ UNCHANGED <<input, line, env, fields, cfg, outcome>>
    BY <1>4 DEF vars, ConfigurationInv
  <2>2. Runtime' = Runtime /\ Server' = Server /\ (BindIsSecure => BindIsSecure')
    BY <2>1, RuntimeIsSettled, ServerIsSettled DEF BindIsSecure
  <2>3. (pc \in {"runtime", "server", "main"} => "request" \in DOMAIN cfg /\ Encodes(cfg.request))'
    BY <2>1 DEF ParsedInv, Encodes
  <2>4. QED
    BY <1>1, <2>1, <2>2, <2>3 DEF ParsedInv
<1>5. QED
  BY <1>2, <1>3, <1>4, AuthParsed, RuntimeParsed, ServerParsed DEF Next

\* The invariant holds throughout.
LEMMA ConfigurationIsInvariant == Spec => []ConfigurationInv
<1>1. Init => ConfigurationInv
  <2> SUFFICES ASSUME Init
               PROVE  ConfigurationInv
    OBVIOUS
  <2> USE DEF Init
  <2>1. Len(input.file) \in Nat
    BY FileLines
  <2>2. EnvironmentInv
    BY <2>1, NothingRead DEF EnvironmentInv
  <2>3. TypeOK
    BY <2>1, InputsAssumption DEF TypeOK
  <2>4. ParsedInv
    BY DEF ParsedInv
  <2>5. QED
    BY <2>2, <2>3, <2>4 DEF ConfigurationInv
<1>2. ConfigurationInv /\ [Next]_vars => ConfigurationInv'
  BY TypesKept, EnvironmentKept, ParsedKept DEF ConfigurationInv
<1>3. QED
  BY <1>1, <1>2, PTL DEF Spec

-----------------------------------------------------------------------------
(* One round of substitution.                                              *)

\* What Joined puts in a row.
Parts(s, w) == [i \in DOMAIN s |-> IF s[i][1] = "ref" THEN w[s[i][2]] ELSE <<s[i]>>]

\* They are strings, one for each piece.
LEMMA PartsType ==
  ASSUME NEW s \in Seq(Pieces), NEW w \in [Names -> Seq(Pieces)]
  PROVE  /\ Parts(s, w) \in Seq(Seq(Pieces)) /\ Len(Parts(s, w)) = Len(s)
         /\ \A i \in 1 .. Len(s) : Parts(s, w)[i] = IF s[i][1] = "ref" THEN w[s[i][2]] ELSE <<s[i]>>
<1>1. DOMAIN s = 1 .. Len(s) /\ Len(s) \in Nat /\ \A i \in 1 .. Len(s) : s[i] \in Pieces
  OBVIOUS
<1>2. \A p \in Pieces : p[1] = "ref" => p[2] \in Names
  BY DEF Pieces
<1>3. ASSUME NEW i \in 1 .. Len(s)
      PROVE  (IF s[i][1] = "ref" THEN w[s[i][2]] ELSE <<s[i]>>) \in Seq(Pieces)
  <2>1. s[i] \in Pieces
    BY <1>1
  <2>2. <<s[i]>> \in Seq(Pieces)
    BY <2>1
  <2>3. CASE s[i][1] = "ref"
    BY <1>2, <2>1, <2>3
  <2>4. QED
    BY <2>2, <2>3
<1>4. Parts(s, w) \in [1 .. Len(s) -> Seq(Pieces)]
  BY <1>1, <1>3 DEF Parts
<1>5. Parts(s, w) \in Seq(Seq(Pieces)) /\ Len(Parts(s, w)) = Len(s)
  BY <1>1, <1>4
<1>6. QED
  BY <1>1, <1>5 DEF Parts

\* So is their row.
LEMMA JoinedType ==
  ASSUME NEW s \in Seq(Pieces), NEW w \in [Names -> Seq(Pieces)]
  PROVE  Joined(s, w) \in Seq(Pieces) /\ Joined(s, w) = FlattenSeq(Parts(s, w))
<1>1. Joined(s, w) = FlattenSeq(Parts(s, w))
  BY DEF Joined, Parts
<1>2. QED
  BY <1>1, PartsType, FlattenType

\* Only what is referred to matters.
LEMMA JoinedSame ==
  ASSUME NEW s, NEW u, NEW v, \A n \in RefsIn(s) : u[n] = v[n]
  PROVE  Joined(s, u) = Joined(s, v)
<1>1. Parts(s, u) = Parts(s, v)
  <2>1. ASSUME NEW i \in DOMAIN s, s[i][1] = "ref"
        PROVE  u[s[i][2]] = v[s[i][2]]
    BY <2>1 DEF RefsIn
  <2>2. QED
    BY <2>1 DEF Parts
<1>2. QED
  BY <1>1 DEF Joined, Parts

\* The references of a string, by its pieces.
LEMMA RefsByPiece ==
  ASSUME NEW s \in Seq(Pieces)
  PROVE  /\ RefsIn(s) \in SUBSET Names
         /\ \A n : n \in RefsIn(s) <=> \E p \in Elements(s) : p[1] = "ref" /\ p[2] = n
<1>1. DOMAIN s = 1 .. Len(s) /\ \A i \in 1 .. Len(s) : s[i] \in Pieces
  OBVIOUS
<1>2. \A p \in Pieces : p[1] = "ref" => p[2] \in Names
  BY DEF Pieces
<1>3. RefsIn(s) \in SUBSET Names
  BY <1>1, <1>2 DEF RefsIn
<1>4. \A n : n \in RefsIn(s) <=> \E i \in 1 .. Len(s) : s[i][1] = "ref" /\ s[i][2] = n
  BY <1>1 DEF RefsIn
<1>5. QED
  BY <1>3, <1>4 DEF Elements

\* The references that are there after a round are those of the values that
\* were put in.
LEMMA JoinedRefs ==
  ASSUME NEW s \in Seq(Pieces), NEW w \in [Names -> Seq(Pieces)]
  PROVE  RefsIn(Joined(s, w)) = UNION {RefsIn(w[n]) : n \in RefsIn(s)}
<1> DEFINE j == Joined(s, w)
           pp == Parts(s, w)
<1>1. /\ j \in Seq(Pieces) /\ Elements(j) = UNION {Elements(pp[i]) : i \in 1 .. Len(s)}
      /\ \A i \in 1 .. Len(s) : pp[i] = IF s[i][1] = "ref" THEN w[s[i][2]] ELSE <<s[i]>>
  <2>1. pp \in Seq(Seq(Pieces)) /\ Len(pp) = Len(s)
        /\ \A i \in 1 .. Len(s) : pp[i] = IF s[i][1] = "ref" THEN w[s[i][2]] ELSE <<s[i]>>
    BY PartsType
  <2>2. j \in Seq(Pieces) /\ j = FlattenSeq(pp)
    BY JoinedType
  <2> HIDE DEF pp, j
  <2>3. Elements(j) = UNION {Elements(pp[i]) : i \in 1 .. Len(pp)}
    BY <2>1, <2>2, FlattenElements
  <2>4. QED
    BY <2>1, <2>2, <2>3
<1>2. RefsIn(s) \in SUBSET Names /\ \A n \in Names : w[n] \in Seq(Pieces)
  BY RefsByPiece
<1>3. ASSUME NEW n \in RefsIn(s)
      PROVE  \E i \in 1 .. Len(s) : s[i][1] = "ref" /\ s[i][2] = n
  BY DEF RefsIn
<1>4. ASSUME NEW i \in 1 .. Len(s), s[i][1] = "ref"
      PROVE  s[i][2] \in RefsIn(s)
  BY <1>4 DEF RefsIn
<1> HIDE DEF pp, j
<1>5. ASSUME NEW x \in RefsIn(j)
      PROVE  x \in UNION {RefsIn(w[n]) : n \in RefsIn(s)}
  <2>1. PICK p \in Elements(j) : p[1] = "ref" /\ p[2] = x
    BY <1>1, RefsByPiece
  <2>2. PICK i \in 1 .. Len(s) : p \in Elements(pp[i])
    BY <1>1, <2>1, Zenon
  <2>3. CASE s[i][1] = "ref"
    <3>1. pp[i] = w[s[i][2]] /\ s[i][2] \in RefsIn(s)
      BY <1>1, <1>4, <2>3
    <3>2. w[s[i][2]] \in Seq(Pieces)
      BY <1>2, <3>1
    <3>3. x \in RefsIn(w[s[i][2]])
      BY <2>1, <2>2, <3>1, <3>2, RefsByPiece
    <3>4. QED
      BY <3>1, <3>3
  <2>4. CASE s[i][1] # "ref"
    <3>1. pp[i] = <<s[i]>>
      BY <1>1, <2>4
    <3>2. Elements(<<s[i]>>) = {s[i]}
      BY DEF Elements
    <3>3. p = s[i]
      BY <2>2, <3>1, <3>2
    <3>4. QED
      BY <2>1, <2>4, <3>3
  <2>5. QED
    BY <2>3, <2>4
<1>6. ASSUME NEW n \in RefsIn(s), NEW x \in RefsIn(w[n])
      PROVE  x \in RefsIn(j)
  <2>1. PICK i \in 1 .. Len(s) : s[i][1] = "ref" /\ s[i][2] = n
    BY <1>3
  <2>2. pp[i] = w[n] /\ w[n] \in Seq(Pieces)
    BY <1>1, <1>2, <2>1
  <2>3. PICK p \in Elements(w[n]) : p[1] = "ref" /\ p[2] = x
    BY <2>2, RefsByPiece
  <2>4. p \in Elements(j)
    BY <1>1, <2>2, <2>3, Zenon
  <2>5. QED
    BY <1>1, <2>3, <2>4, RefsByPiece
<1>7. QED
  BY <1>5, <1>6 DEF j

\* Without references nothing changes.
LEMMA JoinedNothing ==
  ASSUME NEW s \in Seq(Pieces), NEW w, RefsIn(s) = {}
  PROVE  Joined(s, w) = s
<1>1. \A i \in DOMAIN s : s[i][1] # "ref"
  BY DEF RefsIn
<1>2. Parts(s, w) = [i \in DOMAIN s |-> <<s[i]>>]
  BY <1>1 DEF Parts
<1>3. Joined(s, w) = FlattenSeq([i \in DOMAIN s |-> <<s[i]>>])
  BY <1>2 DEF Joined, Parts
<1>4. QED
  BY <1>3, FlattenSingletons

\* A round works on each part of a string by itself.
LEMMA JoinedConcat ==
  ASSUME NEW s \in Seq(Pieces), NEW t \in Seq(Pieces), NEW w \in [Names -> Seq(Pieces)]
  PROVE  Joined(s \o t, w) = Joined(s, w) \o Joined(t, w)
<1> DEFINE m == Len(s)
           n == Len(t)
           st == s \o t
           one == Parts(s, w)
           two == Parts(t, w)
           both == Parts(st, w)
<1>1. /\ m \in Nat /\ n \in Nat /\ st \in Seq(Pieces) /\ Len(st) = m + n
      /\ \A i \in 1 .. m + n : st[i] = IF i <= m THEN s[i] ELSE t[i - m]
  BY ConcatProperties
<1> HIDE DEF st
<1>2. /\ both \in Seq(Seq(Pieces)) /\ Len(both) = m + n
      /\ \A i \in 1 .. m + n : both[i] = IF st[i][1] = "ref" THEN w[st[i][2]] ELSE <<st[i]>>
  BY <1>1, PartsType
<1>3. /\ one \in Seq(Seq(Pieces)) /\ Len(one) = m
      /\ \A i \in 1 .. m : one[i] = IF s[i][1] = "ref" THEN w[s[i][2]] ELSE <<s[i]>>
  BY PartsType
<1>4. /\ two \in Seq(Seq(Pieces)) /\ Len(two) = n
      /\ \A i \in 1 .. n : two[i] = IF t[i][1] = "ref" THEN w[t[i][2]] ELSE <<t[i]>>
  BY PartsType
<1> HIDE DEF one, two, both
<1>5. /\ one \o two \in Seq(Seq(Pieces)) /\ Len(one \o two) = m + n
      /\ \A i \in 1 .. m + n : (one \o two)[i] = IF i <= m THEN one[i] ELSE two[i - m]
  BY <1>3, <1>4, ConcatProperties
<1>6. ASSUME NEW i \in 1 .. m + n
      PROVE  both[i] = (one \o two)[i]
  <2>1. CASE i <= m
    <3>1. i \in 1 .. m /\ st[i] = s[i] /\ (one \o two)[i] = one[i]
      BY <1>1, <1>5, <2>1
    <3>2. QED
      BY <1>2, <1>3, <3>1
  <2>2. CASE ~ (i <= m)
    <3>1. PICK k \in 1 .. n : k = i - m
      BY <1>1, <2>2
    <3>2. st[i] = t[k] /\ (one \o two)[i] = two[k]
      BY <1>1, <1>5, <2>2, <3>1
    <3>3. QED
      BY <1>2, <1>4, <3>2
  <2>3. QED
    BY <2>1, <2>2
<1>7. both = one \o two
  <2> DEFINE ot == one \o two
  <2>1. ot \in Seq(Seq(Pieces)) /\ Len(ot) = Len(both) /\ \A i \in 1 .. Len(both) : both[i] = ot[i]
    BY <1>2, <1>5, <1>6
  <2> HIDE DEF ot
  <2>2. both = ot
    BY <1>2, <2>1, SeqEqual
  <2>3. QED
    BY <2>2 DEF ot
<1>8. FlattenSeq(both) = FlattenSeq(one) \o FlattenSeq(two)
  BY <1>3, <1>4, <1>7, FlattenConcat
<1>9. QED
  BY <1>1, <1>8, JoinedType DEF one, two, both, st

\* ... and on each of many.
LEMMA JoinedFlatten ==
  ASSUME NEW ss \in Seq(Seq(Pieces)), NEW w \in [Names -> Seq(Pieces)],
         NEW jj \in Seq(Seq(Pieces)), Len(jj) = Len(ss), \A i \in 1 .. Len(ss) : jj[i] = Joined(ss[i], w)
  PROVE  Joined(FlattenSeq(ss), w) = FlattenSeq(jj)
<1> DEFINE n == Len(ss)
<1>1. PICK f \in [0 .. n -> Seq(Pieces)] : AddsUp(ss, f) /\ FlattenSeq(ss) = f[n]
  BY FlattenTurns
<1> DEFINE g == [k \in 0 .. n |-> Joined(f[k], w)]
<1>2. n \in Nat /\ \A i \in 1 .. n : ss[i] \in Seq(Pieces)
  OBVIOUS
<1>3. \A k \in 0 .. n : f[k] \in Seq(Pieces)
  OBVIOUS
<1> HIDE DEF n
<1>4. g \in [0 .. n -> Seq(Pieces)]
  BY <1>3, JoinedType
<1>5. g[0] = <<>>
  <2>1. 0 \in 0 .. n /\ f[0] = <<>>
    BY <1>1, <1>2 DEF AddsUp
  <2>2. <<>> \in Seq(Pieces) /\ RefsIn(<<>>) = {}
    BY DEF RefsIn
  <2>3. Joined(<<>>, w) = <<>>
    BY <2>2, JoinedNothing
  <2>4. QED
    BY <2>1, <2>3
<1>6. ASSUME NEW i \in 1 .. n
      PROVE  g[i] = g[i - 1] \o jj[i]
  <2>1. i \in 0 .. n /\ i - 1 \in 0 .. n
    BY <1>2
  <2>2. f[i] = f[i - 1] \o ss[i]
    BY <1>1, Zenon DEF AddsUp, n
  <2>3. f[i - 1] \in Seq(Pieces) /\ ss[i] \in Seq(Pieces)
    BY <1>2, <1>3, <2>1
  <2>4. Joined(f[i], w) = Joined(f[i - 1], w) \o Joined(ss[i], w)
    BY <2>2, <2>3, JoinedConcat
  <2>5. g[i] = Joined(f[i], w) /\ g[i - 1] = Joined(f[i - 1], w) /\ jj[i] = Joined(ss[i], w)
    BY <2>1 DEF n
  <2> HIDE DEF g
  <2>6. QED
    BY <2>4, <2>5, Zenon
<1>7. g[n] = Joined(FlattenSeq(ss), w)
  <2>1. n \in 0 .. n
    BY <1>2
  <2>2. QED
    BY <1>1, <2>1
<1> HIDE DEF g
<1>8. AddsUp(jj, g)
  BY <1>5, <1>6 DEF AddsUp, n
<1>9. FlattenSeq(jj) = g[Len(jj)]
  <2>1. Len(jj) = n
    BY DEF n
  <2>2. QED
    BY <1>4, <1>8, <2>1, FlattenValue
<1>10. QED
  BY <1>7, <1>9 DEF n

\* Two rounds are one, in which values are put in that a round has been made of.
LEMMA JoinedTwice ==
  ASSUME NEW s \in Seq(Pieces), NEW u \in [Names -> Seq(Pieces)], NEW v \in [Names -> Seq(Pieces)]
  PROVE  Joined(Joined(s, u), v) = Joined(s, [n \in Names |-> Joined(u[n], v)])
<1> DEFINE w == [n \in Names |-> Joined(u[n], v)]
           ss == Parts(s, u)
           jj == Parts(s, w)
<1>1. w \in [Names -> Seq(Pieces)]
  BY JoinedType
<1>2. \A n \in Names : w[n] = Joined(u[n], v)
  OBVIOUS
<1> HIDE DEF w
<1>3. /\ ss \in Seq(Seq(Pieces)) /\ Len(ss) = Len(s)
      /\ \A i \in 1 .. Len(s) : ss[i] = IF s[i][1] = "ref" THEN u[s[i][2]] ELSE <<s[i]>>
  BY PartsType
<1>4. /\ jj \in Seq(Seq(Pieces)) /\ Len(jj) = Len(s)
      /\ \A i \in 1 .. Len(s) : jj[i] = IF s[i][1] = "ref" THEN w[s[i][2]] ELSE <<s[i]>>
  BY <1>1, PartsType
<1> HIDE DEF ss, jj
<1>5. ASSUME NEW i \in 1 .. Len(s)
      PROVE  jj[i] = Joined(ss[i], v)
  <2>1. s[i] \in Pieces
    OBVIOUS
  <2>2. CASE s[i][1] = "ref"
    <3>1. s[i][2] \in Names
      BY <2>1, <2>2 DEF Pieces
    <3>2. QED
      BY <1>2, <1>3, <1>4, <2>2, <3>1
  <2>3. CASE s[i][1] # "ref"
    <3>1. <<s[i]>> \in Seq(Pieces) /\ RefsIn(<<s[i]>>) = {}
      BY <2>1, <2>3 DEF RefsIn
    <3>2. Joined(<<s[i]>>, v) = <<s[i]>>
      BY <3>1, JoinedNothing
    <3>3. QED
      BY <1>3, <1>4, <2>3, <3>2
  <2>4. QED
    BY <2>2, <2>3
<1>6. Joined(FlattenSeq(ss), v) = FlattenSeq(jj)
  <2>1. /\ ss \in Seq(Seq(Pieces)) /\ jj \in Seq(Seq(Pieces)) /\ Len(jj) = Len(ss)
        /\ \A i \in 1 .. Len(ss) : jj[i] = Joined(ss[i], v)
    BY <1>3, <1>4, <1>5
  <2>2. QED
    BY <2>1, JoinedFlatten
<1>7. QED
  BY <1>1, <1>6, JoinedType DEF ss, jj, w

-----------------------------------------------------------------------------
(* Where the references of a string lead.                                  *)

\* What every name stands for, and which names that refers to.
Value == [n \in Names |-> IF n \in DOMAIN Effective THEN Effective[n] ELSE <<>>]
Referring == [n \in Names |-> RefsIn(Value[n])]

\* What names stand for are strings, which refer to names.
LEMMA ValueType ==
  ASSUME input \in Inputs
  PROVE  /\ DOMAIN Effective \subseteq Names
         /\ Value \in [Names -> Seq(Pieces)]
         /\ \A n \in DOMAIN Effective : Value[n] = Effective[n] /\ Effective[n] \in Seq(Pieces)
         /\ Referring \in [Names -> SUBSET Names]
<1>1. /\ input.file \in Seq(Lines) /\ Len(input.file) \in Nat /\ DOMAIN input.file = 1 .. Len(input.file)
      /\ DOMAIN input.environ \subseteq Names
      /\ \A n \in DOMAIN input.environ : input.environ[n] \in Seq(Pieces)
  BY InputsAssumption
<1>2. DOMAIN Effective = DOMAIN input.environ \cup {m \in Names : Assigning(m) # {}}
  BY DEF Effective
<1>3. ASSUME NEW n \in DOMAIN Effective
      PROVE  Effective[n] \in Seq(Pieces)
  <2>1. Effective[n] = IF Assigning(n) = {} THEN input.environ[n] ELSE input.file[Max(Assigning(n))][3]
    BY <1>2 DEF Effective
  <2>2. CASE Assigning(n) = {}
    BY <1>1, <1>2, <2>1, <2>2
  <2>3. CASE Assigning(n) # {}
    <3>1. Assigning(n) \in SUBSET (1 .. Len(input.file))
      BY <1>1 DEF Assigning
    <3>2. Max(Assigning(n)) \in Assigning(n)
      BY <1>1, <2>3, <3>1, FirstAndLast
    <3>3. PICK j \in Assigning(n) : j = Max(Assigning(n))
      BY <3>2
    <3>4. j \in 1 .. Len(input.file) /\ input.file[j][1] = "assign"
      BY <1>1, Zenon DEF Assigning
    <3>5. input.file[j] \in Lines
      BY <1>1, <3>4
    <3>6. \A l \in Lines : l[1] = "assign" => l[3] \in Seq(Pieces)
      BY DEF Lines
    <3>7. QED
      BY <2>1, <2>3, <3>3, <3>4, <3>5, <3>6
  <2>4. QED
    BY <2>2, <2>3
<1>4. DOMAIN Effective \subseteq Names
  BY <1>1, <1>2
<1>5. Value \in [Names -> Seq(Pieces)]
  BY <1>3 DEF Value
<1>6. \A n \in DOMAIN Effective : Value[n] = Effective[n]
  BY <1>4 DEF Value
<1>7. Referring \in [Names -> SUBSET Names]
  BY <1>5, RefsByPiece DEF Referring
<1>8. QED
  BY <1>3, <1>4, <1>5, <1>6, <1>7

\* The recursion in Reached.
Within(s, g) ==
  g = [k \in 0 .. Cardinality(Names) |->
         IF k = 0 THEN RefsIn(s)
         ELSE g[k - 1] \cup UNION {RefsIn(Effective[n]) : n \in g[k - 1] \cap DOMAIN Effective}]

\* A string reaches what its references lead to.
LEMMA ReachedIsClosure ==
  ASSUME input \in Inputs, NEW s \in Seq(Pieces)
  PROVE  Reached(s) = Closure(Names, Referring, RefsIn(s))
<1> DEFINE c == Cardinality(Names)
           G == [k \in Nat |-> [v \in SUBSET Names |-> v \cup After(Referring, v)]]
           g == CHOOSE g : Within(s, g)
<1>1. c \in Nat /\ IsFiniteSet(Names)
  BY ConfigurationAssumption, FS_CardinalityType
<1>2. RefsIn(s) \in SUBSET Names /\ Referring \in [Names -> SUBSET Names]
  BY RefsByPiece, ValueType
<1>3. ASSUME NEW v \in SUBSET Names
      PROVE  /\ UNION {RefsIn(Effective[n]) : n \in v \cap DOMAIN Effective} = After(Referring, v)
             /\ After(Referring, v) \in SUBSET Names
  <2>1. ASSUME NEW n \in Names
        PROVE  Referring[n] = IF n \in DOMAIN Effective THEN RefsIn(Effective[n]) ELSE {}
    <3>1. RefsIn(<<>>) = {}
      BY DEF RefsIn
    <3>2. QED
      BY <3>1 DEF Referring, Value
  <2>2. QED
    BY <1>2, <2>1 DEF After
<1>4. G \in [Nat -> [SUBSET Names -> SUBSET Names]]
  BY <1>3
<1>5. \A k \in Nat : \A v \in SUBSET Names : G[k][v] = v \cup After(Referring, v)
  OBVIOUS
<1> HIDE DEF G, g, c
<1>6. PICK h \in [Nat -> SUBSET Names] : AlwaysTurns(h, RefsIn(s), G)
  BY <1>2, <1>4, EndlessTurns
<1>7. Within(s, g)
  <2> DEFINE r == [k \in 0 .. c |-> h[k]]
  <2>1. ASSUME NEW k \in 0 .. c
        PROVE  r[k] = IF k = 0 THEN RefsIn(s)
                      ELSE r[k - 1] \cup UNION {RefsIn(Effective[n]) : n \in r[k - 1] \cap DOMAIN Effective}
    <3>1. CASE k = 0
      BY <1>1, <1>6, <3>1 DEF AlwaysTurns
    <3>2. CASE k # 0
      <4>1. k - 1 \in Nat /\ k - 1 \in 0 .. c /\ k - 1 + 1 = k
        BY <1>1, <3>2
      <4>2. h[k] = G[k - 1][h[k - 1]] /\ h[k - 1] \in SUBSET Names
        BY <1>6, <4>1 DEF AlwaysTurns
      <4>3. h[k] = h[k - 1] \cup UNION {RefsIn(Effective[n]) : n \in h[k - 1] \cap DOMAIN Effective}
        BY <1>3, <1>5, <4>1, <4>2
      <4>4. r[k] = h[k] /\ r[k - 1] = h[k - 1]
        BY <4>1
      <4> HIDE DEF r
      <4>5. QED
        BY <3>2, <4>3, <4>4
    <3>3. QED
      BY <3>1, <3>2
  <2>2. r = [k \in 0 .. c |-> r[k]]
    OBVIOUS
  <2> HIDE DEF r
  <2>3. Within(s, r)
    BY <2>1, <2>2 DEF Within, c
  <2>4. QED
    BY <2>3 DEF g
<1>8. Reached(s) = g[c]
  BY Zenon DEF Reached, Within, g, c
<1>9. \A k \in 0 .. c :
        g[k] = IF k = 0 THEN RefsIn(s)
               ELSE g[k - 1] \cup UNION {RefsIn(Effective[n]) : n \in g[k - 1] \cap DOMAIN Effective}
  BY <1>7, Zenon DEF Within, c
<1>10. g[0] = RefsIn(s)
  <2>1. 0 \in 0 .. c
    BY <1>1
  <2>2. QED
    BY <1>9, <2>1, Zenon
<1>11. ASSUME NEW k \in 0 .. c - 1
       PROVE  g[k + 1] = g[k] \cup UNION {RefsIn(Effective[n]) : n \in g[k] \cap DOMAIN Effective}
  <2>1. PICK i \in 0 .. c : i = k + 1 /\ i # 0 /\ i - 1 = k
    BY <1>1
  <2>2. QED
    BY <1>9, <2>1, Zenon
<1>12. \A k \in 0 .. c : g[k] \in SUBSET Names
  <2> DEFINE P == {k \in 0 .. c : g[k] \in SUBSET Names}
  <2>1. 0 \in P
    BY <1>1, <1>2, <1>10
  <2>2. ASSUME NEW k \in 0 .. c - 1, k \in P
        PROVE  k + 1 \in P
    <3>1. k + 1 \in 0 .. c /\ g[k] \in SUBSET Names
      BY <1>1, <2>2
    <3>2. g[k + 1] \in SUBSET Names
      BY <1>3, <1>11, <3>1
    <3>3. QED
      BY <3>1, <3>2
  <2> HIDE DEF P
  <2>3. \A k \in 0 .. c : k \in P
    BY <1>1, <2>1, <2>2, AllUpTo
  <2>4. QED
    BY <2>3 DEF P
<1>13. ASSUME NEW k \in 0 .. c - 1
       PROVE  g[k + 1] = g[k] \cup After(Referring, g[k])
  <2>1. g[k] \in SUBSET Names
    BY <1>1, <1>12
  <2>2. QED
    BY <1>3, <1>11, <2>1
<1>14. g[c] = Closure(Names, Referring, RefsIn(s))
  BY <1>1, <1>2, <1>10, <1>13, ClosureInSteps DEF c
<1>15. QED
  BY <1>8, <1>14

\* A name is circular when it is among what its value leads to.
LEMMA CircularNames ==
  ASSUME input \in Inputs, NEW n \in Names
  PROVE  Circular(n) <=> n \in Closure(Names, Referring, Referring[n])
<1>1. CASE n \in DOMAIN Effective
  <2>1. Effective[n] \in Seq(Pieces) /\ Referring[n] = RefsIn(Effective[n])
    BY <1>1, ValueType DEF Referring
  <2>2. QED
    BY <1>1, <2>1, ReachedIsClosure DEF Circular
<1>2. CASE n \notin DOMAIN Effective
  <2>1. Referring[n] = {}
    BY <1>2 DEF Referring, Value, RefsIn
  <2>2. Closure(Names, Referring, {}) \subseteq {}
    <3>1. {} \in SUBSET Names /\ After(Referring, {}) \subseteq {}
      BY DEF After
    <3>2. QED
      BY <3>1, ValueType, ClosureIsLeast
  <2>3. QED
    BY <1>2, <2>1, <2>2 DEF Circular
<1>3. QED
  BY <1>1, <1>2

-----------------------------------------------------------------------------
(* Round after round.                                                      *)

\* What a string becomes in any number of rounds, undefined names being blank.
Orbit(s, h) == h[0] = s /\ \A k \in Nat : h[k + 1] = Joined(h[k], Value)

\* There is such a sequence of strings.
LEMMA SomeOrbit ==
  ASSUME input \in Inputs, NEW s \in Seq(Pieces)
  PROVE  \E h \in [Nat -> Seq(Pieces)] : Orbit(s, h)
<1> DEFINE S == Seq(Pieces)
           G == [k \in Nat |-> [v \in S |-> Joined(v, Value)]]
<1>1. \A v \in S : Joined(v, Value) \in S
  BY ValueType, JoinedType
<1> HIDE DEF S
<1>2. G \in [Nat -> [S -> S]] /\ \A k \in Nat : \A v \in S : G[k][v] = Joined(v, Value)
  BY <1>1
<1>3. s \in S
  BY DEF S
<1> HIDE DEF G
<1>4. PICK h \in [Nat -> S] : AlwaysTurns(h, s, G)
  BY <1>2, <1>3, EndlessTurns
<1>5. ASSUME NEW k \in Nat
      PROVE  h[k + 1] = Joined(h[k], Value)
  <2>1. h[k + 1] = G[k][h[k]] /\ h[k] \in S
    BY <1>4 DEF AlwaysTurns
  <2>2. QED
    BY <1>2, <2>1
<1>6. Orbit(s, h)
  BY <1>4, <1>5 DEF Orbit, AlwaysTurns
<1>7. QED
  BY <1>6 DEF S

\* Its references walk through what the names refer to.
RefsAfter(h) == [k \in Nat |-> RefsIn(h[k])]

\* ... a step with every round.
LEMMA OrbitWalks ==
  ASSUME input \in Inputs, NEW s \in Seq(Pieces), NEW h \in [Nat -> Seq(Pieces)], Orbit(s, h)
  PROVE  Walks(Referring, RefsIn(s), RefsAfter(h))
<1>1. RefsAfter(h)[0] = RefsIn(s)
  BY DEF RefsAfter, Orbit
<1>2. ASSUME NEW k \in Nat
      PROVE  RefsAfter(h)[k + 1] = After(Referring, RefsAfter(h)[k])
  <2>1. h[k] \in Seq(Pieces) /\ h[k + 1] = Joined(h[k], Value)
    BY DEF Orbit
  <2>2. RefsIn(h[k + 1]) = UNION {RefsIn(Value[n]) : n \in RefsIn(h[k])}
    BY <2>1, ValueType, JoinedRefs
  <2>3. \A n \in RefsIn(h[k]) : Referring[n] = RefsIn(Value[n])
    BY <2>1, RefsByPiece DEF Referring
  <2>4. RefsAfter(h)[k + 1] = RefsIn(h[k + 1]) /\ RefsAfter(h)[k] = RefsIn(h[k])
    BY DEF RefsAfter
  <2> DEFINE here == RefsIn(h[k])
  <2>5. {RefsIn(Value[n]) : n \in here} = {Referring[n] : n \in here}
    <3> HIDE DEF here
    <3>1. \A n \in here : Referring[n] = RefsIn(Value[n])
      BY <2>3 DEF here
    <3>2. QED
      BY <3>1
  <2>6. QED
    BY <2>2, <2>4, <2>5, Zenon DEF After
<1>3. QED
  BY <1>1, <1>2 DEF Walks

\* Once there are none left, it stays as it is.
LEMMA OrbitRests ==
  ASSUME NEW s, NEW h \in [Nat -> Seq(Pieces)], Orbit(s, h),
         NEW k \in Nat, RefsIn(h[k]) = {} \/ h[k + 1] = h[k], NEW j \in Nat, j >= k
  PROVE  h[j] = h[k]
<1>1. h[k + 1] = h[k]
  <2>1. h[k] \in Seq(Pieces) /\ h[k + 1] = Joined(h[k], Value)
    BY DEF Orbit
  <2>2. QED
    BY <2>1, JoinedNothing
<1>2. \A i, m \in Nat : h[i] = h[m] => h[i + 1] = h[m + 1]
  BY DEF Orbit
<1>3. QED
  BY <1>1, <1>2, Standstill

\* The recursion in Substituted.
Rewrites(s, g) ==
  g = [i \in 0 .. Rounds |->
         IF i = 0 THEN s
           ELSE IF g[i - 1] = Refused \/ ~ RefsIn(g[i - 1]) \subseteq DOMAIN env THEN Refused
           ELSE Replaced(g[i - 1])]

\* The rounds of _substitute_string go along this way while every name is
\* defined, and end well when the last of them makes no difference.
LEMMA SubstitutedValue ==
  ASSUME input \in Inputs, env = Effective, NEW s \in Seq(Pieces),
         NEW h \in [Nat -> Seq(Pieces)], Orbit(s, h)
  PROVE  Substituted(s) =
           IF (\A k \in 0 .. Rounds - 1 : RefsIn(h[k]) \subseteq DOMAIN Effective) /\ h[Rounds] = h[Rounds - 1]
           THEN h[Rounds] ELSE Refused
<1> DEFINE Def(i) == \A k \in 0 .. i - 1 : RefsIn(h[k]) \subseteq DOMAIN Effective
           r == [i \in 0 .. Rounds |-> IF Def(i) THEN h[i] ELSE Refused]
           g == CHOOSE g : Rewrites(s, g)
<1>1. Rounds \in Nat \ {0} /\ Rounds - 1 \in Nat /\ Rounds - 1 + 1 = Rounds
  BY ConfigurationAssumption
<1>2. \A k \in Nat : h[k] \in Seq(Pieces) /\ h[k] # Refused
  BY InputsAssumption
<1>3. ASSUME NEW k \in Nat, RefsIn(h[k]) \subseteq DOMAIN Effective
      PROVE  Replaced(h[k]) = h[k + 1]
  <2>1. Replaced(h[k]) = Joined(h[k], Effective)
    BY DEF Replaced, Joined
  <2>2. Joined(h[k], Effective) = Joined(h[k], Value)
    BY <1>3, ValueType, JoinedSame
  <2>3. QED
    BY <2>1, <2>2 DEF Orbit
<1>4. ASSUME NEW i \in Nat
      PROVE  Def(i + 1) <=> Def(i) /\ RefsIn(h[i]) \subseteq DOMAIN Effective
  <2> DEFINE before == 0 .. i - 1
             upTo == 0 .. (i + 1) - 1
  <2>1. upTo = before \cup {i}
    OBVIOUS
  <2> HIDE DEF before, upTo
  <2>2. (\A k \in upTo : RefsIn(h[k]) \subseteq DOMAIN Effective) <=>
          (\A k \in before : RefsIn(h[k]) \subseteq DOMAIN Effective) /\ RefsIn(h[i]) \subseteq DOMAIN Effective
    BY <2>1, Zenon
  <2>3. QED
    BY <2>2 DEF before, upTo
<1>5. \A i \in 0 .. Rounds : r[i] = IF Def(i) THEN h[i] ELSE Refused
  OBVIOUS
<1>6. r[0] = s
  BY <1>1, <1>5 DEF Orbit
<1>7. r = [i \in 0 .. Rounds |-> r[i]]
  OBVIOUS
<1> HIDE DEF Def, r, g
<1>8. ASSUME NEW i \in 0 .. Rounds, NEW v, i # 0 => v = r[i - 1]
      PROVE  r[i] = IF i = 0 THEN s
                      ELSE IF v = Refused \/ ~ RefsIn(v) \subseteq DOMAIN env THEN Refused
                      ELSE Replaced(v)
  <2>1. CASE i = 0
    <3>1. r[i] = s
      BY <1>6, <2>1, Zenon
    <3>2. QED
      BY <2>1, <3>1, Zenon
  <2>2. CASE i # 0
    <3>1. PICK k \in 0 .. Rounds : k \in Nat /\ i = k + 1 /\ k = i - 1
      BY <1>1, <2>2
    <3>2. v = IF Def(k) THEN h[k] ELSE Refused
      BY <1>5, <1>8, <2>2, <3>1
    <3>3. r[i] = IF Def(k + 1) THEN h[k + 1] ELSE Refused
      BY <1>5, <3>1
    <3>4. CASE ~ Def(k)
      <4>1. v = Refused /\ r[i] = Refused
        BY <1>4, <3>1, <3>2, <3>3, <3>4
      <4>2. QED
        BY <2>2, <4>1
    <3>5. CASE Def(k) /\ ~ (RefsIn(h[k]) \subseteq DOMAIN Effective)
      <4>1. v = h[k] /\ h[k] # Refused /\ r[i] = Refused
        BY <1>2, <1>4, <3>1, <3>2, <3>3, <3>5
      <4>2. QED
        BY <2>2, <3>5, <4>1
    <3>6. CASE Def(k) /\ RefsIn(h[k]) \subseteq DOMAIN Effective
      <4>1. v = h[k] /\ h[k] # Refused /\ r[i] = h[k + 1]
        BY <1>2, <1>4, <3>1, <3>2, <3>3, <3>6
      <4>2. Replaced(v) = r[i]
        BY <1>3, <3>1, <3>6, <4>1
      <4>3. QED
        BY <2>2, <3>6, <4>1, <4>2
    <3>7. QED
      BY <3>4, <3>5, <3>6
  <2>3. QED
    BY <2>1, <2>2
<1>9. Rewrites(s, g)
  <2>1. Rewrites(s, r)
    <3>1. ASSUME NEW i \in 0 .. Rounds
          PROVE  r[i] = IF i = 0 THEN s
                          ELSE IF r[i - 1] = Refused \/ ~ RefsIn(r[i - 1]) \subseteq DOMAIN env THEN Refused
                          ELSE Replaced(r[i - 1])
      BY <1>8
    <3>2. QED
      BY <1>7, <3>1 DEF Rewrites
  <2>2. QED
    BY <2>1 DEF g
<1>10. Substituted(s) = IF g[Rounds] = g[Rounds - 1] THEN g[Rounds] ELSE Refused
  BY Zenon DEF Substituted, Rewrites, g
<1>11. \A i \in 0 .. Rounds : g[i] = r[i]
  <2> DEFINE P == {i \in 0 .. Rounds : g[i] = r[i]}
  <2>1. ASSUME NEW i \in 0 .. Rounds
        PROVE  g[i] = IF i = 0 THEN s
                        ELSE IF g[i - 1] = Refused \/ ~ RefsIn(g[i - 1]) \subseteq DOMAIN env THEN Refused
                        ELSE Replaced(g[i - 1])
    BY <1>9, Zenon DEF Rewrites
  <2>2. 0 \in P
    <3>1. 0 \in 0 .. Rounds
      BY <1>1
    <3>2. g[0] = s
      BY <2>1, <3>1, Zenon
    <3>3. QED
      BY <1>6, <3>1, <3>2
  <2>3. ASSUME NEW k \in 0 .. Rounds - 1, k \in P
        PROVE  k + 1 \in P
    <3>1. PICK i \in 0 .. Rounds : i = k + 1 /\ i # 0 /\ i - 1 = k
      BY <1>1
    <3>2. g[i - 1] = r[i - 1]
      BY <2>3, <3>1
    <3>3. g[i] = r[i]
      BY <1>8, <2>1, <3>2
    <3>4. QED
      BY <3>1, <3>3
  <2> HIDE DEF P
  <2>4. \A k \in 0 .. Rounds : k \in P
    BY <1>1, <2>2, <2>3, AllUpTo
  <2>5. QED
    BY <2>4 DEF P
<1>12. Substituted(s) = IF r[Rounds] = r[Rounds - 1] THEN r[Rounds] ELSE Refused
  <2>1. Rounds \in 0 .. Rounds /\ Rounds - 1 \in 0 .. Rounds
    BY <1>1
  <2>2. QED
    BY <1>10, <1>11, <2>1
<1>13. CASE Def(Rounds)
  <2>1. Def(Rounds - 1)
    BY <1>1, <1>4, <1>13
  <2>2. r[Rounds] = h[Rounds] /\ r[Rounds - 1] = h[Rounds - 1]
    BY <1>1, <1>5, <1>13, <2>1
  <2>3. QED
    BY <1>12, <1>13, <2>2 DEF Def
<1>14. CASE ~ Def(Rounds)
  <2>1. Rounds \in 0 .. Rounds
    BY <1>1
  <2>3. r[Rounds] = Refused
    BY <1>5, <1>14, <2>1, Zenon
  <2>2. QED
    BY <1>12, <1>14, <2>3 DEF Def
<1>15. QED
  BY <1>13, <1>14

\* The recursion in Height.
Climbs(s, g) ==
  g = [k \in 0 .. Cardinality(Names) |->
         IF k = 0 THEN RefsIn(s) ELSE UNION {RefsIn(Effective[n]) : n \in g[k - 1]}]

\* The height of a string whose names are all defined is the number of rounds,
\* up to the number of names, that find references.
LEMMA HeightValue ==
  ASSUME input \in Inputs, NEW s \in Seq(Pieces), NEW h \in [Nat -> Seq(Pieces)], Orbit(s, h),
         \A k \in Nat : RefsIn(h[k]) \subseteq DOMAIN Effective
  PROVE  Height(s) = Cardinality({k \in 0 .. Cardinality(Names) : RefsIn(h[k]) # {}})
<1> DEFINE c == Cardinality(Names)
           g == CHOOSE g : Climbs(s, g)
           r == [k \in 0 .. c |-> RefsIn(h[k])]
<1>1. c \in Nat
  BY ConfigurationAssumption, FS_CardinalityType
<1>2. ASSUME NEW k \in Nat
      PROVE  RefsIn(h[k + 1]) = UNION {RefsIn(Effective[n]) : n \in RefsIn(h[k])}
  <2> DEFINE here == RefsIn(h[k])
  <2>1. h[k] \in Seq(Pieces) /\ h[k + 1] = Joined(h[k], Value)
    BY DEF Orbit
  <2>2. RefsIn(h[k + 1]) = UNION {RefsIn(Value[n]) : n \in here}
    BY <2>1, ValueType, JoinedRefs
  <2>3. \A n \in here : Value[n] = Effective[n]
    BY ValueType
  <2> HIDE DEF here
  <2>4. {RefsIn(Value[n]) : n \in here} = {RefsIn(Effective[n]) : n \in here}
    BY <2>3
  <2>5. QED
    BY <2>2, <2>4 DEF here
<1>3. \A k \in 0 .. c : r[k] = RefsIn(h[k])
  OBVIOUS
<1>4. r = [k \in 0 .. c |-> r[k]]
  OBVIOUS
<1> HIDE DEF c, g, r
<1>5. ASSUME NEW k \in 0 .. c, NEW v, k # 0 => v = r[k - 1]
      PROVE  r[k] = IF k = 0 THEN RefsIn(s) ELSE UNION {RefsIn(Effective[n]) : n \in v}
  <2>1. CASE k = 0
    <3>1. r[k] = RefsIn(s)
      BY <1>3, <2>1 DEF Orbit
    <3>2. QED
      BY <2>1, <3>1, Zenon
  <2>2. CASE k # 0
    <3>1. PICK i \in 0 .. c : i \in Nat /\ k = i + 1 /\ i = k - 1
      BY <1>1, <2>2
    <3>2. v = RefsIn(h[i]) /\ r[k] = RefsIn(h[i + 1])
      BY <1>3, <1>5, <2>2, <3>1
    <3>3. RefsIn(h[i + 1]) = UNION {RefsIn(Effective[n]) : n \in RefsIn(h[i])}
      BY <1>2, <3>1
    <3>4. QED
      BY <2>2, <3>2, <3>3, Zenon
  <2>3. QED
    BY <2>1, <2>2
<1>6. Climbs(s, g)
  <2>1. Climbs(s, r)
    <3>1. ASSUME NEW k \in 0 .. c
          PROVE  r[k] = IF k = 0 THEN RefsIn(s) ELSE UNION {RefsIn(Effective[n]) : n \in r[k - 1]}
      BY <1>5
    <3>2. QED
      BY <1>4, <3>1 DEF Climbs, c
  <2>2. QED
    BY <2>1 DEF g
<1>7. Height(s) = Cardinality({k \in 0 .. c : g[k] # {}})
  BY Zenon DEF Height, Climbs, g, c
<1>8. \A k \in 0 .. c : g[k] = r[k]
  <2> DEFINE P == {k \in 0 .. c : g[k] = r[k]}
  <2>1. ASSUME NEW k \in 0 .. c
        PROVE  g[k] = IF k = 0 THEN RefsIn(s) ELSE UNION {RefsIn(Effective[n]) : n \in g[k - 1]}
    BY <1>6, Zenon DEF Climbs, c
  <2>2. 0 \in P
    <3>1. 0 \in 0 .. c
      BY <1>1
    <3>2. g[0] = RefsIn(s)
      BY <2>1, <3>1, Zenon
    <3>3. r[0] = RefsIn(s)
      BY <1>3, <3>1 DEF Orbit
    <3>4. QED
      BY <3>1, <3>2, <3>3
  <2>3. ASSUME NEW i \in 0 .. c - 1, i \in P
        PROVE  i + 1 \in P
    <3>1. PICK k \in 0 .. c : k = i + 1 /\ k # 0 /\ k - 1 = i
      BY <1>1
    <3>2. g[k - 1] = r[k - 1]
      BY <2>3, <3>1
    <3>3. g[k] = IF k = 0 THEN RefsIn(s) ELSE UNION {RefsIn(Effective[n]) : n \in g[k - 1]}
      BY <2>1
    <3>4. g[k] = r[k]
      BY <1>5, <3>2, <3>3
    <3>5. QED
      BY <3>1, <3>4
  <2> HIDE DEF P
  <2>4. \A k \in 0 .. c : k \in P
    BY <1>1, <2>2, <2>3, AllUpTo
  <2>5. QED
    BY <2>4 DEF P
<1>9. {k \in 0 .. c : g[k] # {}} = {k \in 0 .. c : RefsIn(h[k]) # {}}
  BY <1>3, <1>8
<1>10. QED
  BY <1>7, <1>9, Zenon DEF c

\* The recursion in Expansion, up to its m-th value.
Expands(m, g) ==
  g = [k \in 0 .. m |->
         [n \in DOMAIN Effective |-> IF k = 0 THEN <<>> ELSE Joined(Effective[n], g[k - 1])]]

\* There is such a function, whatever is undefined.
LEMMA SomeExpansion ==
  ASSUME NEW c \in Nat
  PROVE  \E g : Expands(c, g)
<1> DEFINE P == {m \in Nat : \E g : Expands(m, g)}
<1>1. 0 \in P
  <2> DEFINE g == [k \in 0 .. 0 |-> [n \in DOMAIN Effective |-> <<>>]]
  <2>1. Expands(0, g)
    BY DEF Expands
  <2>2. QED
    BY <2>1
<1>2. ASSUME NEW m \in P
      PROVE  m + 1 \in P
  <2>1. m \in Nat
    OBVIOUS
  <2>2. PICK g : Expands(m, g)
    OBVIOUS
  <2> DEFINE last == [n \in DOMAIN Effective |-> Joined(Effective[n], g[m])]
             e == [k \in 0 .. m + 1 |-> IF k = m + 1 THEN last ELSE g[k]]
  <2>3. \A k \in 0 .. m :
          g[k] = [n \in DOMAIN Effective |-> IF k = 0 THEN <<>> ELSE Joined(Effective[n], g[k - 1])]
    BY <2>2, Zenon DEF Expands
  <2>4. /\ e = [k \in 0 .. m + 1 |-> e[k]] /\ e[m + 1] = last
        /\ \A k \in 0 .. m : e[k] = g[k]
    BY <2>1
  <2> HIDE DEF e
  <2>5. ASSUME NEW k \in 0 .. m + 1
        PROVE  e[k] = [n \in DOMAIN Effective |-> IF k = 0 THEN <<>> ELSE Joined(Effective[n], e[k - 1])]
    <3>1. CASE k = m + 1
      <4>1. PICK i \in 0 .. m : i = m /\ k - 1 = i /\ k # 0
        BY <2>1, <3>1
      <4>2. e[k - 1] = g[m] /\ e[k] = last
        BY <2>4, <3>1, <4>1
      <4>3. QED
        BY <4>1, <4>2, Zenon
    <3>2. CASE k # m + 1 /\ k # 0
      <4>1. PICK i \in 0 .. m : k - 1 = i /\ k \in 0 .. m
        BY <2>1, <3>2
      <4>2. e[k - 1] = g[k - 1] /\ e[k] = g[k]
        BY <2>4, <4>1
      <4>3. g[k] = [n \in DOMAIN Effective |-> IF k = 0 THEN <<>> ELSE Joined(Effective[n], g[k - 1])]
        BY <2>3, <4>1, Zenon
      <4>4. QED
        BY <4>2, <4>3, Zenon
    <3>3. CASE k # m + 1 /\ k = 0
      <4>1. k \in 0 .. m
        BY <2>1, <3>3
      <4>2. g[k] = [n \in DOMAIN Effective |-> IF k = 0 THEN <<>> ELSE Joined(Effective[n], g[k - 1])]
        BY <2>3, <4>1, Zenon
      <4>3. g[k] = [n \in DOMAIN Effective |-> <<>>]
        BY <3>3, <4>2, Zenon
      <4>4. e[k] = g[k]
        BY <2>4, <4>1
      <4>5. QED
        BY <3>3, <4>3, <4>4, Zenon
    <3>4. QED
      BY <3>1, <3>2, <3>3
  <2>6. Expands(m + 1, e)
    BY <2>4, <2>5 DEF Expands
  <2>7. QED
    BY <2>1, <2>6
<1>3. P = Nat
  <2> HIDE DEF P
  <2>1. P \in SUBSET Nat
    BY DEF P
  <2>2. QED
    BY <1>1, <1>2, <2>1, AllNaturals
<1>4. QED
  BY <1>3

\* When all names that a string leads to are defined, and all references are
\* gone after as many rounds as there are names, what is left is the expansion.
LEMMA ExpansionValue ==
  ASSUME input \in Inputs, NEW s \in Seq(Pieces), NEW h \in [Nat -> Seq(Pieces)], Orbit(s, h),
         Closure(Names, Referring, RefsIn(s)) \subseteq DOMAIN Effective,
         RefsIn(h[Cardinality(Names)]) = {}
  PROVE  Expansion(s) = h[Cardinality(Names)]
<1> DEFINE c == Cardinality(Names)
           R == Closure(Names, Referring, RefsIn(s))
           S == [Names -> Seq(Pieces)]
           Put(w) == [n \in Names |-> Joined(Value[n], w)]
           G == [k \in Nat |-> [w \in S |-> Put(w)]]
           none == [n \in Names |-> <<>>]
           g == CHOOSE g : Expands(c, g)
<1>1. c \in Nat
  BY ConfigurationAssumption, FS_CardinalityType
<1>2. \A w \in S : Put(w) \in S
  BY ValueType, JoinedType
<1>3. none \in S /\ \A n \in Names : none[n] = <<>>
  OBVIOUS
<1>4. \A w : \A n \in Names : Put(w)[n] = Joined(Value[n], w)
  OBVIOUS
<1> HIDE DEF S, Put, none
<1>5. G \in [Nat -> [S -> S]] /\ \A k \in Nat : \A w \in S : G[k][w] = Put(w)
  BY <1>2
<1> HIDE DEF G
<1>6. PICK v \in [Nat -> S] : AlwaysTurns(v, none, G)
  BY <1>3, <1>5, EndlessTurns
<1>7. v[0] = none /\ \A k \in Nat : v[k] \in S /\ v[k + 1] = Put(v[k])
  BY <1>5, <1>6 DEF AlwaysTurns
<1>8. /\ R \subseteq DOMAIN Effective /\ R \subseteq Names /\ RefsIn(s) \subseteq R
      /\ \A n \in R : Value[n] = Effective[n] /\ RefsIn(Effective[n]) \subseteq R
  <2>1. /\ R \in SUBSET Names /\ RefsIn(s) \subseteq R /\ After(Referring, R) \subseteq R
    BY RefsByPiece, ValueType, ClosureIsLeast
  <2> HIDE DEF R
  <2>2. ASSUME NEW n \in R
        PROVE  Value[n] = Effective[n] /\ RefsIn(Effective[n]) \subseteq R
    <3>1. n \in Names /\ Value[n] = Effective[n]
      BY <2>1, ValueType DEF R
    <3>2. Referring[n] = RefsIn(Effective[n])
      BY <3>1 DEF Referring
    <3>3. QED
      BY <2>1, <3>1, <3>2, Zenon DEF After
  <2>3. QED
    BY <2>1, <2>2 DEF R
<1> HIDE DEF R, g, c
<1>9. Expands(c, g)
  BY <1>1, SomeExpansion DEF g
<1>10. \A k \in 0 .. c :
         g[k] = [n \in DOMAIN Effective |-> IF k = 0 THEN <<>> ELSE Joined(Effective[n], g[k - 1])]
  BY <1>9, Zenon DEF Expands
<1>11. Expansion(s) = Joined(s, g[c])
  BY Zenon DEF Expansion, Expands, g, c
<1>12. \A k \in 0 .. c : \A n \in R : g[k][n] = v[k][n]
  <2> DEFINE P == {k \in 0 .. c : \A n \in R : g[k][n] = v[k][n]}
  <2>1. 0 \in P
    <3>1. 0 \in 0 .. c
      BY <1>1
    <3>2. ASSUME NEW n \in R
          PROVE  g[0][n] = v[0][n]
      <4>1. g[0] = [m \in DOMAIN Effective |-> IF 0 = 0 THEN <<>> ELSE Joined(Effective[m], g[0 - 1])]
        BY <1>10, <3>1, Zenon
      <4>2. g[0] = [m \in DOMAIN Effective |-> <<>>]
        BY <4>1, Zenon
      <4>3. QED
        BY <1>3, <1>7, <1>8, <4>2
    <3>3. QED
      BY <3>1, <3>2
  <2>2. ASSUME NEW i \in 0 .. c - 1, i \in P
        PROVE  i + 1 \in P
    <3>1. PICK k \in 0 .. c : k = i + 1 /\ k # 0 /\ k - 1 = i /\ i \in Nat
      BY <1>1
    <3>2. ASSUME NEW n \in R
          PROVE  g[k][n] = v[k][n]
      <4>1. g[k] = [m \in DOMAIN Effective |-> IF k = 0 THEN <<>> ELSE Joined(Effective[m], g[k - 1])]
        BY <1>10, Zenon
      <4>2. g[k] = [m \in DOMAIN Effective |-> Joined(Effective[m], g[i])]
        BY <3>1, <4>1, Zenon
      <4>3. g[k][n] = Joined(Effective[n], g[i])
        BY <1>8, <4>2, Zenon
      <4>4. v[k][n] = Joined(Value[n], v[i])
        BY <1>4, <1>7, <1>8, <3>1
      <4>5. \A m \in RefsIn(Effective[n]) : g[i][m] = v[i][m]
        BY <1>8, <2>2
      <4>6. Joined(Effective[n], g[i]) = Joined(Effective[n], v[i])
        BY <4>5, JoinedSame
      <4>7. QED
        BY <1>8, <4>3, <4>4, <4>6
    <3>3. QED
      BY <3>1, <3>2
  <2> HIDE DEF P
  <2>3. \A k \in 0 .. c : k \in P
    BY <1>1, <2>1, <2>2, AllUpTo
  <2>4. QED
    BY <2>3 DEF P
<1>13. Joined(s, g[c]) = Joined(s, v[c])
  <2>1. \A n \in RefsIn(s) : g[c][n] = v[c][n]
    BY <1>1, <1>8, <1>12
  <2>2. QED
    BY <2>1, JoinedSame
<1>14. \A j \in 0 .. c : Joined(s, v[c]) = Joined(h[j], v[c - j])
  <2> DEFINE P == {j \in 0 .. c : Joined(s, v[c]) = Joined(h[j], v[c - j])}
  <2>1. 0 \in P
    <3>1. c - 0 = c /\ 0 \in 0 .. c
      BY <1>1
    <3>2. QED
      BY <3>1 DEF Orbit
  <2>2. ASSUME NEW j \in 0 .. c - 1, j \in P
        PROVE  j + 1 \in P
    <3>1. PICK k \in Nat : k = c - (j + 1) /\ k + 1 = c - j /\ j \in Nat /\ j + 1 \in 0 .. c
      BY <1>1
    <3>2. v[k] \in [Names -> Seq(Pieces)] /\ v[k + 1] = [n \in Names |-> Joined(Value[n], v[k])]
      BY <1>7 DEF S, Put
    <3>3. h[j] \in Seq(Pieces) /\ h[j + 1] = Joined(h[j], Value)
      BY <3>1 DEF Orbit
    <3>4. Joined(h[j + 1], v[k]) = Joined(h[j], v[k + 1])
      <4>1. Value \in [Names -> Seq(Pieces)]
        BY ValueType
      <4>2. Joined(Joined(h[j], Value), v[k]) = Joined(h[j], [n \in Names |-> Joined(Value[n], v[k])])
        BY <3>2, <3>3, <4>1, JoinedTwice
      <4>3. QED
        BY <3>2, <3>3, <4>2, Zenon
    <3>5. Joined(s, v[c]) = Joined(h[j], v[k + 1])
      BY <2>2, <3>1
    <3>6. QED
      BY <3>1, <3>4, <3>5
  <2> HIDE DEF P
  <2>3. \A k \in 0 .. c : k \in P
    BY <1>1, <2>1, <2>2, AllUpTo
  <2>4. QED
    BY <2>3 DEF P
<1>15. Joined(h[c], v[c - c]) = h[c]
  <2>1. h[c] \in Seq(Pieces) /\ RefsIn(h[c]) = {}
    BY <1>1 DEF c
  <2>2. QED
    BY <2>1, JoinedNothing
<1>16. Joined(s, v[c]) = h[c]
  <2>1. c \in 0 .. c
    BY <1>1
  <2>2. QED
    BY <1>14, <1>15, <2>1
<1>17. QED
  BY <1>11, <1>13, <1>16 DEF c

\* What comes of one string.
LEMMA SubstitutionOfOne ==
  ASSUME input \in Inputs, env = Effective, NEW s \in Seq(Pieces)
  PROVE  LET defined == Reached(s) \subseteq DOMAIN Effective
             straight == defined /\ \A n \in Reached(s) : ~ Circular(n)
         IN  /\ Substituted(s) # Refused =>
                  /\ defined
                  /\ straight => Height(s) < Rounds /\ Substituted(s) = Expansion(s)
                  /\ ~ straight => RefsIn(Substituted(s)) # {}
             /\ straight /\ Height(s) < Rounds => Substituted(s) # Refused
<1> DEFINE c == Cardinality(Names)
           D == DOMAIN Effective
           R == Closure(Names, Referring, RefsIn(s))
<1>1. c \in Nat /\ IsFiniteSet(Names) /\ Rounds \in Nat \ {0} /\ Rounds - 1 \in Nat /\ Rounds - 1 + 1 = Rounds
  BY ConfigurationAssumption, FS_CardinalityType
<1>2. Reached(s) = R
  BY ReachedIsClosure
<1>3. PICK h \in [Nat -> Seq(Pieces)] : Orbit(s, h)
  BY SomeOrbit
<1> DEFINE q == RefsAfter(h)
<1>4. /\ Walks(Referring, RefsIn(s), q) /\ \A k \in Nat : q[k] = RefsIn(h[k])
  BY <1>3, OrbitWalks DEF RefsAfter
<1>5. RefsIn(s) \in SUBSET Names /\ Referring \in [Names -> SUBSET Names] /\ D \subseteq Names
  BY RefsByPiece, ValueType
<1> HIDE DEF q
<1>6. R \in SUBSET Names /\ \A k \in Nat : q[k] \subseteq R
  BY <1>4, <1>5, ClosureIsLeast, WalksStay
<1>7. \A n \in R : Circular(n) <=> n \in Closure(Names, Referring, Referring[n])
  BY <1>6, CircularNames
<1>8. Substituted(s) = IF (\A k \in 0 .. Rounds - 1 : RefsIn(h[k]) \subseteq D) /\ h[Rounds] = h[Rounds - 1]
                       THEN h[Rounds] ELSE Refused
  BY <1>3, SubstitutedValue
<1>9. \A k \in Nat : h[k] \in Seq(Pieces) /\ h[k] # Refused
  BY InputsAssumption
<1> HIDE DEF c
<1>10. ASSUME \A k \in 0 .. Rounds - 1 : RefsIn(h[k]) \subseteq D, h[Rounds] = h[Rounds - 1]
       PROVE  R \subseteq D
  <2> DEFINE U == UNION {q[k] : k \in 0 .. Rounds - 1}
  <2>1. ASSUME NEW k \in 0 .. Rounds - 1
        PROVE  q[k] \subseteq D /\ q[k + 1] \subseteq U
    <3>1. k \in Nat /\ q[k] \subseteq D
      <4>1. k \in Nat
        BY <1>1
      <4>2. RefsIn(h[k]) \subseteq D
        BY <1>10, Zenon
      <4>3. QED
        BY <1>4, <4>1, <4>2, Zenon
    <3>2. CASE k = Rounds - 1
      <4>1. q[k + 1] = q[k]
        BY <1>1, <1>4, <1>10, <3>2
      <4>2. QED
        BY <3>1, <4>1
    <3>3. CASE k # Rounds - 1
      <4>1. k + 1 \in 0 .. Rounds - 1
        BY <1>1, <3>3
      <4>2. QED
        BY <3>1, <4>1
    <3>4. QED
      BY <3>2, <3>3
  <2>2. U \subseteq D /\ U \in SUBSET Names
    BY <1>5, <2>1
  <2>3. RefsIn(s) \subseteq U
    <3>1. 0 \in 0 .. Rounds - 1
      BY <1>1
    <3>2. q[0] = RefsIn(s)
      BY <1>4 DEF Walks
    <3>3. QED
      BY <3>1, <3>2
  <2>4. After(Referring, U) \subseteq U
    <3>1. ASSUME NEW n \in U, NEW m \in Referring[n]
          PROVE  m \in U
      <4>1. PICK k \in 0 .. Rounds - 1 : n \in q[k]
        OBVIOUS
      <4>2. k \in Nat /\ q[k + 1] = After(Referring, q[k])
        BY <1>1, <1>4 DEF Walks
      <4>3. m \in q[k + 1]
        BY <4>1, <4>2, Zenon DEF After
      <4> HIDE DEF U
      <4>4. QED
        BY <2>1, <4>3
    <3> HIDE DEF U
    <3>2. QED
      BY <3>1, Zenon DEF After
  <2> HIDE DEF U
  <2>5. R \subseteq U
    <3>1. \A C \in SUBSET Names : RefsIn(s) \subseteq C /\ After(Referring, C) \subseteq C => R \subseteq C
      <4> DEFINE here == RefsIn(s)
      <4>1. here \in SUBSET Names /\ Referring \in [Names -> SUBSET Names]
        BY <1>5
      <4> HIDE DEF here
      <4>2. \A C \in SUBSET Names : here \subseteq C /\ After(Referring, C) \subseteq C
                                    => Closure(Names, Referring, here) \subseteq C
        BY <4>1, ClosureIsLeast
      <4>3. QED
        BY <4>2 DEF here
    <3>2. QED
      BY <2>2, <2>3, <2>4, <3>1, Zenon
  <2>6. QED
    BY <2>2, <2>5
<1>11. ASSUME R \subseteq D, \A n \in R : ~ Circular(n)
       PROVE  /\ RefsIn(h[c]) = {} /\ Expansion(s) = h[c]
              /\ Height(s) = Cardinality({k \in 0 .. c : RefsIn(h[k]) # {}})
              /\ \A k \in Nat : RefsIn(h[k]) \subseteq D
  <2>1. q[c] = {}
    BY <1>1, <1>4, <1>5, <1>7, <1>11, WalksEnd DEF c
  <2>2. RefsIn(h[c]) = {}
    BY <1>1, <1>4, <2>1
  <2>3. \A k \in Nat : RefsIn(h[k]) \subseteq D
    BY <1>4, <1>6, <1>11
  <2>4. Expansion(s) = h[c]
    BY <1>3, <1>11, <2>2, ExpansionValue DEF c
  <2>5. Height(s) = Cardinality({k \in 0 .. c : RefsIn(h[k]) # {}})
    BY <1>3, <2>3, HeightValue DEF c
  <2>6. QED
    BY <2>2, <2>3, <2>4, <2>5
<1>12. ASSUME Substituted(s) # Refused
       PROVE  /\ R \subseteq D
              /\ (\A n \in R : ~ Circular(n)) => Height(s) < Rounds /\ Substituted(s) = Expansion(s)
              /\ ~ (\A n \in R : ~ Circular(n)) => RefsIn(Substituted(s)) # {}
  <2>1. (\A k \in 0 .. Rounds - 1 : RefsIn(h[k]) \subseteq D) /\ h[Rounds] = h[Rounds - 1] /\ Substituted(s) = h[Rounds]
    BY <1>8, <1>12
  <2>2. R \subseteq D
    BY <1>10, <2>1
  <2>3. ASSUME \A n \in R : ~ Circular(n)
        PROVE  Height(s) < Rounds /\ Substituted(s) = Expansion(s)
    <3>1. /\ RefsIn(h[c]) = {} /\ Expansion(s) = h[c]
          /\ Height(s) = Cardinality({k \in 0 .. c : RefsIn(h[k]) # {}})
      BY <1>11, <2>2, <2>3
    <3>2. \A j \in Nat : j >= Rounds - 1 => h[j] = h[Rounds - 1]
      <4>1. h[Rounds - 1 + 1] = h[Rounds - 1]
        BY <1>1, <2>1
      <4>2. QED
        BY <1>1, <1>3, <4>1, OrbitRests
    <3>3. \A j \in Nat : j >= c => h[j] = h[c]
      BY <1>1, <1>3, <3>1, OrbitRests
    <3>4. h[Rounds - 1] = h[c] /\ h[Rounds] = h[c]
      <4>1. CASE c >= Rounds - 1
        BY <1>1, <2>1, <3>2, <4>1
      <4>2. CASE ~ (c >= Rounds - 1)
        <5>1. Rounds - 1 >= c
          BY <1>1, <4>2
        <5>2. QED
          BY <1>1, <2>1, <3>3, <5>1
      <4>3. QED
        BY <4>1, <4>2
    <3>5. {k \in 0 .. c : RefsIn(h[k]) # {}} \subseteq 0 .. Rounds - 2
      <4>1. ASSUME NEW k \in 0 .. c, ~ (k <= Rounds - 2)
            PROVE  RefsIn(h[k]) = {}
        <5>1. k \in Nat /\ k >= Rounds - 1
          BY <1>1, <4>1
        <5>2. h[k] = h[c]
          BY <3>2, <3>4, <5>1
        <5>3. QED
          BY <3>1, <5>2
      <4>2. QED
        BY <1>1, <4>1
    <3>6. IsFiniteSet(0 .. Rounds - 2) /\ Cardinality(0 .. Rounds - 2) = Rounds - 1
      <4>1. Rounds - 2 \in Int /\ 0 \in Int /\ (0 > Rounds - 2 => Rounds - 1 = 0) /\ Rounds - 2 - 0 + 1 = Rounds - 1
        BY <1>1
      <4>2. QED
        BY <4>1, FS_Interval
    <3>7. Cardinality({k \in 0 .. c : RefsIn(h[k]) # {}}) <= Rounds - 1
          /\ Cardinality({k \in 0 .. c : RefsIn(h[k]) # {}}) \in Nat
      <4> DEFINE X == {k \in 0 .. c : RefsIn(h[k]) # {}}
                 Y == 0 .. Rounds - 2
      <4>1. X \in SUBSET Y /\ IsFiniteSet(Y) /\ Cardinality(Y) = Rounds - 1
        BY <3>5, <3>6
      <4> HIDE DEF X, Y
      <4>2. IsFiniteSet(X) /\ Cardinality(X) <= Rounds - 1
        BY <4>1, FS_Subset
      <4>3. Cardinality(X) \in Nat
        BY <4>2, FS_CardinalityType
      <4>4. QED
        BY <4>2, <4>3 DEF X
    <3>8. Height(s) < Rounds
      BY <1>1, <3>1, <3>7
    <3>9. QED
      BY <2>1, <3>1, <3>4, <3>8
  <2>4. ASSUME NEW n \in R, Circular(n)
        PROVE  RefsIn(Substituted(s)) # {}
    <3>1. n \in Closure(Names, Referring, Referring[n])
      BY <1>7, <2>4
    <3>2. q[Rounds] # {}
      BY <1>1, <1>4, <1>5, <3>1, WalksGoOn
    <3>3. QED
      BY <1>1, <1>4, <2>1, <3>2
  <2>5. QED
    BY <2>2, <2>3, <2>4
<1>13. ASSUME R \subseteq D, \A n \in R : ~ Circular(n), Height(s) < Rounds
       PROVE  Substituted(s) # Refused
  <2>1. /\ RefsIn(h[c]) = {} /\ \A k \in Nat : RefsIn(h[k]) \subseteq D
        /\ Height(s) = Cardinality({k \in 0 .. c : RefsIn(h[k]) # {}})
    BY <1>11, <1>13
  <2>2. RefsIn(h[Rounds - 1]) = {}
    <3> SUFFICES ASSUME RefsIn(h[Rounds - 1]) # {}
                 PROVE  FALSE
      OBVIOUS
    <3>1. ASSUME NEW k \in 0 .. Rounds - 1
          PROVE  RefsIn(h[k]) # {}
      <4>1. k \in Nat /\ Rounds - 1 >= k
        BY <1>1
      <4>2. RefsIn(h[k]) = {} => h[Rounds - 1] = h[k]
        BY <1>1, <1>3, <4>1, OrbitRests
      <4>3. QED
        BY <4>2
    <3>2. Rounds - 1 <= c
      <4>1. CASE c \in 0 .. Rounds - 1
        BY <2>1, <3>1, <4>1, Zenon
      <4>2. CASE c \notin 0 .. Rounds - 1
        BY <1>1, <4>2
      <4>3. QED
        BY <4>1, <4>2
    <3> DEFINE X == {k \in 0 .. c : RefsIn(h[k]) # {}}
               Y == 0 .. Rounds - 1
    <3>3. Y \in SUBSET X
      <4>1. ASSUME NEW k \in Y
            PROVE  k \in X
        <5>1. k \in 0 .. c
          BY <1>1, <3>2
        <5>2. QED
          BY <3>1, <5>1, Zenon
      <4>2. QED
        BY <4>1, Zenon
    <3>4. IsFiniteSet(0 .. c)
      BY <1>1, FS_Interval
    <3>5. X \in SUBSET (0 .. c)
      OBVIOUS
    <3>6. Cardinality(Y) = Rounds
      <4>1. Rounds - 1 \in Int /\ 0 \in Int /\ ~ (0 > Rounds - 1) /\ Rounds - 1 - 0 + 1 = Rounds
        BY <1>1
      <4>2. QED
        BY <4>1, FS_Interval
    <3> HIDE DEF X, Y
    <3>7. IsFiniteSet(X) /\ Cardinality(Y) <= Cardinality(X)
      BY <3>3, <3>4, <3>5, FS_Subset
    <3>8. Cardinality(X) \in Nat
      BY <3>7, FS_CardinalityType
    <3>9. Height(s) = Cardinality(X)
      BY <2>1 DEF X
    <3>10. QED
      BY <1>1, <1>13, <3>6, <3>7, <3>8, <3>9
  <2>3. h[Rounds] = h[Rounds - 1]
    <3>1. Rounds \in Nat /\ Rounds >= Rounds - 1
      BY <1>1
    <3>2. QED
      BY <1>1, <1>3, <2>2, <3>1, OrbitRests
  <2>4. Substituted(s) = h[Rounds]
    <3>1. \A k \in 0 .. Rounds - 1 : RefsIn(h[k]) \subseteq D
      BY <1>1, <2>1
    <3>2. QED
      BY <1>8, <2>3, <3>1, Zenon
  <2>5. QED
    BY <1>1, <1>9, <2>4
<1>14. QED
  BY <1>2, <1>12, <1>13

-----------------------------------------------------------------------------
(* Substitution in the system.                                             *)

\* Substituted, for an environment e that does not change.
SubstitutedIn(e, s) ==
  LET after[i \in 0 .. Rounds] ==
        IF i = 0 THEN s
        ELSE IF after[i - 1] = Refused \/ ~ RefsIn(after[i - 1]) \subseteq DOMAIN e THEN Refused
        ELSE Joined(after[i - 1], e)
  IN  IF after[Rounds] = after[Rounds - 1] THEN after[Rounds] ELSE Refused

\* Substituted is that, for the environment of the moment.
LEMMA SubstitutedHere ==
  ASSUME NEW s
  PROVE  Substituted(s) = SubstitutedIn(env, s)
BY Zenon DEF Substituted, SubstitutedIn, Replaced, Joined

\* The document is as it was read until its strings have been substituted, all
\* of them or, when one is refused, none.
SubstitutionInv ==
  /\ pc \in {"environment", "substituting"} => fields = input.fields
  /\ pc = "substituting" /\ outcome = "refused" =>
       \E f \in DOMAIN fields : IsString(fields[f]) /\ SubstitutedIn(env, fields[f][2]) = Refused
  /\ pc = "upstream" =>
       \A f \in DOMAIN input.fields :
         IsString(input.fields[f]) =>
           /\ SubstitutedIn(env, input.fields[f][2]) # Refused
           /\ f \in DOMAIN fields /\ fields[f] = String(SubstitutedIn(env, input.fields[f][2]))

\* Every step keeps this.
LEMMA SubstitutionKept ==
  ASSUME SubstitutionInv, ConfigurationInv, [Next]_vars
  PROVE  SubstitutionInv'
<1>1. CASE ReadLine \/ LoadJson
  <2>1. /\ pc = "environment" /\ UNCHANGED <<input, fields>> /\ outcome = "none"
        /\ \/ pc' = "environment"
           \/ pc' = "substituting" /\ outcome' = outcome
    BY <1>1 DEF ReadLine, LoadJson, Refuse
  <2>2. QED
    BY <2>1 DEF SubstitutionInv
<1>2. CASE Substitute
  <2> DEFINE strings == {f \in DOMAIN fields : IsString(fields[f])}
             results == [f \in strings |-> Substituted(fields[f][2])]
  <2>1. /\ pc = "substituting" /\ UNCHANGED <<input, line, env, cfg>>
        /\ IF \E f \in strings : results[f] = Refused
           THEN outcome' = "refused" /\ pc' = pc /\ fields' = fields
           ELSE /\ fields' = Over([f \in strings |-> String(results[f])], fields)
                /\ pc' = "upstream"
    BY <1>2 DEF Substitute, Refuse
  <2>2. fields = input.fields
    BY <2>1 DEF SubstitutionInv
  <2>3. \A f \in strings : results[f] = SubstitutedIn(env, fields[f][2])
    BY SubstitutedHere
  <2>4. CASE \E f \in strings : results[f] = Refused
    <3>1. PICK g \in strings : SubstitutedIn(env, fields[g][2]) = Refused
      BY <2>3, <2>4
    <3>2. UNCHANGED <<input, env, fields>> /\ pc' = "substituting"
      BY <2>1, <2>4
    <3>3. (\E f \in DOMAIN fields : IsString(fields[f]) /\ SubstitutedIn(env, fields[f][2]) = Refused)'
      BY <3>1, <3>2 DEF IsString
    <3>4. QED
      BY <2>2, <3>2, <3>3 DEF SubstitutionInv
  <2>5. CASE ~ \E f \in strings : results[f] = Refused
    <3> DEFINE new == [f \in strings |-> String(results[f])]
    <3>1. /\ UNCHANGED <<input, env>> /\ pc' = "upstream" /\ fields' = Over(new, fields)
      BY <2>1, <2>5
    <3>2. ASSUME NEW f \in DOMAIN input.fields, IsString(input.fields[f])
          PROVE  /\ SubstitutedIn(env, input.fields[f][2]) # Refused
                 /\ f \in DOMAIN fields' /\ fields'[f] = String(SubstitutedIn(env, input.fields[f][2]))
      <4>1. f \in strings /\ results[f] = SubstitutedIn(env, input.fields[f][2]) /\ results[f] # Refused
        BY <2>2, <2>3, <2>5, <3>2
      <4>2. f \in DOMAIN new /\ new[f] = String(SubstitutedIn(env, input.fields[f][2]))
        BY <4>1
      <4> HIDE DEF new
      <4>3. f \in DOMAIN fields' /\ fields'[f] = new[f]
        BY <3>1, <4>2, OverBoth
      <4>4. QED
        BY <4>1, <4>2, <4>3
    <3>3. (\A f \in DOMAIN input.fields :
            IsString(input.fields[f]) =>
              /\ SubstitutedIn(env, input.fields[f][2]) # Refused
              /\ f \in DOMAIN fields /\ fields[f] = String(SubstitutedIn(env, input.fields[f][2])))'
      BY <3>1, <3>2 DEF IsString, String
    <3>4. QED
      BY <3>1, <3>3 DEF SubstitutionInv
  <2>6. QED
    BY <2>4, <2>5
<1>3. CASE ParseUpstream \/ ParseAuth \/ ParseRuntime \/ ParseServer
  <2>1. /\ UNCHANGED <<input, env, fields>>
        /\ pc' \in {"auth", "runtime", "server", "main"} \/ (pc = "upstream" /\ pc' = "upstream")
    BY <1>3, SectionSteps DEF SectionStep
  <2>2. QED
    BY <2>1 DEF SubstitutionInv, IsString, String
<1>4. CASE Main
  <2>1. pc' = "main"
    BY <1>4 DEF Main, Refuse
  <2>2. QED
    BY <2>1 DEF SubstitutionInv
<1>5. CASE UNCHANGED vars
  BY <1>5 DEF SubstitutionInv, vars, IsString, String
<1>6. QED
  BY <1>1, <1>2, <1>3, <1>4, <1>5 DEF Next

\* The invariant holds throughout.
LEMMA SubstitutionIsInvariant == Spec => []SubstitutionInv
<1>1. Init => SubstitutionInv
  BY DEF Init, SubstitutionInv
<1>2. SubstitutionInv /\ ConfigurationInv /\ [Next]_vars => SubstitutionInv'
  BY SubstitutionKept
<1>3. QED
  BY <1>1, <1>2, ConfigurationIsInvariant, PTL DEF Spec

\* What has been substituted is what SubstitutionOfOne says of each string.
LEMMA SubstitutionExpands ==
  ASSUME ConfigurationInv, SubstitutionInv
  PROVE  SubstitutionIsExpansion
<1> DEFINE strings == {f \in DOMAIN fields : IsString(input.fields[f])}
           Defined(s) == Reached(s) \subseteq DOMAIN Effective
           Straight(s) == Defined(s) /\ \A n \in Reached(s) : ~ Circular(n)
           Resolved(s) == Straight(s) /\ Height(s) < Rounds
<1>1. input \in Inputs /\ DOMAIN fields = DOMAIN input.fields
  BY DEF ConfigurationInv, EnvironmentInv, TypeOK
<1>2. pc # "environment" => env = Effective
  BY WholeFile DEF ConfigurationInv, EnvironmentInv
<1>3. ASSUME NEW f \in strings, env = Effective
      PROVE  LET s == input.fields[f][2]
             IN  /\ SubstitutedIn(env, s) # Refused =>
                      /\ Defined(s)
                      /\ Straight(s) => Height(s) < Rounds /\ SubstitutedIn(env, s) = Expansion(s)
                      /\ ~ Straight(s) => RefsIn(SubstitutedIn(env, s)) # {}
                 /\ Resolved(s) => SubstitutedIn(env, s) # Refused
  <2> DEFINE s == input.fields[f][2]
  <2>1. s \in Seq(Pieces)
    BY <1>1, InputsAssumption DEF IsString
  <2> HIDE DEF s
  <2>2. SubstitutedIn(env, s) = Substituted(s)
    BY SubstitutedHere
  <2>3. /\ Substituted(s) # Refused =>
             /\ Defined(s)
             /\ Straight(s) => Height(s) < Rounds /\ Substituted(s) = Expansion(s)
             /\ ~ Straight(s) => RefsIn(Substituted(s)) # {}
        /\ Resolved(s) => Substituted(s) # Refused
    BY <1>1, <1>3, <2>1, SubstitutionOfOne
  <2>4. QED
    BY <2>2, <2>3 DEF s
<1> HIDE DEF Defined, Straight, Resolved
<1>4. ASSUME pc = "upstream", NEW f \in strings
      PROVE  LET s == input.fields[f][2]
             IN  /\ Defined(s)
                 /\ Straight(s) => Height(s) < Rounds /\ fields[f] = String(Expansion(s))
                 /\ ~ Straight(s) => RefsIn(fields[f][2]) # {}
  <2> DEFINE s == input.fields[f][2]
             t == SubstitutedIn(env, s)
  <2>1. t # Refused /\ fields[f] = String(t)
    BY <1>1, <1>4 DEF SubstitutionInv
  <2>2. /\ Defined(s)
        /\ Straight(s) => Height(s) < Rounds /\ t = Expansion(s)
        /\ ~ Straight(s) => RefsIn(t) # {}
    BY <1>2, <1>3, <1>4, <2>1
  <2>3. fields[f][2] = t
    BY <2>1 DEF String
  <2> HIDE DEF s, t
  <2>4. QED
    BY <2>1, <2>2, <2>3 DEF s
<1>5. ASSUME pc = "substituting", outcome = "refused"
      PROVE  \E f \in strings : ~ Resolved(input.fields[f][2])
  <2>1. fields = input.fields /\ env = Effective
    BY <1>2, <1>5 DEF SubstitutionInv
  <2>2. PICK f \in DOMAIN fields : IsString(fields[f]) /\ SubstitutedIn(env, fields[f][2]) = Refused
    BY <1>5 DEF SubstitutionInv
  <2>3. f \in strings /\ SubstitutedIn(env, input.fields[f][2]) = Refused
    BY <2>1, <2>2
  <2>4. QED
    BY <1>3, <2>1, <2>3
<1>6. QED
  BY <1>4, <1>5, Zenon DEF SubstitutionIsExpansion, Defined, Straight, Resolved

-----------------------------------------------------------------------------
(* The theorems.                                                           *)

\* What conversions return.
LEMMA ConversionTypes ==
  /\ \A v : CoerceFloat(v) \in Floats \cup {Refused}
  /\ \A v : CoerceInt(v) \in Int \cup {Refused}
  /\ \A n, d : d \in Floats => EnvFloat(n, d) \in Floats \cup {Refused}
  /\ \A n, d : d \in Int => EnvInt(n, d) \in Int \cup {Refused}
<1>1. \A v : CoerceFloat(v) \in Floats \cup {Refused}
  BY DEF CoerceFloat
<1>2. \A v : CoerceInt(v) \in Int \cup {Refused}
  BY <1>1 DEF CoerceInt, Floats
<1>3. QED
  BY <1>1, <1>2 DEF EnvFloat, EnvInt

\* The numbers of the runtime section are numbers, or what raises.
LEMMA RuntimeTypes ==
  /\ \A s \in DOMAIN Runtime : Runtime[s] \in Floats \cup {Refused}
  /\ Runtime.maxRequest \in Int \cup {Refused} /\ Runtime.maxResponse \in Int \cup {Refused}
<1>1. \A f, n, d : d \in Floats => RuntimeFloat(f, n, d) \in Floats \cup {Refused}
  BY ConversionTypes DEF RuntimeFloat
<1>2. \A f, n, d : d \in Int => RuntimeInt(f, n, d) \in Int \cup {Refused}
  BY ConversionTypes DEF RuntimeInt
<1>3. \A k \in Int : \A x \in Floats \cup {Refused} : Times(k, x) \in Floats \cup {Refused}
  BY DEF Times, Floats
<1>4. RefreshInterval \in Floats \cup {Refused}
  <2>1. EnvFloat("TOKEN_REFRESH_HOURS", 10) \in Floats \cup {Refused}
    BY ConversionTypes DEF Floats
  <2>2. ASSUME NEW x \in Floats \cup {Refused}
        PROVE  EnvFloat("TOKEN_REFRESH_SECONDS", x) \in Floats \cup {Refused}
    BY ConversionTypes DEF EnvFloat
  <2>3. QED
    BY <1>3, <2>1, <2>2, ConversionTypes DEF RefreshInterval
<1> DEFINE F == Floats \cup {Refused}
<1>5. Runtime.retry \in F /\ Runtime.margin \in F /\ Runtime.timeout \in F
  BY <1>1 DEF Runtime, Floats
<1>6. Runtime.interval \in F /\ Runtime.fallback \in F /\ Runtime.minimum \in F
  BY <1>4, ConversionTypes DEF Runtime
<1>7. Runtime.stale \in F
  <2>1. (IF AtMost(Times(3, Runtime.retry), 900) THEN 900 ELSE Times(3, Runtime.retry)) \in F
    <3>1. Times(3, Runtime.retry) \in F
      BY <1>3, <1>5
    <3>2. QED
      BY <3>1 DEF Floats
  <2>2. ASSUME NEW d \in F
        PROVE  RuntimeFloat("runtime.stale_token_warning_seconds", "STALE_TOKEN_WARNING_SECONDS", d) \in F
    BY ConversionTypes DEF RuntimeFloat, EnvFloat
  <2>3. QED
    BY <2>1, <2>2 DEF Runtime
<1>8. Runtime.maxRequest \in Int \cup {Refused} /\ Runtime.maxResponse \in Int \cup {Refused}
  BY <1>2 DEF Runtime
<1>9. QED
  BY <1>5, <1>6, <1>7, <1>8, SettingNames DEF Floats

\* What is served has been found safe.
LEMMA ServingIsSafe ==
  ASSUME ConfigurationInv
  PROVE  ServedIsSafe
<1> SUFFICES ASSUME outcome = "serving"
             PROVE  ServedIsSafe
  BY DEF ServedIsSafe
<1>1. pc = "main" /\ ParsedInv
  BY DEF ConfigurationInv, TypeOK
<1>2. NumbersAreGood(Runtime) /\ \A s \in DOMAIN Runtime : cfg[s] = Runtime[s]
  BY <1>1 DEF ParsedInv
<1>3. \A s \in DOMAIN Runtime : cfg[s] \in Floats
  BY <1>2, RuntimeTypes DEF NumbersAreGood
<1>4. /\ \A s \in {"retry", "interval", "fallback", "minimum", "timeout", "stale"} :
           cfg[s] \in {NaN, Inf} \/ cfg[s] \in Nat \ {0}
      /\ cfg.margin \in Nat \cup {NaN, Inf}
  BY <1>2, <1>3, SettingNames DEF NumbersAreGood, AtMost, Floats
<1>5. cfg.maxRequest \in Nat /\ cfg.maxResponse \in Nat /\ cfg.maxResponse >= 1024
  BY <1>2, RuntimeTypes, SettingNames DEF NumbersAreGood, AtMost
<1> DEFINE host == Field("server.bind_host", EnvString("PROXY_BIND_HOST", Blank))
           key == Field("server.proxy_api_key", EnvString("PROXY_API_KEY", Blank))
<1>6. /\ cfg.host = OrDefault(host, "127.0.0.1") /\ cfg.key = key
      /\ cfg.host \in Loopback \/ cfg.key # Blank \/ cfg.override
  BY <1>1, SettingNames DEF ParsedInv, Server, BindIsSecure
<1>7. cfg.host \in Loopback => Spelt(host) \in Loopback \cup {""}
  BY <1>6 DEF OrDefault, Spelt
<1>8. cfg.key # Blank =>
        \/ "server.proxy_api_key" \in DOMAIN fields /\ fields["server.proxy_api_key"] # Blank
        \/ "server.proxy_api_key" \notin DOMAIN fields /\ IsSet("PROXY_API_KEY")
  BY <1>6 DEF Field, EnvString, IsSet, Blank, String
<1>9. Encodes(cfg.request)
  BY <1>1 DEF ParsedInv
<1>10. QED
  BY <1>4, <1>5, <1>6, <1>7, <1>8, <1>9 DEF ServedIsSafe

\* A number that is not refused is that of the document, of the environment, or
\* the default.
LEMMA FirstSource ==
  ASSUME NEW f, NEW n, NEW default, RuntimeFloat(f, n, default) # Refused
  PROVE  RuntimeFloat(f, n, default) =
           IF f \in DOMAIN fields THEN CoerceFloat(fields[f])
           ELSE IF IsSet(n) THEN CoerceFloat(String(env[n]))
           ELSE default
BY DEF RuntimeFloat, EnvFloat

\* The refresh interval, if it is not refused.
LEMMA IntervalSource ==
  ASSUME RefreshInterval # Refused
  PROVE  RefreshInterval =
           IF Field("runtime.refresh_interval_seconds", Null) # Null
           THEN CoerceFloat(fields["runtime.refresh_interval_seconds"])
           ELSE IF IsSet("TOKEN_REFRESH_SECONDS") THEN CoerceFloat(String(env["TOKEN_REFRESH_SECONDS"]))
           ELSE IF IsSet("TOKEN_REFRESH_HOURS")
           THEN Times(3600, CoerceFloat(String(env["TOKEN_REFRESH_HOURS"])))
           ELSE 36000
<1>1. Times(3600, 10) = 36000
  BY DEF Times
<1>2. QED
  BY <1>1 DEF RefreshInterval, EnvFloat, Field

\* Three retries are more than fifteen minutes when one is more than five.
LEMMA ThreeRetries ==
  ASSUME NEW x
  PROVE  AtMost(Times(3, x), 900) <=> AtMost(x, 300)
<1>1. CASE x \in Int
  <2>1. Times(3, x) = 3 * x /\ 3 * x \in Int /\ (3 * x <= 900 <=> x <= 300)
    BY <1>1 DEF Times
  <2>2. QED
    BY <1>1, <2>1 DEF AtMost
<1>2. CASE x \notin Int
  BY <1>2 DEF AtMost, Times
<1>3. QED
  BY <1>1, <1>2

\* The numbers that have been taken come from where they should.
LEMMA SettingsAreSourced ==
  ASSUME ConfigurationInv
  PROVE  SettingsHaveTheirSource
<1> SUFFICES ASSUME pc = "server"
             PROVE  SettingsHaveTheirSource
  BY DEF SettingsHaveTheirSource
<1>1. env = Effective
  BY WholeFile DEF ConfigurationInv, EnvironmentInv
<1>2. NumbersAreGood(Runtime) /\ \A s \in DOMAIN Runtime : cfg[s] = Runtime[s]
  BY DEF ConfigurationInv, ParsedInv
<1>3. /\ cfg.retry = Runtime.retry /\ cfg.margin = Runtime.margin /\ cfg.interval = Runtime.interval
      /\ cfg.fallback = Runtime.fallback /\ cfg.stale = Runtime.stale
      /\ Runtime.retry # Refused /\ Runtime.margin # Refused /\ Runtime.interval # Refused
      /\ Runtime.stale # Refused
  BY <1>2, SettingNames DEF NumbersAreGood
<1> DEFINE First(f, n, default) ==
             IF f \in DOMAIN fields THEN CoerceFloat(fields[f])
             ELSE IF n \in DOMAIN Effective /\ Effective[n] # <<>> THEN CoerceFloat(String(Effective[n]))
             ELSE default
<1>4. ASSUME NEW f, NEW n, NEW default, RuntimeFloat(f, n, default) # Refused
      PROVE  RuntimeFloat(f, n, default) = First(f, n, default)
  BY <1>1, <1>4, FirstSource DEF IsSet
<1>5. cfg.retry = First("runtime.refresh_retry_seconds", "REFRESH_RETRY_SECONDS", 300)
      /\ cfg.margin = First("runtime.refresh_margin_seconds", "REFRESH_MARGIN_SECONDS", 300)
  <2>1. /\ Runtime.retry = RuntimeFloat("runtime.refresh_retry_seconds", "REFRESH_RETRY_SECONDS", 300)
        /\ Runtime.margin = RuntimeFloat("runtime.refresh_margin_seconds", "REFRESH_MARGIN_SECONDS", 300)
    BY DEF Runtime
  <2> HIDE DEF First
  <2>2. QED
    BY <1>3, <1>4, <2>1
<1>6. cfg.stale = First("runtime.stale_token_warning_seconds", "STALE_TOKEN_WARNING_SECONDS",
                        IF AtMost(cfg.retry, 300) THEN 900 ELSE Times(3, cfg.retry))
  <2>1. Runtime.stale = RuntimeFloat("runtime.stale_token_warning_seconds", "STALE_TOKEN_WARNING_SECONDS",
                          IF AtMost(Times(3, Runtime.retry), 900) THEN 900 ELSE Times(3, Runtime.retry))
    BY DEF Runtime
  <2>2. Runtime.stale = RuntimeFloat("runtime.stale_token_warning_seconds", "STALE_TOKEN_WARNING_SECONDS",
                          IF AtMost(cfg.retry, 300) THEN 900 ELSE Times(3, cfg.retry))
    BY <1>3, <2>1, ThreeRetries
  <2> HIDE DEF First
  <2>3. QED
    BY <1>3, <1>4, <2>2
<1>7. Runtime.interval = RefreshInterval
      /\ Runtime.fallback = IF "runtime.fallback_refresh_interval_seconds" \in DOMAIN fields
                            THEN CoerceFloat(fields["runtime.fallback_refresh_interval_seconds"])
                            ELSE RefreshInterval
  BY DEF Runtime
<1>8. RefreshInterval =
        IF Field("runtime.refresh_interval_seconds", Null) # Null
        THEN CoerceFloat(fields["runtime.refresh_interval_seconds"])
        ELSE IF "TOKEN_REFRESH_SECONDS" \in DOMAIN Effective /\ Effective["TOKEN_REFRESH_SECONDS"] # <<>>
        THEN CoerceFloat(String(Effective["TOKEN_REFRESH_SECONDS"]))
        ELSE IF "TOKEN_REFRESH_HOURS" \in DOMAIN Effective /\ Effective["TOKEN_REFRESH_HOURS"] # <<>>
        THEN Times(3600, CoerceFloat(String(Effective["TOKEN_REFRESH_HOURS"])))
        ELSE 36000
  BY <1>1, <1>3, <1>7, IntervalSource DEF IsSet
<1>9. QED
  BY <1>3, <1>5, <1>6, <1>7, <1>8 DEF SettingsHaveTheirSource

\* Of what is served, for every proxy.env, environment and document: no interval
\* is zero or negative and no margin negative, though each may be NaN or
\* infinite; the limits are finite; whoever can reach the port needs a key; and
\* the body of the authentication request, not that of the validation, can be
\* encoded.
THEOREM ServingIsSound == Spec => []ServedIsSafe
BY ConfigurationIsInvariant, ServingIsSafe, PTL

\* For every proxy.env, environment and document, each number of the runtime
\* section comes from its first source, the last line of proxy.env that names
\* the variable before the environment of the process.
THEOREM SettingsAreFirstSourced == Spec => []SettingsHaveTheirSource
BY ConfigurationIsInvariant, SettingsAreSourced, PTL

\* The environment keeps its variables, the document its fields.
THEOREM TypeCorrect == Spec => []TypeOK
BY ConfigurationIsInvariant, PTL DEF ConfigurationInv

\* For every proxy.env, environment and document, and whatever number of rounds:
\* a string comes out with every name replaced by its expansion, however the
\* names refer to each other, as long as they are defined, not circular and no
\* deeper than the rounds allow.  One that leads to an undefined name is
\* refused; one that leads round in a circle is refused or keeps a reference.
\* And the document is refused for no other reason.
THEOREM SubstitutionIsSound == Spec => []SubstitutionIsExpansion
BY ConfigurationIsInvariant, SubstitutionIsInvariant, SubstitutionExpands, PTL
=============================================================================
