--------------------------- MODULE Configuration ---------------------------
(***************************************************************************)
(* From the start of the process to the moment it may serve: load_config   *)
(* and parse_config (bearer_proxy/config.py) under main (app.py), with the *)
(* checks that run_server makes before it listens.  proxy.env is read into *)
(* os.environ line by line, proxy.json is read, its ${NAME} placeholders   *)
(* are substituted, and the sections are parsed one after another.  What   *)
(* goes wrong on the way ends the process with status 1.                   *)
(*                                                                         *)
(* A JSON value is a pair of its type and its content; a string is a       *)
(* sequence of pieces: references, numerals and other texts.  Wording of   *)
(* messages and the spelling of texts (case, blanks) are left out.         *)
(***************************************************************************)
EXTENDS Integers, SequencesExt

CONSTANTS
  Inputs,      \* [file, environ, objects, fields]: what the process finds
  Names,       \* names of environment variables
  Rounds,      \* of _substitute_string: 20
  Urls, Placeholders, Pointers, \* texts that are a base URL, CHANGE_ME and the like, JSON Pointers
  Loopback,    \* hosts for which is_loopback_bind holds
  NaN, Inf,    \* float("nan") and float("inf")
  Refused      \* what raises: ConfigError, most of the time

ASSUME ConfigurationAssumption ==
  /\ Rounds \in Nat \ {0}
  /\ IsFiniteSet(Names)
  /\ Cardinality({NaN, Inf, Refused}) = 3
  /\ Urls \cap Placeholders = {}

Methods == {"GET", "POST", "PUT", "PATCH", "DELETE", "HEAD"}
BodyTypes == {"none", "json", "form", "raw"}
TokenSources == {"json", "header", "text"}
Levels == {"DEBUG", "INFO", "WARNING", "ERROR", "CRITICAL"}

\* JSON values and the pieces of a string.
Null == <<"null">>
Object == <<"object">>              \* one with members
Empty == <<"object", "empty">>      \* {}
Number(x) == <<"number", x>>
Boolean(b) == <<"boolean", b>>
List(s) == <<"list", s>>
String(pieces) == <<"string", pieces>>
Ref(n) == <<"ref", n>>
Numeral(x) == <<"numeral", x>>
Text(t) == <<"text", t>>
Word(t) == String(<<Text(t)>>)
Blank == String(<<>>)

\* What float() may return.
Floats == Int \cup {NaN, Inf}

\* Files and environments in terms of these.
Pieces == ({"ref"} \X Names) \cup ({"numeral"} \X Floats) \cup ({"text"} \X STRING)
Lines == {<<"blank">>, <<"malformed">>} \cup ({"assign"} \X Names \X Seq(Pieces))

ASSUME InputsAssumption ==
  /\ Refused \notin Seq(Pieces)
  /\ \A i \in Inputs :
       /\ i.file \in Seq(Lines)
       /\ DOMAIN i.environ \subseteq Names
       /\ i.environ \in [DOMAIN i.environ -> Seq(Pieces)]
       /\ \A f \in DOMAIN i.fields : i.fields[f][1] = "string" => i.fields[f][2] \in Seq(Pieces)

\* f, and g where f says nothing.
Over(f, g) == [x \in DOMAIN f \cup DOMAIN g |-> IF x \in DOMAIN f THEN f[x] ELSE g[x]]

VARIABLES
  input,    \* the files and the environment the process was started with
  line,     \* lines of proxy.env it has read
  env,      \* os.environ
  fields,   \* the document's fields, substituted when that has been done
  cfg,      \* what has been parsed
  pc,       \* where load_config or main is
  outcome   \* "none" while it goes on

vars == <<input, line, env, fields, cfg, pc, outcome>>

Init ==
  /\ input \in Inputs
  /\ line = 0
  /\ env = input.environ
  /\ fields = input.fields
  /\ cfg = <<>>
  /\ pc = "environment"
  /\ outcome = "none"

Refuse == outcome' = "refused" /\ UNCHANGED pc

-----------------------------------------------------------------------------
(* The files.                                                              *)

\* A faulty ReadLine: what the environment has is not overridden.
ReadLineGently ==
  /\ pc = "environment" /\ outcome = "none" /\ line < Len(input.file)
  /\ LET l == input.file[line + 1]
     IN  IF l[1] = "malformed"
         THEN Refuse /\ UNCHANGED env
         ELSE /\ env' = IF l[1] = "assign" THEN Over(env, [n \in {l[2]} |-> l[3]]) ELSE env
              /\ UNCHANGED <<pc, outcome>>
  /\ line' = line + 1
  /\ UNCHANGED <<input, fields, cfg>>

\* One line of load_env_file: nothing, KEY=VALUE, or neither.
ReadLine ==
  /\ pc = "environment" /\ outcome = "none" /\ line < Len(input.file)
  /\ LET l == input.file[line + 1]
     IN  IF l[1] = "malformed"
         THEN Refuse /\ UNCHANGED env
         ELSE /\ env' = IF l[1] = "assign" THEN Over([n \in {l[2]} |-> l[3]], env) ELSE env
              /\ UNCHANGED <<pc, outcome>>
  /\ line' = line + 1
  /\ UNCHANGED <<input, fields, cfg>>

\* Its end, and the first half of load_json_config.  Either file may be
\* unreadable, and what is in proxy.json not JSON.
LoadJson ==
  /\ pc = "environment" /\ outcome = "none"
  /\ \/ line = Len(input.file) /\ pc' = "substituting" /\ UNCHANGED outcome
     \/ line \in {0, Len(input.file)} /\ Refuse
  /\ UNCHANGED <<input, line, env, fields, cfg>>

-----------------------------------------------------------------------------
(* Substitution.                                                           *)

RefsIn(s) == {s[i][2] : i \in {j \in DOMAIN s : s[j][1] = "ref"}}

\* _ENV_PATTERN.sub(replace, s).  A round looks at the whole new string again;
\* values that spell a reference only together with their neighbours are left out.
Replaced(s) ==
  FlattenSeq([i \in DOMAIN s |-> IF s[i][1] = "ref" THEN env[s[i][2]] ELSE <<s[i]>>])

\* A faulty Substituted: what is left after the last round is taken.
SubstitutedAnyway(s) ==
  LET after[i \in 0 .. Rounds] ==
        IF i = 0 THEN s
        ELSE IF after[i - 1] = Refused \/ ~ RefsIn(after[i - 1]) \subseteq DOMAIN env THEN Refused
        ELSE Replaced(after[i - 1])
  IN  after[Rounds]

\* _substitute_string: the first string that a round leaves as it is.
Substituted(s) ==
  LET after[i \in 0 .. Rounds] ==
        IF i = 0 THEN s
        ELSE IF after[i - 1] = Refused \/ ~ RefsIn(after[i - 1]) \subseteq DOMAIN env THEN Refused
        ELSE Replaced(after[i - 1])
  IN  IF after[Rounds] = after[Rounds - 1] THEN after[Rounds] ELSE Refused

IsString(v) == v[1] = "string"

\* A faulty Substitute: what is not a string is lost.
SubstituteStringsOnly ==
  /\ pc = "substituting" /\ outcome = "none"
  /\ LET strings == {f \in DOMAIN fields : IsString(fields[f])}
         results == [f \in strings |-> Substituted(fields[f][2])]
     IN  IF \E f \in strings : results[f] = Refused
         THEN Refuse /\ UNCHANGED fields
         ELSE fields' = [f \in strings |-> String(results[f])] /\ pc' = "upstream" /\ UNCHANGED outcome
  /\ UNCHANGED <<input, line, env, cfg>>

\* substitute_env on the whole document; numbers, booleans and null stay.
Substitute ==
  /\ pc = "substituting" /\ outcome = "none"
  /\ LET strings == {f \in DOMAIN fields : IsString(fields[f])}
         results == [f \in strings |-> Substituted(fields[f][2])]
     IN  IF \E f \in strings : results[f] = Refused
         THEN Refuse /\ UNCHANGED fields
         ELSE /\ fields' = Over([f \in strings |-> String(results[f])], fields)
              /\ pc' = "upstream"
              /\ UNCHANGED outcome
  /\ UNCHANGED <<input, line, env, cfg>>

-----------------------------------------------------------------------------
(* Conversions.  They return Refused where the code raises.                *)

\* _field
Field(f, default) == IF f \in DOMAIN fields THEN fields[f] ELSE default

\* The text a string spells; a string with a reference in it spells none of interest.
Spelt(v) ==
  IF v = Blank THEN ""
  ELSE IF IsString(v) /\ Len(v[2]) = 1 /\ v[2][1][1] = "text" THEN v[2][1][2]
  ELSE "something else"

\* coerce_float and coerce_int; only the first takes what is not finite.
CoerceFloat(v) ==
  IF v[1] = "number" /\ v[2] \in Floats THEN v[2]
  ELSE IF IsString(v) /\ Len(v[2]) = 1 /\ v[2][1][1] = "numeral" /\ v[2][1][2] \in Floats
  THEN v[2][1][2]
  ELSE Refused
CoerceInt(v) == LET x == CoerceFloat(v) IN IF x \in {NaN, Inf} THEN Refused ELSE x

CoerceBool(v, default) ==
  CASE v = Null -> default
    [] v[1] = "boolean" -> v[2]
    [] v = String(<<Numeral(1)>>) \/ Spelt(v) \in {"true", "yes", "on"} -> TRUE
    [] v = String(<<Numeral(0)>>) \/ Spelt(v) \in {"false", "no", "off"} -> FALSE
    [] OTHER -> Refused

\* os.getenv(name, default) as a string
EnvString(n, default) == IF n \in DOMAIN env THEN String(env[n]) ELSE default

\* env_float, env_int and env_bool: a blank value is none.
IsSet(n) == n \in DOMAIN env /\ env[n] # <<>>
EnvFloat(n, default) == IF IsSet(n) THEN CoerceFloat(String(env[n])) ELSE default
EnvInt(n, default) == IF IsSet(n) THEN CoerceInt(String(env[n])) ELSE default
EnvBool(n, default) == IF IsSet(n) THEN CoerceBool(String(env[n]), default) ELSE default

\* validate_base_url; normalize_path takes any text that is not a URL.
BaseUrl(v) == IF Spelt(v) \in Urls THEN Spelt(v) ELSE Refused
IsPath(v) == IsString(v) /\ v # Blank /\ Spelt(v) \notin Urls
IsPattern(v) == IsPath(v) /\ Spelt(v) # "*"
IsPointer(v) == IsString(v) /\ (v = Blank \/ Spelt(v) \in Pointers)

\* _string_list and _status_list, whose default is taken for null.
ListOf(f, Good(_)) ==
  LET v == Field(f, Null)
  IN  v = Null \/ (v[1] = "list" /\ \A i \in DOMAIN v[2] : Good(v[2][i]))
IsMethod(v) == Spelt(v) \in Methods
IsStatus(v) == CoerceInt(v) \in 100 .. 599

-----------------------------------------------------------------------------
(* The sections.                                                           *)

\* A section is taken as a whole or refused as a whole.
Section(here, next, accepted, settings) ==
  /\ pc = here /\ outcome = "none"
  /\ IF accepted
     THEN cfg' = Over(settings, cfg) /\ pc' = next /\ UNCHANGED outcome
     ELSE Refuse /\ UNCHANGED cfg
  /\ UNCHANGED <<input, line, env, fields>>

\* _tls_config; a file name stands for the file it leads to.
Tls(verify, bundle, default) ==
  [verify |-> CoerceBool(Field(verify, Boolean(default.verify)), default.verify),
   bundle |-> Field(bundle, default.bundle)]
TlsIsGood(tls) == tls.verify # Refused /\ (tls.bundle = Null \/ IsString(tls.bundle))

PlatformTrust == [verify |-> TRUE, bundle |-> Null]

\* The first half of parse_config.
ParseUpstream ==
  LET base == BaseUrl(Field("upstream.base_url", EnvString("UPSTREAM_BASE_URL", Blank)))
      tls  == Tls("upstream.tls_verify", "upstream.ca_bundle", PlatformTrust)
  IN  Section("upstream", "auth",
        /\ Field("schema_version", Null) = Number(1)
        /\ {"upstream", "auth"} \subseteq input.objects
        /\ base # Refused /\ TlsIsGood(tls)
        /\ IsPath(Field("upstream.route_prefix", Word("/proxy")))
        /\ ListOf("upstream.allowed_methods", IsMethod)
        /\ ListOf("upstream.allowed_paths", IsPattern)
        /\ ListOf("upstream.request_headers", IsString)
        /\ ListOf("upstream.response_headers", IsString),
        [upstreamUrl |-> base, upstreamTls |-> tls])

\* What _request_config and _validation_config have in common.
Request(section, method) ==
  [method |-> Spelt(Field(section \o ".method", Word(method))),
   type |-> LET t == Field(section \o ".body_type", Null) IN IF t = Null THEN "none" ELSE Spelt(t),
   body |-> Field(section \o ".body", Null)]
RequestIsGood(section, request) ==
  /\ request.method \in Methods
  /\ IsPath(Field(section \o ".path", Word("/")))
  /\ Field(section \o ".headers", Empty)[1] \in {"object", "null"}
  /\ request.type \in BodyTypes

\* Only _request_config compares the body with its type.
BodyFits(request) ==
  /\ request.type = "none" => request.body \in {Null, Blank, Empty, List(<<>>)}
  /\ request.type = "raw" => request.body = Null \/ IsString(request.body)
  /\ request.type = "form" => request.body = Null \/ request.body[1] = "object"

\* _token_config
TokenIsGood ==
  LET source  == Spelt(Field("auth.token.source", Word("json")))
      name    == Field("auth.token.header_name", Word("Authorization"))
      scheme  == Field("auth.token.scheme", Word("Bearer"))
      expires == Field("auth.token.expires_in_json_pointer", Null)
      given   == Field("auth.token.response_header_name", Null)
      Named(v) == IsString(v) /\ v # Blank
  IN  /\ source \in TokenSources
      /\ Named(name)
      /\ scheme = Null \/ IsString(scheme)
      /\ source = "json" => IsPointer(Field("auth.token.json_pointer", Null))
      /\ source = "header" => Named(IF given = Null THEN name ELSE given)
      /\ expires = Null \/ IsPointer(expires)

\* The second half of parse_config, up to the runtime section ...
Auth ==
  [authTls |-> Tls("auth.tls_verify", "auth.ca_bundle", cfg.upstreamTls),
   request |-> Request("auth.request", "POST"),
   validation |-> [enabled |-> CoerceBool(Field("auth.validation.enabled", Boolean(FALSE)), FALSE),
                   request |-> Request("auth.validation", "GET")]]

\* ... with its conditions.
AuthIsGood(a) ==
  /\ BaseUrl(Field("auth.base_url", Word(cfg.upstreamUrl))) # Refused
  /\ TlsIsGood(a.authTls)
  /\ {"auth.request", "auth.token"} \subseteq input.objects
  /\ RequestIsGood("auth.request", a.request) /\ BodyFits(a.request)
  /\ TokenIsGood
  /\ a.validation.enabled # Refused
  /\ RequestIsGood("auth.validation", a.validation.request)
  /\ ListOf("auth.validation.expected_statuses", IsStatus)

ParseAuth == Section("auth", "runtime", AuthIsGood(Auth), Auth)

\* Comparisons with a float: every one with NaN is false.
AtMost(x, n) == x \in Int /\ x <= n
Times(k, x) == IF x \in Int THEN k * x ELSE x

\* _field(raw, f, env_float(n, default)): the variable is converted first, used or not.
RuntimeFloat(f, n, default) ==
  LET fromEnv == EnvFloat(n, default)
  IN  IF fromEnv = Refused \/ f \notin DOMAIN fields THEN fromEnv ELSE CoerceFloat(fields[f])
RuntimeInt(f, n, default) ==
  LET fromEnv == EnvInt(n, default)
  IN  IF fromEnv = Refused \/ f \notin DOMAIN fields THEN fromEnv ELSE CoerceInt(fields[f])

\* Hours and seconds of the environment are both converted, if one is needed.
RefreshInterval ==
  LET given == Field("runtime.refresh_interval_seconds", Null)
      hours == EnvFloat("TOKEN_REFRESH_HOURS", 10)
  IN  IF given # Null THEN CoerceFloat(given)
      ELSE IF hours = Refused THEN Refused
      ELSE EnvFloat("TOKEN_REFRESH_SECONDS", Times(3600, hours))

\* The numbers of _runtime_config.
Runtime ==
  LET retry    == RuntimeFloat("runtime.refresh_retry_seconds", "REFRESH_RETRY_SECONDS", 300)
      interval == RefreshInterval
      threeRetries == IF AtMost(Times(3, retry), 900) THEN 900 ELSE Times(3, retry)
  IN  [retry    |-> retry,
       interval |-> interval,
       fallback |-> IF "runtime.fallback_refresh_interval_seconds" \in DOMAIN fields
                    THEN CoerceFloat(fields["runtime.fallback_refresh_interval_seconds"])
                    ELSE interval,
       margin   |-> RuntimeFloat("runtime.refresh_margin_seconds", "REFRESH_MARGIN_SECONDS", 300),
       minimum  |-> CoerceFloat(Field("runtime.min_refresh_interval_seconds", Number(1))),
       timeout  |-> RuntimeFloat("runtime.http_timeout_seconds", "HTTP_TIMEOUT_SECONDS", 30),
       maxRequest  |-> RuntimeInt("runtime.max_request_bytes", "MAX_REQUEST_BYTES", 1048576),
       maxResponse |-> RuntimeInt("runtime.max_response_bytes", "MAX_RESPONSE_BYTES", 10485760),
       stale    |-> RuntimeFloat("runtime.stale_token_warning_seconds",
                                 "STALE_TOKEN_WARNING_SECONDS", threeRetries)]

\* A faulty NumbersAreGood: the smallest interval is not looked at.
NumbersLookGood(r) ==
  /\ \A s \in DOMAIN r : r[s] # Refused
  /\ \A s \in {"retry", "interval", "fallback", "timeout", "stale"} : ~ AtMost(r[s], 0)
  /\ ~ AtMost(r.margin, -1) /\ ~ AtMost(r.maxRequest, -1) /\ ~ AtMost(r.maxResponse, 1023)

\* ... and its conditions.
NumbersAreGood(r) ==
  /\ \A s \in DOMAIN r : r[s] # Refused
  /\ \A s \in {"retry", "interval", "fallback", "minimum", "timeout", "stale"} : ~ AtMost(r[s], 0)
  /\ ~ AtMost(r.margin, -1) /\ ~ AtMost(r.maxRequest, -1) /\ ~ AtMost(r.maxResponse, 1023)

\* str(...).strip() or default
OrDefault(v, default) == IF v = Blank THEN default ELSE Spelt(v)

ParseRuntime ==
  Section("runtime", "server", NumbersAreGood(Runtime),
    Over(Runtime, [level |-> OrDefault(Field("runtime.log_level", EnvString("LOG_LEVEL", Blank)), "INFO")]))

\* The server section, its conditions ...
Server ==
  LET allow == EnvBool("ALLOW_UNAUTHENTICATED_NONLOOPBACK", FALSE)
  IN  [host |-> OrDefault(Field("server.bind_host", EnvString("PROXY_BIND_HOST", Blank)), "127.0.0.1"),
       port |-> RuntimeInt("server.bind_port", "PROXY_PORT", 8787),
       key  |-> Field("server.proxy_api_key", EnvString("PROXY_API_KEY", Blank)),
       override |->
         IF allow = Refused THEN Refused
         ELSE CoerceBool(Field("server.allow_unauthenticated_nonloopback", Boolean(allow)), FALSE)]

ServerIsGood(s) ==
  /\ IsString(s.key) /\ Spelt(s.key) \notin Placeholders
  /\ s.port \in 1 .. 65535
  /\ s.override # Refused

\* ... and what is taken over.
ParseServer == Section("server", "main", ServerIsGood(Server), Server)

-----------------------------------------------------------------------------
(* main: what is done with the configuration.                              *)

\* validate_bind_security; the blank key is no key.
BindIsSecure == cfg.host \in Loopback \/ cfg.key # Blank \/ cfg.override

\* build_ssl_context, for a bundle that is there or not.
ContextsAreBuilt(there) ==
  \A tls \in {cfg.authTls, cfg.upstreamTls} : tls.verify /\ tls.bundle \notin {Null, Blank} => there

\* --check-config, --test-auth (which does not look at the address), or neither.
Main ==
  /\ pc = "main" /\ outcome = "none"
  /\ \E there \in BOOLEAN, how \in {"checked", "authenticating", "serving"} :
       IF /\ cfg.level \in Levels
          /\ how # "authenticating" => BindIsSecure
          /\ ContextsAreBuilt(there)
       THEN outcome' = how /\ UNCHANGED pc
       ELSE Refuse
  /\ UNCHANGED <<input, line, env, fields, cfg>>

Next ==
  \/ ReadLine \/ LoadJson \/ Substitute
  \/ ParseUpstream \/ ParseAuth \/ ParseRuntime \/ ParseServer \/ Main

Spec == Init /\ [][Next]_vars

-----------------------------------------------------------------------------
(* References.                                                             *)

\* What the environment is when proxy.env has been read: the last line that
\* names a variable gives its value, before what the process was started with.
Assigning(n) == {i \in DOMAIN input.file : input.file[i][1] = "assign" /\ input.file[i][2] = n}
Effective ==
  [n \in DOMAIN input.environ \cup {m \in Names : Assigning(m) # {}} |->
     IF Assigning(n) = {} THEN input.environ[n]
     ELSE input.file[Max(Assigning(n))][3]]

\* The names that a string leads to.
Reached(s) ==
  LET within[k \in 0 .. Cardinality(Names)] ==
        IF k = 0 THEN RefsIn(s)
        ELSE within[k - 1] \cup
               UNION {RefsIn(Effective[n]) : n \in within[k - 1] \cap DOMAIN Effective}
  IN  within[Cardinality(Names)]
Circular(n) == n \in DOMAIN Effective /\ n \in Reached(Effective[n])

\* The string with every name replaced by its own expansion, names that refer
\* to nothing first, and the length of the longest chain of names below it.
Joined(s, whole) == FlattenSeq([i \in DOMAIN s |-> IF s[i][1] = "ref" THEN whole[s[i][2]] ELSE <<s[i]>>])
Expansion(s) ==
  LET whole[k \in 0 .. Cardinality(Names)] ==
        [n \in DOMAIN Effective |-> IF k = 0 THEN <<>> ELSE Joined(Effective[n], whole[k - 1])]
  IN  Joined(s, whole[Cardinality(Names)])
Height(s) ==
  LET high[k \in 0 .. Cardinality(Names)] ==
        IF k = 0 THEN RefsIn(s) ELSE UNION {RefsIn(Effective[n]) : n \in high[k - 1]}
  IN  Cardinality({k \in 0 .. Cardinality(Names) : high[k] # {}})

-----------------------------------------------------------------------------
(* Properties.                                                             *)

\* The types; a failure leaves pc where it was.
TypeOK ==
  /\ line \in 0 .. Len(input.file)
  /\ DOMAIN input.environ \subseteq DOMAIN env /\ DOMAIN env \subseteq Names
  /\ DOMAIN fields = DOMAIN input.fields
  /\ pc \in {"environment", "substituting", "upstream", "auth", "runtime", "server", "main"}
  /\ outcome \in {"none", "refused", "checked", "authenticating", "serving"}
  /\ outcome \notin {"none", "refused"} => pc = "main"

\* "${NAME} placeholders ... are resolved recursively" and "missing
\* substitutions fail validation" (docs/CONFIG_REFERENCE.md:3-5).  A string
\* whose references are defined and not circular becomes its expansion, if it
\* is no deeper than the rounds allow; one that leads to an undefined name is
\* refused.  One that leads round in a circle is refused too, or comes out
\* with references in it: the code takes a string for finished when a round
\* leaves it as it was, and "${A}" with A="${A}" is left so.
SubstitutionIsExpansion ==
  LET strings == {f \in DOMAIN fields : IsString(input.fields[f])}
      Defined(s) == Reached(s) \subseteq DOMAIN Effective
      Straight(s) == Defined(s) /\ \A n \in Reached(s) : ~ Circular(n)
      Resolved(s) == Straight(s) /\ Height(s) < Rounds
  IN  /\ pc = "upstream" =>
           \A f \in strings :
             LET s == input.fields[f][2]
             IN  /\ Defined(s)
                 /\ Straight(s) => Height(s) < Rounds /\ fields[f] = String(Expansion(s))
                 /\ ~ Straight(s) => RefsIn(fields[f][2]) # {}
      /\ pc = "substituting" /\ outcome = "refused" =>
           \E f \in strings : ~ Resolved(input.fields[f][2])

\* Every number is that of its first source: the document, proxy.env, the
\* environment of the process, the default; a blank variable counts as none.
\* For the refresh interval a null is as good as nothing, and seconds come
\* before hours ("file values intentionally override env", config.py:154).
SettingsHaveTheirSource ==
  LET Has(n) == n \in DOMAIN Effective /\ Effective[n] # <<>>
      Of(n)  == CoerceFloat(String(Effective[n]))
      First(f, n, default) ==
        IF f \in DOMAIN fields THEN CoerceFloat(fields[f])
        ELSE IF Has(n) THEN Of(n)
        ELSE default
      interval ==
        IF Field("runtime.refresh_interval_seconds", Null) # Null
        THEN CoerceFloat(fields["runtime.refresh_interval_seconds"])
        ELSE IF Has("TOKEN_REFRESH_SECONDS") THEN Of("TOKEN_REFRESH_SECONDS")
        ELSE IF Has("TOKEN_REFRESH_HOURS") THEN Times(3600, Of("TOKEN_REFRESH_HOURS"))
        ELSE 36000
  IN  pc = "server" =>
        /\ cfg.retry = First("runtime.refresh_retry_seconds", "REFRESH_RETRY_SECONDS", 300)
        /\ cfg.margin = First("runtime.refresh_margin_seconds", "REFRESH_MARGIN_SECONDS", 300)
        /\ cfg.interval = interval
        /\ cfg.fallback = IF "runtime.fallback_refresh_interval_seconds" \in DOMAIN fields
                          THEN CoerceFloat(fields["runtime.fallback_refresh_interval_seconds"])
                          ELSE interval
        /\ cfg.stale = First("runtime.stale_token_warning_seconds", "STALE_TOKEN_WARNING_SECONDS",
                             IF AtMost(cfg.retry, 300) THEN 900 ELSE Times(3, cfg.retry))

\* Whether build_request_body (auth.py) can encode a body: json encodes
\* anything; form and raw take whatever is false for nothing, and look into
\* the rest.
IsFalse(v) == v \in {Null, Blank, Empty, List(<<>>), Boolean(FALSE), Number(0)}
Encodes(request) ==
  /\ request.type = "form" => IsFalse(request.body) \/ request.body[1] = "object"
  /\ request.type = "raw" => IsFalse(request.body) \/ IsString(request.body)

\* Of every configuration that is served: no interval is zero or negative and no
\* margin negative (TokenManager's ConfigAssumption; NaN and infinity are let
\* through, although config.py:505 says "must be positive and safe"); the limits are finite; whoever can reach the port needs a key that
\* is not blank, unless somebody has said otherwise; and the body of the
\* authentication request can be encoded.  Nothing of the kind holds of the body
\* of auth.validation, which may make every refresh fail.
ServedIsSafe ==
  outcome = "serving" =>
    /\ \A s \in {"retry", "interval", "fallback", "minimum", "timeout", "stale"} :
         cfg[s] \in {NaN, Inf} \/ cfg[s] \in Nat \ {0}
    /\ cfg.margin \in Nat \cup {NaN, Inf}
    /\ cfg.maxRequest \in Nat /\ cfg.maxResponse \in Nat /\ cfg.maxResponse >= 1024
    /\ \/ Spelt(Field("server.bind_host", EnvString("PROXY_BIND_HOST", Blank))) \in Loopback \cup {""}
       \/ "server.proxy_api_key" \in DOMAIN fields /\ fields["server.proxy_api_key"] # Blank
       \/ "server.proxy_api_key" \notin DOMAIN fields /\ IsSet("PROXY_API_KEY")
       \/ cfg.override
    /\ Encodes(cfg.request)
=============================================================================
