-------------------------- MODULE MC_Configuration --------------------------
(* Three families of inputs: what substitution can meet, where a number can *)
(* come from, and documents in which one or two fields are out of the       *)
(* ordinary.                                                                *)
EXTENDS Configuration, TLC

Variables == {"A", "B", "C", "REFRESH_RETRY_SECONDS", "TOKEN_REFRESH_SECONDS",
              "TOKEN_REFRESH_HOURS", "PROXY_API_KEY", "PROXY_BIND_HOST"}

\* The smallest document that is accepted.
Sections == {"upstream", "auth", "auth.request", "auth.token"}
Smallest ==
  "schema_version" :> Number(1) @@ "upstream.base_url" :> Word("https://api")
    @@ "auth.token.json_pointer" :> Word("/token")

Input(file, environ, document) ==
  [file |-> file, environ |-> environ, objects |-> Sections, fields |-> document]
None == [n \in {} |-> <<>>]

\* Values of up to two pieces over three names, each defined or not.
Values ==
  {<<>>, <<Text("x")>>}
    \cup {<<Ref(n)>> : n \in {"A", "B", "C"}}
    \cup {<<Ref("A"), Text("x")>>, <<Ref("B"), Ref("C")>>, <<Ref("C"), Ref("A")>>}
Environments == UNION {[S -> Values] : S \in SUBSET {"A", "B", "C"}}
Substitutions ==
  {Input(<<>>, e, "auth.request.body_type" :> Word("raw") @@ "auth.request.body" :> String(s) @@ Smallest) :
     e \in Environments, s \in {<<Ref("A")>>, <<Text("x"), Ref("A"), Ref("B")>>}}

\* Up to two lines of proxy.env over an environment and a document.
Line(n, s) == <<"assign", n, s>>
SomeLines ==
  {<<"blank">>, <<"malformed">>, Line("REFRESH_RETRY_SECONDS", <<Numeral(400)>>),
   Line("TOKEN_REFRESH_SECONDS", <<>>), Line("TOKEN_REFRESH_SECONDS", <<Numeral(NaN)>>),
   Line("TOKEN_REFRESH_HOURS", <<Numeral(2)>>), Line("A", <<Numeral(7)>>)}
Files == UNION {[1 .. n -> SomeLines] : n \in 0 .. 2}
Sources ==
  {Input(file, e, d @@ Smallest) :
     file \in Files,
     e \in {None, "REFRESH_RETRY_SECONDS" :> <<Numeral(5)>>, "TOKEN_REFRESH_SECONDS" :> <<Numeral(60)>>,
            "TOKEN_REFRESH_HOURS" :> <<Text("x")>>},
     d \in {None, "runtime.refresh_interval_seconds" :> Null,
            "runtime.refresh_interval_seconds" :> String(<<Ref("A")>>),
            "runtime.refresh_retry_seconds" :> Number(0),
            "runtime.refresh_retry_seconds" :> Number(1)}}

\* What is out of the ordinary, field by field.
Numbers == {Null, Number(0), Number(-1), Number(1024), Number(NaN), Number(Inf), Word("x")}
Odd ==
  "schema_version" :> {Number(2)} @@
  "upstream.base_url" :> {Blank, Word("CHANGE_ME"), Null} @@
  "upstream.tls_verify" :> {Boolean(FALSE), Word("off"), Word("x"), Null} @@
  "upstream.ca_bundle" :> {Blank, Word("ca.pem"), Number(1)} @@
  "upstream.route_prefix" :> {Blank, Word("https://api")} @@
  "upstream.allowed_methods" :> {Null, Object, List(<<Word("TRACE")>>)} @@
  "upstream.allowed_paths" :> {List(<<Word("*")>>), List(<<>>)} @@
  "auth.base_url" :> {Word("https://auth"), Blank} @@
  "auth.tls_verify" :> {Boolean(TRUE), Null} @@
  "auth.ca_bundle" :> {Blank, Word("auth.pem")} @@
  "auth.request.method" :> {Word("TRACE"), Null} @@
  "auth.request.body_type" :> {Word(t) : t \in {"none", "json", "form", "raw", "x"}} \cup {Null} @@
  "auth.request.body" :> {Null, Blank, Object, Empty, List(<<>>), List(<<Word("x")>>), Word("x"), Number(1)} @@
  "auth.token.source" :> {Word("header"), Word("text"), Word("x")} @@
  "auth.token.json_pointer" :> {Blank, Word("token"), Null} @@
  "auth.token.header_name" :> {Blank} @@
  "auth.token.scheme" :> {Null, Number(1)} @@
  "auth.token.expires_in_json_pointer" :> {Word("/expires"), Word("x")} @@
  "auth.validation.enabled" :> {Word("true"), String(<<Numeral(1)>>), Word("x")} @@
  "auth.validation.expected_statuses" :> {Null, List(<<Number(99)>>), List(<<>>)} @@
  "runtime.refresh_retry_seconds" :> Numbers @@
  "runtime.refresh_interval_seconds" :> Numbers @@
  "runtime.fallback_refresh_interval_seconds" :> Numbers @@
  "runtime.refresh_margin_seconds" :> Numbers @@
  "runtime.min_refresh_interval_seconds" :> Numbers @@
  "runtime.http_timeout_seconds" :> Numbers @@
  "runtime.max_request_bytes" :> Numbers @@
  "runtime.max_response_bytes" :> Numbers @@
  "runtime.stale_token_warning_seconds" :> Numbers @@
  "runtime.log_level" :> {Blank, Word("DEBUG"), Word("x")} @@
  "server.proxy_api_key" :> {Null, Blank, Word("secret"), Word("CHANGE_ME")} @@
  "server.bind_host" :> {Blank, Word("0.0.0.0")} @@
  "server.bind_port" :> {Number(0), Number(80), Number(65536)} @@
  "server.allow_unauthenticated_nonloopback" :> {Boolean(TRUE), Word("x")}

\* Fields that bear on each other, of which two are varied at once.
Related ==
  {{"upstream.tls_verify", "upstream.ca_bundle", "auth.tls_verify", "auth.ca_bundle"},
   {"auth.request.body_type", "auth.request.body"},
   {"auth.token.source", "auth.token.json_pointer", "auth.token.header_name"},
   {"runtime.refresh_interval_seconds", "runtime.fallback_refresh_interval_seconds"},
   {"runtime.refresh_retry_seconds", "runtime.stale_token_warning_seconds"},
   {"server.proxy_api_key", "server.bind_host", "server.allow_unauthenticated_nonloopback"}}
Deviating(f) == {f :> v : v \in Odd[f]}
Deviations ==
  {None} \cup UNION {Deviating(f) : f \in DOMAIN Odd}
    \cup {d @@ e : <<d, e>> \in UNION {Deviating(f) \X Deviating(g) : <<f, g>> \in UNION {S \X S : S \in Related}}}
Keys ==
  {None, "PROXY_API_KEY" :> <<Text("secret")>> @@ "PROXY_BIND_HOST" :> <<Text("0.0.0.0")>>,
   "PROXY_API_KEY" :> <<>> @@ "PROXY_BIND_HOST" :> <<Text("0.0.0.0")>>}
Documents == {Input(<<>>, e, d @@ Smallest) : e \in Keys, d \in Deviations}

SomeInputs == Substitutions \cup Sources \cup Documents
=============================================================================
