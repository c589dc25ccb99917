---------------------------- MODULE RoutePolicy ----------------------------
(***************************************************************************)
(* Which requests may go to the upstream: SecurityPolicy                   *)
(* (bearer_proxy/security.py).  A path is the sequence of its segments:    *)
(* "/a/b" is <<"a", "b">>, "/" is <<"">>, and a slash at the end is an     *)
(* empty segment there.  What a segment decodes to is given, as the set of *)
(* its parts: %2F makes several of one.                                    *)
(***************************************************************************)
EXTENDS Integers, SequencesExt

CONSTANTS
  AllowedMethods,  \* upstream.allowed_methods
  RoutePrefix,     \* upstream.route_prefix
  AllowedPaths,    \* upstream.allowed_paths
  AuthPath,        \* auth.request.path
  Segments,        \* the segments of paths that clients ask for
  Decoded          \* the parts of each of them, unquoted

Commands == {"GET", "POST", "PUT", "PATCH", "DELETE", "HEAD", "OPTIONS"}

\* normalize_path makes every path begin with a slash.  The prefix "/" would
\* ask for paths that begin with two, which the server has made one by then:
\* with it no request would be allowed.
ASSUME PolicyAssumption ==
  /\ AllowedMethods \subseteq Commands \ {"OPTIONS"}
  /\ RoutePrefix \in Seq(STRING) \ {<<>>, <<"">>}
  /\ AllowedPaths \subseteq Seq(STRING) \ {<<>>}
  /\ Segments \subseteq STRING /\ DOMAIN Decoded = Segments

\* path.startswith(prefix + "/"), and what is left without the prefix.
Routed(path) == IsStrictPrefix(RoutePrefix, path)
UpstreamPath(path) == SubSeq(path, Len(RoutePrefix) + 1, Len(path))

\* _reject_unsafe_path: a backslash, a NUL, or a part that is a dot or two.
UnsafeParts == {".", "..", "with a backslash", "with a NUL"}
Unsafe(path) == \E i \in DOMAIN path : Decoded[path[i]] \cap UnsafeParts # {}

\* A faulty PathAllowed: "/a/*" is compared segment by segment.
PathAllowedAtOneLevel(path) ==
  \E p \in AllowedPaths :
    \/ p \in {<<"">>, path}
    \/ p[Len(p)] = "*" /\ Len(p) = Len(path) /\ IsPrefix(Front(p), path)

\* _path_allowed: "/" allows everything, "/a/*" what begins with "/a/".
PathAllowed(path) ==
  \E p \in AllowedPaths :
    \/ p \in {<<"">>, path}
    \/ p[Len(p)] = "*" /\ IsStrictPrefix(Front(p), path)

\* inbound_to_upstream, for a target that has been parsed.
Permitted(method, path) ==
  /\ method \in AllowedMethods
  /\ Routed(path)
  /\ ~ Unsafe(UpstreamPath(path))
  /\ UpstreamPath(path) # AuthPath
  /\ PathAllowed(UpstreamPath(path))
=============================================================================
