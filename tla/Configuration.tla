---------------------------- MODULE Configuration ----------------------------
(***************************************************************************)
(* What config.ts accepts (src/src/config.ts), with the command line that  *)
(* goes before it (src/src/cli/args.ts).  A setting is what the checks     *)
(* tell apart: a URL by how canonicalUrl takes it, a secret by where it is *)
(* given and how long it is.                                               *)
(***************************************************************************)
EXTENDS Integers

\* "origin": https, or http on this machine, without a path; "path": the same
\* with one; "unfit": another scheme, credentials, a query, or not a URL.
UrlShape == {"none", "origin", "path", "unfit"}
Url == [shape : UrlShape, local : BOOLEAN, host : STRING]

\* canonicalUrl throws.
UnfitUrl(url) == url.shape = "unfit"

\* A secret in a variable, and one in a file: not given, or how long it is.
GivenInVariable == {"none", "short", "long"}
GivenInFile == {"none", "unreadable", "empty", "short", "long"}

\* readOptionalSecret throws, or returns what it finds.
UnfitSecret(s) ==
  \/ s.variable # "none" /\ s.file # "none"
  \/ s.file \in {"unreadable", "empty"}
SecretFound(s) == IF s.file # "none" THEN s.file ELSE s.variable

\* resolveWebUrl: an origin alone, or none.
UnfitWebUrl(url) == url.shape \in {"path", "unfit"}

\* parseEnv and common
CommonRefused(c) ==
  c.env = "invalid" \/ UnfitUrl(c.api) \/ UnfitWebUrl(c.web) \/ UnfitUrl(c.issuer)

\* readSecret, readApprovalKey: a server on this machine may do without a key.
SecretRefused(c) == UnfitSecret(c.secret) \/ SecretFound(c.secret) = "none"
KeyRefused(c) ==
  \/ UnfitSecret(c.key) \/ SecretFound(c.key) = "short"
  \/ SecretFound(c.key) = "none" /\ ~c.resource.local

\* HOSTED_MIN_REQUEST_TIMEOUT_MS
MinHostedTimeout == 5000

HostedRefused(c) ==
  \/ CommonRefused(c)
  \/ UnfitUrl(c.resource) \/ c.timeout < MinHostedTimeout
  \/ c.resource.host = c.api.host /\ c.resource.shape = c.api.shape
  \/ SecretRefused(c) \/ KeyRefused(c)
  \/ UnfitUrl(c.jwks) \/ c.origins = "unfit"

\* The mode the command line asks for, unless it is unusable (parseCommandLine).
Mode == {"stdio", "http"}
Refused(mode, c) == IF mode = "http" THEN HostedRefused(c) ELSE CommonRefused(c)
=============================================================================
