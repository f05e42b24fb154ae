---------------------------- MODULE Configuration ----------------------------
(***************************************************************************)
(* config.Load (internal/config/config.go): which environments start the   *)
(* server, and what it makes of them.  A variable is Unset, or a value as  *)
(* the operator wrote it: a URL with or without capital letters, a path or *)
(* a trailing slash, a key in one of the base64 alphabets.  Defaults,      *)
(* wording of errors and variables that are copied unread are left out.    *)
(***************************************************************************)
EXTENDS Integers

CONSTANT Unset   \* an empty variable, and a value that is missing

\* What a value spells: scheme and host of a URL, which may be written with
\* capitals, and whether more follows; the bytes of a key.
URL == [scheme: {"https", "http"}, host: STRING, capitals: BOOLEAN, path: BOOLEAN,
        query: BOOLEAN, slash: BOOLEAN]
Key == [bytes: STRING, size: Nat, alphabet: {"std", "rawstd", "url", "rawurl", "none"}]

cipherKeyLen == 32
minSigningKeyLen == 32

\* The issuer every URL and every token is built from, or Unset.  Trailing
\* slashes are cut; capitals and a path stay as they are.
parsePublicURL_AsWritten(raw) ==
  IF raw # Unset /\ raw.scheme = "https" /\ raw.host # "" /\ ~raw.query
    THEN raw ELSE Unset
parsePublicURL(raw) ==
  IF raw # Unset /\ raw.scheme = "https" /\ raw.host # "" /\ ~raw.query
    THEN [raw EXCEPT !.slash = FALSE] ELSE Unset

\* Every alphabet, padded or not, is tried in turn.
decodeBase64(raw) == IF raw = Unset \/ raw.alphabet = "none" THEN Unset ELSE raw.bytes

decodeKey(raw, size, exact) ==
  IF decodeBase64(raw) # Unset /\ (IF exact THEN raw.size = size ELSE raw.size >= size)
    THEN decodeBase64(raw) ELSE Unset

SixDigits == [length |-> 6, digits |-> TRUE]

RelayPortAllowed(port) == port # Unset => port \in 1 .. 65535
DurationAllowed(seconds) == seconds # Unset => seconds > 0

\* The checks of Load; it stops at the first that fails.
Accepted(env) ==
  /\ parsePublicURL(env.publicURL) # Unset
  /\ env.clientID # Unset /\ env.clientSecret # Unset
  /\ decodeKey(env.cipherKey, cipherKeyLen, TRUE) # Unset
  /\ decodeKey(env.signingKey, minSigningKeyLen, FALSE) # Unset
  /\ RelayPortAllowed(env.relayPort)
  /\ DurationAllowed(env.accessTokenTTL) /\ DurationAllowed(env.refreshTokenTTL)
  /\ env.logFormat \in {Unset, "json", "text"}
  /\ env.apiVersion \in {Unset, SixDigits}

Load(env) ==
  [publicURL  |-> parsePublicURL(env.publicURL),
   cipherKey  |-> decodeKey(env.cipherKey, cipherKeyLen, TRUE),
   signingKey |-> decodeKey(env.signingKey, minSigningKeyLen, FALSE),
   relayPort  |-> env.relayPort]

MCPResourceURL(cfg) == <<cfg.publicURL, "/mcp">>
=============================================================================
