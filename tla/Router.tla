------------------------------- MODULE Router -------------------------------
(***************************************************************************)
(* The HTTP surface as main.go puts it together: which handler answers a   *)
(* request (internal/adapters/httpserver/router.go) and which addresses    *)
(* the program hands out (internal/config/config.go, the two metadata      *)
(* documents of internal/adapters/authserver/metadata.go, the links of the *)
(* sign-in).  An address is <<base, path>>: the URL it was built from, as  *)
(* a record of Configuration, and the path that was appended.              *)
(***************************************************************************)
EXTENDS Configuration

-----------------------------------------------------------------------------
(* The routes.                                                             *)

Get(path, handler) == [method |-> "GET", path |-> path, handler |-> handler]
Post(path, handler) == [method |-> "POST", path |-> path, handler |-> handler]

\* Nothing is mounted when no port is set.
relayHandler(cfg) ==
  {Get("/relay/callback", "LoopbackRelay") : port \in {cfg.relayPort} \ {Unset}}

Mounts(cfg) ==
  {Get("/healthz", "Health"),
   Get("/.well-known/oauth-protected-resource", "ProtectedResourceMetadata"),
   Get("/.well-known/oauth-protected-resource/mcp", "ProtectedResourceMetadata"),
   Get("/.well-known/oauth-authorization-server", "AuthServerMetadata"),
   Get("/.well-known/oauth-authorization-server/mcp", "AuthServerMetadata"),
   Post("/oauth/register", "Register"),
   Get("/oauth/authorize", "Authorize"),
   Post("/oauth/token", "Token"),
   Get("/linkedin/login", "LinkedInLogin"),
   Get("/linkedin/callback", "LinkedInCallback"),
   Get("/privacy", "Privacy"),
   Get("/icon.png", "Icon"),
   [method |-> "any", path |-> "/mcp", handler |-> "MCP"]}
  \cup relayHandler(cfg)

\* net/http's ServeMux: a GET pattern answers HEAD as well, a pattern without a
\* method answers every one.  Everything is mounted at the root of the host: a
\* base with a path is not found there, and one that ends in a slash makes a
\* path with two of them, which is redirected and not served.
Matches(route, method) ==
  \/ route.method \in {method, "any"}
  \/ route.method = "GET" /\ method = "HEAD"

Reaches(cfg, address) ==
  address[1].host = cfg.publicURL.host /\ ~address[1].path /\ ~address[1].slash

\* Whether the handler is the one that answers; otherwise 404 or 405.
Answers(cfg, method, address, handler) ==
  /\ Reaches(cfg, address)
  /\ \E route \in Mounts(cfg) :
       route.path = address[2] /\ route.handler = handler /\ Matches(route, method)

-----------------------------------------------------------------------------
(* The addresses handed out, each with the request a client makes of it    *)
(* and the handler that is meant.                                          *)

Use(method, address, handler) == [method |-> method, address |-> address, handler |-> handler]

ResourceMetadataURL(cfg) == <<cfg.publicURL, "/.well-known/oauth-protected-resource">>
RedirectURI(cfg) == <<cfg.publicURL, "/linkedin/callback">>

\* Options.LoginPath, which New defaults to the path of another program.
LoginPath_Default == "/meta/login"
LoginPath == "/linkedin/login"

\* What a 401 of /mcp and the document behind it say: the resource, and the
\* issuer whose own document a client asks for next.
ProtectedResource(cfg) ==
  {Use("GET", ResourceMetadataURL(cfg), "ProtectedResourceMetadata"),
   Use("POST", MCPResourceURL(cfg), "MCP"),
   Use("GET", <<cfg.publicURL, "/.well-known/oauth-authorization-server">>, "AuthServerMetadata")}

AuthServer(cfg) ==
  {Use("GET", <<cfg.publicURL, "/oauth/authorize">>, "Authorize"),
   Use("POST", <<cfg.publicURL, "/oauth/token">>, "Token"),
   Use("POST", <<cfg.publicURL, "/oauth/register">>, "Register")}

\* Where Authorize and reconnect_url send the browser, and LinkedIn sends it back.
SignInLinks(cfg) ==
  {Use("GET", <<cfg.publicURL, LoginPath>>, "LinkedInLogin"),
   Use("GET", RedirectURI(cfg), "LinkedInCallback")}

Icon(cfg) == Use("GET", <<cfg.publicURL, "/icon.png">>, "Icon")

HandedOut(cfg) ==
  ProtectedResource(cfg) \cup AuthServer(cfg) \cup SignInLinks(cfg) \cup {Icon(cfg)}

\* The handlers that call allowCORS and have a branch for OPTIONS.
CrossOrigin == {"ProtectedResourceMetadata", "AuthServerMetadata", "Register", "Token"}
=============================================================================
