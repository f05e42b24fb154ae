----------------------------- MODULE MCLifecycle -----------------------------
\* Lifecycle on a small instance: two processes, each of today's build or of one
\* with a second migration, started from environments that spell the same URL
\* and signing key differently, from one that means another URL, and from others
\* that Load refuses.
EXTENDS Lifecycle

CONSTANTS init, later

TwoBuilds == {<<init>>, <<init, later>>}

Address(host, slash) ==
  [scheme |-> "https", host |-> host, capitals |-> FALSE, path |-> FALSE, query |-> FALSE,
   slash |-> slash]
KeyOf(bytes, alphabet) == [bytes |-> bytes, size |-> 32, alphabet |-> alphabet]

Setting(url, key) ==
  [publicURL |-> url, clientID |-> "app", clientSecret |-> "secret",
   cipherKey |-> KeyOf("cipher", "std"), signingKey |-> key,
   relayPort |-> Unset, accessTokenTTL |-> Unset, refreshTokenTTL |-> Unset,
   logFormat |-> Unset, apiVersion |-> Unset]

Plain == Setting(Address("mcp", FALSE), KeyOf("jwt", "std"))

GoodSettings ==
  {Plain,
   [Setting(Address("mcp", TRUE), KeyOf("jwt", "rawurl")) EXCEPT !.relayPort = 8787],
   [Plain EXCEPT !.publicURL.capitals = TRUE, !.publicURL.path = TRUE]}

BadSettings ==
  {Setting(Unset, Plain.signingKey),
   Setting([Plain.publicURL EXCEPT !.scheme = "http"], Plain.signingKey),
   Setting(Plain.publicURL, [Plain.signingKey EXCEPT !.size = 16]),
   [Plain EXCEPT !.cipherKey.size = 33],
   [Plain EXCEPT !.relayPort = 0],
   [Plain EXCEPT !.accessTokenTTL = 0]}

Settings == GoodSettings \cup BadSettings
=============================================================================
