------------------------------ MODULE MCTools ------------------------------
EXTENDS Tools

\* Stdio with no gate open, with writes, and with both; SSE with the dangerous
\* gate alone; SSE without a usable token; the file backend with no directory.
EnvOf(backend, transport, token, writes, dangerous) ==
  [backend |-> backend, dir |-> FALSE, transport |-> transport, port |-> "ok",
   token |-> token, writes |-> writes, dangerous |-> dangerous]
MCEnvs ==
  {EnvOf("", "", "", FALSE, FALSE), EnvOf("", "stdio", "", TRUE, FALSE),
   EnvOf("keychain", "stdio", "", TRUE, TRUE), EnvOf("", "sse", "ok", FALSE, TRUE),
   EnvOf("", "sse", "short", TRUE, TRUE), EnvOf("file", "stdio", "", TRUE, TRUE)}
=============================================================================
