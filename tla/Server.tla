------------------------------- MODULE Server -------------------------------
(***************************************************************************)
(* The life of one server process: main and run of cmd/protonmail-mcp,     *)
(* RunWithOptions, and the SSE listener with its shutdown, against the     *)
(* signal handler that forces an exit.                                     *)
(***************************************************************************)
CONSTANT Envs  \* environments the process may be started in

VARIABLES
  env,       \* the environment variables the process reads
  stage,     \* "boot", "stdio", "sse", "shutdown" or "exited"
  serve,     \* errCh: how http.Server.Serve ended, or "running", or "none"
  signalled, \* SIGINT or SIGTERM arrived, which cancels the context
  code       \* the exit code

server == <<env, stage, serve, signalled, code>>

\* What the environment says, as far as the start depends on it.  dir: whether
\* the file backend finds a usable state directory.
AllEnvs == [backend: {"", "keychain", "file", "other"}, dir: BOOLEAN,
            transport: {"", "stdio", "sse", "other"}, port: {"", "bad", "ok"},
            token: {"", "short", "ok"}, writes: BOOLEAN, dangerous: BOOLEAN]

ASSUME EnvsAssumption == Envs \subseteq AllEnvs

BackendName(e) == IF e.backend = "" THEN "keychain" ELSE e.backend
StoreSelected(e) == \/ BackendName(e) = "keychain"
                    \/ BackendName(e) = "file" /\ e.dir

\* Mutant: the kind is returned as it was read, without its default.
TransportConfig_RawKind(e) == e.transport
\* "stdio", "sse", or "error": SSE is never served without a port and a token.
TransportConfig(e) ==
  CASE e.transport \in {"", "stdio"} -> "stdio"
    [] e.transport = "sse" /\ e.port = "ok" /\ e.token = "ok" -> "sse"
    [] OTHER -> "error"

ServerInit ==
  /\ env \in Envs /\ stage = "boot" /\ serve = "none"
  /\ signalled = FALSE /\ code = 0

\* run returns c and main exits with it, unless the forced exit comes first.
Exits(c) ==
  /\ stage' = "exited" /\ code' = c
  /\ UNCHANGED <<env, serve, signalled>>

\* Mutant: Shutdown is taken for the whole story, Serve's error not drained.
ShutdownDone_NoDrain ==
  /\ stage = "shutdown"
  /\ Exits(0)

\* Mutant: the timer of the forced exit is stopped when a shutdown begins.
ForceExit_StoppedByShutdown ==
  /\ signalled /\ stage \in {"boot", "stdio", "sse"}
  /\ Exits(130)

BootFails ==
  /\ stage = "boot"
  /\ \/ ~StoreSelected(env) \/ TransportConfig(env) = "error"
     \/ TransportConfig(env) = "sse"  \* net.Listen failed
  /\ Exits(1)

Boot ==
  /\ stage = "boot" /\ StoreSelected(env) /\ TransportConfig(env) # "error"
  /\ stage' = TransportConfig(env)
  /\ serve' = IF stage' = "sse" THEN "running" ELSE "none"
  /\ UNCHANGED <<env, signalled, code>>

\* The host closes stdin, or the transport fails, a cancelled context included.
StdioEnds == stage = "stdio" /\ \E c \in {0, 1} : Exits(c)

ServeBreaks ==
  /\ serve = "running"
  /\ serve' = "failed"
  /\ UNCHANGED <<env, stage, signalled, code>>

\* The two branches of the select; with both ready either may be taken.
SelectError == stage = "sse" /\ serve = "failed" /\ Exits(1)

SelectDone ==
  /\ stage = "sse" /\ signalled
  /\ stage' = "shutdown"
  /\ serve' = IF serve = "running" THEN "closed" ELSE serve
  /\ UNCHANGED <<env, signalled, code>>

\* Every connection ended in time: the error of Serve is drained and reported.
ShutdownDone ==
  /\ stage = "shutdown"
  /\ Exits(IF serve = "closed" THEN 0 ELSE 1)

ShutdownTimesOut == stage = "shutdown" /\ Exits(1)

Signal ==
  /\ ~signalled /\ stage # "exited"
  /\ signalled' = TRUE
  /\ UNCHANGED <<env, stage, serve, code>>

\* The AfterFunc of main, 50 ms after the signal.
ForceExit ==
  /\ signalled /\ stage # "exited"
  /\ Exits(130)

ServerNext ==
  \/ Boot \/ BootFails \/ StdioEnds \/ ServeBreaks \/ SelectError \/ SelectDone
  \/ ShutdownDone \/ ShutdownTimesOut \/ Signal \/ ForceExit

ServerTypeOK ==
  /\ env \in Envs
  /\ stage \in {"boot", "stdio", "sse", "shutdown", "exited"}
  /\ serve \in {"none", "running", "failed", "closed"}
  /\ signalled \in BOOLEAN /\ code \in {0, 1, 130}

\* A server whose listener failed never reports a clean end, in whatever order
\* the failure, a signal and the shutdown come (sse.go drains errCh for this).
ServeFailureReported == serve = "failed" /\ stage = "exited" => code # 0

\* A process that got a signal ends although connections stay open, a request
\* hangs, or stdin is never closed: the forced exit alone sees to it.
SignalledEnds == signalled ~> stage = "exited"
=============================================================================
