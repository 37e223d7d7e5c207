------------------------------- MODULE Inputs -------------------------------
(***************************************************************************)
(* The smaller decisions of the program, each a function of what it reads: *)
(* the tokens a two-factor response brings, the answers of the endpoints   *)
(* called directly, the sender of a draft, what `status` says of a missing *)
(* session, and the redaction of the log.                                  *)
(***************************************************************************)
EXTENDS ProtErr, FiniteSets, SequencesExt

(***************************************************************************)
(* session/auth2fa_capture.go.  A response is [path, status, wrapped, flat]:*)
(* the tokens under "Auth" and at the root of its body.  A token is "" or  *)
(* the name of who issued it.                                              *)
(***************************************************************************)
Fields == {"UID", "AccessToken", "RefreshToken", "Scope"}
NoAuth == [f \in Fields |-> ""]
HasTokenField(a) == \E f \in Fields \ {"Scope"} : a[f] # ""

ParseAuth2FABody(r) ==
  First(<<Probe(HasTokenField(r.wrapped), [ok |-> TRUE, auth |-> r.wrapped]),
          Probe(HasTokenField(r.flat), [ok |-> TRUE, auth |-> r.flat]),
          Probe(TRUE, [ok |-> FALSE, auth |-> NoAuth])>>)

\* The hook sees every response of the client, a retried one included.
Hook(got, r) ==
  LET p == ParseAuth2FABody(r)
  IN IF r.path = "2fa" /\ r.status = 200 /\ p.ok THEN p.auth ELSE got

\* Mutant: what was captured replaces what the login returned.
Merge_Replaces(got, base) == IF HasTokenField(got) THEN got ELSE base

\* merge, and loginLocked keeping the first tokens when it returns nil.
Merge(got, base) ==
  IF HasTokenField(got) THEN [f \in Fields |-> IF got[f] # "" THEN got[f] ELSE base[f]] ELSE base

Captured(responses) == FoldLeft(Hook, NoAuth, responses)

AfterTwoFactor(base, responses) == Merge(Captured(responses), base)

(***************************************************************************)
(* internal/protonraw.  An endpoint is [id, body]: whether an ID goes into *)
(* its path and whether it wants a body.  A response is                    *)
(* [net, status, retryAfter, json, error, code, shape]: json whether the   *)
(* body parses as an envelope, error whether that holds an Error string,   *)
(* shape whether the body parses as what the caller wants.                 *)
(***************************************************************************)
Endpoint(id, body) == [id |-> id, body |-> body]
DomainEndpoints ==
  [ListCustomDomains |-> Endpoint(FALSE, TRUE), GetCustomDomain |-> Endpoint(TRUE, TRUE),
   AddCustomDomain |-> Endpoint(FALSE, TRUE), VerifyCustomDomain |-> Endpoint(TRUE, TRUE),
   RemoveCustomDomain |-> Endpoint(TRUE, FALSE)]
CatchAllEndpoints ==
  [ListDomainAddresses |-> Endpoint(TRUE, TRUE), UpdateCatchAll |-> Endpoint(TRUE, FALSE)]
AddressEndpoints == [CreateAddress |-> Endpoint(FALSE, TRUE)]
Endpoints == DomainEndpoints @@ CatchAllEndpoints @@ AddressEndpoints

ValidPathID(id) == id \notin {"empty", "slash"}

\* What the library makes of the response to a call of its own: the code in the
\* body tells a demand for human verification from the refusals of its status.
LibraryError(r) == IF r.json /\ r.code = 9001 THEN [Plain EXCEPT !.api = Captcha(r.status)]
                   ELSE ApiError(r.status, IF r.json THEN r.code ELSE 0)

\* Mutant: an HTTP error is a plain error, without its status.
RawError_Plain(r) == IF r.net THEN Plain ELSE Transport
RawError(r) == IF r.status >= 400 THEN [Plain EXCEPT !.http = Http(r.status, r.retryAfter)]
               ELSE IF r.net THEN Plain ELSE Transport

\* The code a tool reports for the call, or "ok".
RawResult(name, id, r) ==
  First(<<Probe(Endpoints[name].id /\ ~ValidPathID(id), Map(Plain)),
          Probe(~r.net \/ r.status >= 400, Map(RawError(r))),
          Probe(r.json /\ (r.error \/ r.code \notin {0, 1000}), Map(RawError(r))),
          Probe(Endpoints[name].body /\ ~r.shape, Map(RawError(r))), Probe(TRUE, Says("ok"))>>)

(***************************************************************************)
(* tools/drafts.go: resolveSender over the addresses of the account.       *)
(***************************************************************************)
CanSend(a) == a.enabled /\ a.send
NoSender == [id |-> 0]

\* Mutant: the loop takes the first address of the lowest order, then checks it.
DefaultSender_ChecksLast(addrs) ==
  LET best == FoldLeft(LAMBDA b, a : IF b = NoSender \/ a.order < b.order THEN a ELSE b, NoSender, addrs)
  IN IF best # NoSender /\ CanSend(best) THEN best ELSE NoSender

Better(best, a) ==
  IF CanSend(a) /\ (best = NoSender \/ a.order < best.order) THEN a ELSE best
DefaultSender(addrs) == FoldLeft(Better, NoSender, addrs)

\* An address that is asked for by name is fetched, and then has to be able to.
ResolveSender(addrs, named) ==
  IF named = 0 THEN DefaultSender(addrs)
  ELSE LET i == SelectInSeq(addrs, LAMBDA a : a.id = named)
       IN IF i = 0 \/ ~CanSend(addrs[i]) THEN NoSender ELSE addrs[i]

(***************************************************************************)
(* The status command, which probes the other backend when it has no       *)
(* client.  A store is "empty", "session", "unreadable" or "none" (it      *)
(* cannot be built); stores has the one of each backend.                   *)
(***************************************************************************)
\* Mutant: a store that cannot be read counts as empty.
ProbeBackend_UnreadableIsEmpty(store) == IF store = "session" THEN "found" ELSE "absent"

ProbeBackend(store) ==
  CASE store = "session" -> "found" [] store = "unreadable" -> "unreadable"
    [] store \in {"empty", "none"} -> "absent"
ProbeOtherBackend(s) ==
  ProbeBackend(s.stores[IF s.backend = "file" THEN "keychain" ELSE "file"])
WriteNotLoggedIn(s) ==
  CASE ProbeOtherBackend(s) = "absent" -> "not logged in"
    [] ProbeOtherBackend(s) = "unreadable" -> "other backend unreadable"
    [] ProbeOtherBackend(s) = "found" -> "other backend has a session"

\* What runStatus prints and the exit code of the process.
RunStatus(s) ==
  LET code == IF s.degraded THEN 3 ELSE 0
  IN First(<<Probe(s.backend = "other" \/ s.stores[s.backend] = "none", [says |-> "", code |-> 1]),
             Probe(~s.client, [says |-> WriteNotLoggedIn(s), code |-> code]),
             Probe(~s.user, [says |-> "", code |-> 1]),
             Probe(TRUE, [says |-> "logged in", code |-> code])>>)

(***************************************************************************)
(* internal/log.  An attribute is [name, value] or a group of attributes   *)
(* [name, members].  A name is the sequence of its parts, cut so that a    *)
(* sensitive substring is a part of its own.                               *)
(***************************************************************************)
SensitiveSubstrings == {"password", "passphrase", "token", "secret", "totp", "key"}
Lower(part) == CASE part = "Token" -> "token" [] part = "KEY" -> "key" [] OTHER -> part
IsSensitive(name) == \E i \in DOMAIN name : Lower(name[i]) \in SensitiveSubstrings
RedactLeaf(a) == IF IsSensitive(a.name) THEN [a EXCEPT !.value = "<redacted>"] ELSE a

\* Mutant: the attributes of a group are passed on as they are.
RedactAttr_TopOnly(a) == IF a.members # <<>> THEN a ELSE RedactLeaf(a)

\* Groups are nested one deep here; the code recurses.  The name of a group is
\* not looked at.
RedactAttr(a) ==
  IF a.members # <<>> THEN [a EXCEPT !.members = [i \in DOMAIN @ |-> RedactLeaf(@[i])]]
  ELSE RedactLeaf(a)
=============================================================================
