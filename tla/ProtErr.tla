------------------------------ MODULE ProtErr ------------------------------
(***************************************************************************)
(* internal/proterr: how an error chain becomes the code a tool reports.   *)
(* A chain is what errors.Is and errors.As can find in it: sentinels, an   *)
(* API error of the Proton library, an HTTPError of protonraw, a transport *)
(* error.                                                                  *)
(***************************************************************************)
EXTENDS Integers, Sequences

Sentinels == {"ErrNoSession", "ErrKeyringLocked", "ErrKeyringUnlockScope", "ErrTOTPRejected",
              "ErrBodyUndecryptable", "ErrAddressKeyringMissing"}

NoApi == [present |-> FALSE, status |-> 0, code |-> 0, hv |-> FALSE]
Api(status, code) == [present |-> TRUE, status |-> status, code |-> code, hv |-> FALSE]
Captcha(status) == [Api(status, 9001) EXCEPT !.hv = TRUE]

\* retryAfter: the Retry-After header, -1 for none and -2 for a date.
NoHttp == [present |-> FALSE, status |-> 0, retryAfter |-> -1]
Http(status, retryAfter) == [present |-> TRUE, status |-> status, retryAfter |-> retryAfter]

Chain(tags, api, http, net) == [tags |-> tags, api |-> api, http |-> http, net |-> net]
Plain == Chain({}, NoApi, NoHttp, FALSE)  \* an errors.New of any kind
Sentinel(s) == [Plain EXCEPT !.tags = {s}]
ApiError(status, code) == [Plain EXCEPT !.api = Api(status, code)]
Transport == [Plain EXCEPT !.net = TRUE]
Wrap(s, e) == [e EXCEPT !.tags = @ \cup {s}]  \* fmt.Errorf("...: %w: %w", s, e)

\* What a tool reports: the code, without the "proton/" all of them begin with,
\* and the seconds after which to retry.
Says(code) == [code |-> code, retry |-> 0]

\* strconv.Atoi of the header, with its error thrown away.
RetryAfterSeconds(http) == IF http.present /\ http.retryAfter >= 0 THEN http.retryAfter ELSE 0

CodeOfStatus == [s \in {401, 402, 403, 404, 409, 400, 422, 429} |->
  CASE s = 401 -> "auth_required"      [] s = 402 -> "plan_required"
    [] s = 403 -> "permission_denied"  [] s = 404 -> "not_found"
    [] s = 409 -> "conflict"           [] s \in {400, 422} -> "validation"
    [] s = 429 -> "rate_limited"]
mapStatus(status, http) ==
  IF status \in DOMAIN CodeOfStatus
  THEN [Says(CodeOfStatus[status]) EXCEPT
          !.retry = IF status = 429 THEN RetryAfterSeconds(http) ELSE 0]
  ELSE Says("upstream")

\* A list of conditions with answers, tried in order: the first that holds.
Probe(when, says) == [when |-> when, says |-> says]
First(p) == p[CHOOSE i \in DOMAIN p : p[i].when /\ \A j \in 1..(i - 1) : ~p[j].when].says

Tagged(e, s, code) == Probe(s \in e.tags, Says(code))
ScopeProbe(e) == Tagged(e, "ErrKeyringUnlockScope", "keyring_unlock_scope")
NetworkProbes(e) ==
  <<Probe(e.api.present /\ e.api.hv, Says("captcha")),
    Probe(e.api.present /\ e.api.status # 0, mapStatus(e.api.status, NoHttp)),
    Probe(e.http.present, mapStatus(e.http.status, e.http)),
    Probe(e.net, Says("upstream"))>>
KeyringProbes(e) ==
  <<Tagged(e, "ErrBodyUndecryptable", "body_undecryptable"),
    Tagged(e, "ErrAddressKeyringMissing", "address_keyring_missing"),
    Tagged(e, "ErrKeyringLocked", "keyring_locked"),
    Probe(TRUE, Says("upstream"))>>

\* errToMCP: the probes in its order.
Probes(e) ==
  <<ScopeProbe(e), Tagged(e, "ErrTOTPRejected", "2fa_rejected")>> \o NetworkProbes(e)
    \o <<Tagged(e, "ErrNoSession", "auth_required")>> \o KeyringProbes(e)
Map(e) == First(Probes(e))

\* An Error that Map has made: it wraps nothing, so that a second Map finds
\* nothing of the first cause in it.
Mapped == Plain

\* What the unlock path asks of an error, that the token lacks the scope, and
\* what a refresh asks of it, that a login can help.
ScopeDenied(e) == e.api.present /\ e.api.status = 403 /\ e.api.code = 9100
RefreshRejected(e) == e.api.present /\ (e.api.status = 401 \/ e.api.code = 10013)
=============================================================================
