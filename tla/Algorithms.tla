----------------------------- MODULE Algorithms -----------------------------
(***************************************************************************)
(* The pure parts of the program, each run once on an input: what a tool   *)
(* that decrypts reports, the event listing, the tokens after two-factor,  *)
(* a direct API call, the sender of a draft, the status command, the log.  *)
(***************************************************************************)
EXTENDS Decrypt, Events, Inputs

CONSTANTS Worlds, Listings, TwoFactors, RawCalls, Senders, StatusRuns, LogRecords

\* Errors that a request may end with: the client finds no session, an API
\* error of any status, or a transport error.
RequestErrors ==
  [tags: SUBSET {"ErrNoSession"}, http: {NoHttp}, net: {FALSE},
   api: [present: BOOLEAN, status: Int, code: Int, hv: BOOLEAN]] \cup {Transport}

Response == [path: STRING, status: Nat, wrapped: [Fields -> STRING], flat: [Fields -> STRING]]
Address == [id: Nat \ {0}, enabled: BOOLEAN, send: BOOLEAN, order: Int]

Backends == {"file", "keychain"}
Attribute(members) == [name: Seq(STRING), value: STRING, members: members]

ASSUME AlgorithmsAssumption ==
  /\ \A w \in Worlds : /\ w.tool \in {"get_message", "get_event", "create_draft"}
                       /\ w.relogin \in {"logged in", "challenged", "declined"}
                       /\ w.error \in RequestErrors /\ w.again.error \in RequestErrors
                       /\ w.broken = "creds" => ~w.error.api.present
  /\ \A l \in Listings : l.calendars \in Seq(Calendar) /\ l.named \in BOOLEAN
  /\ TwoFactors \subseteq [base: [Fields -> STRING], responses: Seq(Response)]
  /\ Senders \subseteq [addrs: Seq(Address), named: Nat]
  /\ \A s \in Senders : \A i, j \in DOMAIN s.addrs : s.addrs[i].id = s.addrs[j].id => i = j
  /\ StatusRuns \subseteq [backend: Backends \cup {"other"}, client: BOOLEAN, user: BOOLEAN,
                           degraded: BOOLEAN,
                           stores: [Backends -> {"empty", "session", "unreadable", "none"}]]
  /\ LogRecords \subseteq Attribute(Seq(Attribute({<<>>})))

VARIABLES
  input,   \* [kind, of]: the function to run and its argument
  output   \* its result, with ready = FALSE before the run

vars == <<input, output>>

Jobs(kind, set) == {[kind |-> kind, of |-> x] : x \in set}

Init ==
  /\ \/ input \in Jobs("decrypt", Worlds) \/ input \in Jobs("list", Listings)
     \/ input \in Jobs("2fa", TwoFactors) \/ input \in Jobs("raw", RawCalls)
     \/ input \in Jobs("sender", Senders) \/ input \in Jobs("status", StatusRuns)
     \/ input \in Jobs("log", LogRecords)
  /\ output = [ready |-> FALSE]

Runs(kind, result) ==
  /\ input.kind = kind /\ ~output.ready
  /\ output' = [ready |-> TRUE, is |-> result]
  /\ UNCHANGED input

Decrypts == Runs("decrypt", LET r == Result(input.of)
                            IN [ok |-> r.ok, says |-> IF r.ok THEN Says("ok") ELSE Map(r.err)])
Lists == Runs("list", ListEvents(input.of.calendars, input.of.named))
Merges == Runs("2fa", AfterTwoFactor(input.of.base, input.of.responses))
Calls == Runs("raw", RawResult(input.of.name, input.of.id, input.of.response))
Sends == Runs("sender", ResolveSender(input.of.addrs, input.of.named))
Reports == Runs("status", RunStatus(input.of))
Logs == Runs("log", RedactAttr(input.of))

Next == Decrypts \/ Lists \/ Merges \/ Calls \/ Sends \/ Reports \/ Logs

Spec == Init /\ [][Next]_vars

-----------------------------------------------------------------------------
Done(kind) == output.ready /\ input.kind = kind

\* Whether Proton denied a request of the unlock the scope with a login left to
\* try, and the last unlock that was then tried.
Denied(f) == f.broken = "salts" /\ ScopeDenied(f.error)
Heals(w) ==
  /\ w.broken \in {"salts", "user", "addresses"} /\ ScopeDenied(w.error) /\ ~w.spent
  /\ w.broken = "addresses" => w.primary /\ w.salt /\ RightPassword(w)
Challenged(w) == Heals(w) /\ w.relogin = "challenged"
Retries(w) == Heals(w) /\ w.relogin = "logged in"
LastUnlock(w) == IF Retries(w) THEN w.again ELSE w

\* What a tool that needs a key says is wrong is wrong.  It names the scope of
\* the token exactly when Proton denied the salts to the last unlock tried and
\* no challenge came in between, whatever the chain carries besides: a denial
\* that a login healed is never reported, nor is it when the unlock then failed
\* of something else.  It names the mailbox password never when that is right
\* and a keyring of the account opened, unless it is the calendar's own that
\* did not.
DiagnosisFits ==
  Done("decrypt") =>
    LET w == input.of
        code == output.is.says.code
        last == LastUnlock(w)
    IN /\ code = "keyring_unlock_scope" <=> Denied(last) /\ ~Challenged(w)
       /\ code = "keyring_locked" /\ RightPassword(w) /\ Usable(w) # {}
            => w.tool = "get_event"
       /\ last.broken = "salts" /\ last.error.net => code = "upstream"

\* One key that opens is enough: an address that is disabled, or a calendar
\* member that is somebody else or does not decrypt, never stands in the way of
\* the address or the member that would.  So it is after a login that healed a
\* denied scope.
OneKeyIsEnough ==
  Done("decrypt") =>
    LET w == input.of
        served == w.broken = "none" \/ (Retries(w) /\ w.again.broken = "none")
        opens == served /\ RightPassword(w) /\ w.primary /\ w.salt
    IN /\ opens /\ w.tool = "get_message" /\ w.addr \in Usable(w) /\ w.body = "sealed" => output.is.ok
       /\ opens /\ w.tool = "create_draft" /\ w.addr \in Usable(w) => output.is.ok
       /\ opens /\ w.tool = "get_event" /\ w.calendarKeys /\ w.parts = <<"sealed">>
            /\ (\E i \in DOMAIN w.members : Matches(Usable(w), w.members[i])) => output.is.ok

\* The listing of events against everything the window holds.
ListingFaithful ==
  Done("list") => /\ FaithfulListing(input.of.calendars, input.of.named, output.is)
                  /\ OneBadEventIsSkipped(input.of.calendars, input.of.named, output.is)

\* After two-factor the session has every token, and each one the last usable
\* response brought, however often the request was retried and in whichever of
\* the two shapes: a token of before is kept only where none came.
TwoFactorKeepsTokens ==
  Done("2fa") =>
    LET good == {i \in DOMAIN input.of.responses :
                   LET r == input.of.responses[i]
                   IN r.path = "2fa" /\ r.status = 200 /\ (HasTokenField(r.wrapped) \/ HasTokenField(r.flat))}
        last == CHOOSE i \in good : \A j \in good : j <= i
        auth == IF good = {} THEN NoAuth ELSE ParseAuth2FABody(input.of.responses[last]).auth
    IN \A f \in Fields : output.is[f] = IF auth[f] = "" THEN input.of.base[f] ELSE auth[f]

\* A refusal of an endpoint called directly gives the code that the library's
\* error gives, but for a demand for human verification, which reads as a mere
\* refusal of its status; a refusal in a 200 envelope is never a success.
HTTPRefused == input.of.response.net /\ input.of.response.status >= 400 /\ input.of.id = "plain"
RefusalsReadTheSame ==
  Done("raw") =>
    LET r == input.of.response
        library == Map(LibraryError(r)).code
    IN /\ HTTPRefused =>
            output.is.code = IF library = "captcha" THEN Map(ApiError(r.status, 0)).code ELSE library
       /\ r.json /\ (r.error \/ r.code \notin {0, 1000}) => output.is.code # "ok"
       /\ output.is.retry # 0 => output.is.code = "rate_limited"

\* The sender is an enabled address that may send: the one named, or else one
\* of the lowest order among them; none only if there is none.
SenderCanSend ==
  Done("sender") =>
    LET able == {i \in DOMAIN input.of.addrs : CanSend(input.of.addrs[i])}
        fit == {input.of.addrs[i] : i \in {i \in able :
                 IF input.of.named # 0 THEN input.of.addrs[i].id = input.of.named
                 ELSE \A j \in able : input.of.addrs[i].order <= input.of.addrs[j].order}}
    IN IF fit = {} THEN output.is = NoSender ELSE output.is \in fit

\* What `status` says of the backend that is not selected is true: a bare "not
\* logged in" means that it has no session, and a session there, or a store that
\* cannot be read, is named and nothing else is.
NotLoggedInIsTrue ==
  Done("status") =>
    LET s == input.of
        says == output.is.says
    IN \A b \in DOMAIN s.stores \ {s.backend} :
         /\ says = "not logged in" => s.stores[b] \in {"empty", "none"}
         /\ says = "other backend has a session" => s.stores[b] = "session"
         /\ says = "other backend unreadable" => s.stores[b] = "unreadable"

\* A log line holds every attribute that was logged, in its place, and of those
\* with a sensitive name of their own, at the top or in a group, not the value.
\* The name of the group decides nothing: under one that is sensitive the values
\* of the others are written too.
Leaves(a) == IF a.members = <<>> THEN <<a>> ELSE a.members
LeavesRedacted ==
  Done("log") =>
    LET logged == Leaves(input.of)
        written == Leaves(output.is)
    IN /\ output.is.name = input.of.name /\ DOMAIN written = DOMAIN logged
       /\ \A i \in DOMAIN logged :
            /\ written[i].name = logged[i].name
            /\ written[i].value = IF IsSensitive(logged[i].name) THEN "<redacted>" ELSE logged[i].value
=============================================================================
