------------------------------- MODULE Tools -------------------------------
(***************************************************************************)
(* The tool handlers of internal/tools, called concurrently in one server  *)
(* process, over the Proton account.  A handler is a sequence of requests  *)
(* that stops at the first error.  Between two requests other calls, and   *)
(* the owner in a browser, may change the account; a request may fail,     *)
(* or take effect although its answer is lost; and the process may exit at *)
(* any point.                                                              *)
(*                                                                         *)
(* A setting holds who wrote it last: Old or a call.                       *)
(***************************************************************************)
EXTENDS Server, Naturals, Sequences, FiniteSets

CONSTANTS
  Calls,        \* tool calls made
  Addresses,    \* mail addresses that may come to exist
  Existing,     \* those that exist at the start
  OnDomain,     \* those that belong to the custom domain
  Old, None,
  MaxEdits,     \* bound: edits in the browser
  MaxRotations  \* bound: token rotations that change persistDegraded

ASSUME ToolsAssumption ==
  /\ Existing \subseteq Addresses /\ OnDomain \subseteq Addresses
  /\ Old \notin Calls /\ None \notin Addresses
  /\ MaxEdits \in Nat /\ MaxRotations \in Nat

VARIABLES
  account,    \* the account at Proton
  degraded,   \* Session.persistDegraded
  call,       \* the tool calls
  edits,      \* edits in the browser so far
  rotations   \* changes of persistDegraded so far

vars == <<server, account, degraded, call, edits, rotations>>

Batches == {1, 2}  \* of message IDs, 150 each
Settings == {"name", "sig", "telemetry", "crash"}
Accounts == [set: [Settings -> Calls \cup {Old}], addrs: SUBSET Addresses,
             enabled: SUBSET Addresses, domain: {"absent", "added", "verified"},
             catchAll: Addresses \cup {None}, drafts: SUBSET Addresses,
             messages: SUBSET Batches, labelled: SUBSET Batches, read: SUBSET Batches]

\* todo: requests to come.  done: requests that took effect at Proton.
\* answer: the settings the handler returns.  said: the persistDegraded it
\* reports; flags: the values persistDegraded had since its user request.
NewCall == [state |-> "new", tool |-> "", prog |-> <<>>, todo |-> <<>>, arg |-> None,
            done |-> {}, answer |-> [s \in Settings |-> Old],
            said |-> FALSE, flags |-> {}]
States == {"new", "unauthorized", "running", "ok", "error"}

Init ==
  /\ ServerInit
  /\ account = [set |-> [s \in Settings |-> Old], addrs |-> Existing, enabled |-> Existing,
                domain |-> "verified", catchAll |-> None, drafts |-> {},
                messages |-> Batches, labelled |-> {}, read |-> {}]
  /\ degraded = FALSE
  /\ call = [c \in Calls |-> NewCall]
  /\ edits = 0 /\ rotations = 0

(***************************************************************************)
(* The tools, as the requests their handlers make in order.  "client"      *)
(* stands for Session.Client, "keyrings" and "calendarKeyring" for those   *)
(* of the session, "status" for Session.Status, which makes no request.    *)
(* Session.Raw reports no error, so the domain tools start with a request. *)
(***************************************************************************)
\* Mutant: the status is read before the request that may change it.
Whoami_StatusFirst == <<"client", "status", "getUser">>
Whoami == <<"client", "getUser", "status">>
SessionStatus == <<"client", "status", "getUser">>

ReadAddresses == <<"client", "get">>
ReadKeys == <<"client", "get">>
ReadLabels == <<"client", "get">>
SearchMessages == <<"client", "get">>
ListCalendars == <<"client", "get">>
CreateAddress == <<"createAddress">>
SetAddressStatus(enabled) == <<"client", IF enabled THEN "enableAddress" ELSE "disableAddress">>
DeleteAddress == <<"client", "deleteAddress">>

ReadDomains == <<"get">>
AddDomain == <<"addDomain">>
VerifyDomain == <<"verifyDomain">>
RemoveDomain == <<"removeDomain">>
SetCatchAll == <<"checkOnDomain", "setCatchAll">>
DisableCatchAll == <<"clearCatchAll">>

\* A partial update sends one request per field given, in this order.  Name and
\* signature are settings of the account, also for proton_update_address.
Given(one, two, given) ==
  <<"client">> \o (IF one \in given THEN <<one>> ELSE <<>>)
               \o (IF two \in given THEN <<two>> ELSE <<>>)
ReadSettings == <<"client", "getSettings">>
UpdateAddress(given) == Given("name", "sig", given)
UpdateMailSettings(given) ==
  IF given = {} THEN ReadSettings ELSE Given("name", "sig", given)
UpdateCoreSettings(given) ==
  IF given = {} THEN ReadSettings ELSE Given("telemetry", "crash", given)

ReadBody == <<"client", "get", "keyrings">>
Draft == <<"client", "resolveSender", "keyrings", "saveDraft">>

LabelMessages == <<"client", "label1", "label2">>
MarkMessages == <<"client", "mark1", "mark2">>
DeleteMessages == <<"client", "deleteMessages">>

ListEvents == <<"client", "get", "calendarKeyring", "get">>
GetEvent == <<"client", "calendarKeyring", "get">>

ReadTools ==
  {<<"whoami", Whoami>>, <<"session_status", SessionStatus>>}
    \cup ({"read"} \X {ReadAddresses, ReadKeys, ReadLabels, SearchMessages, ListCalendars,
                        ReadDomains, ReadSettings, ReadBody, ListEvents, GetEvent})
WriteTools ==
  {<<"create_address", CreateAddress>>, <<"add_domain", AddDomain>>,
   <<"verify_domain", VerifyDomain>>, <<"set_catchall", SetCatchAll>>,
   <<"disable_catchall", DisableCatchAll>>, <<"draft", Draft>>,
   <<"label", LabelMessages>>, <<"mark", MarkMessages>>}
    \cup {<<"set_status", SetAddressStatus(b)>> : b \in BOOLEAN}
    \cup {<<"update", UpdateAddress(g)>> : g \in SUBSET {"name", "sig"}}
    \cup {<<"update", UpdateMailSettings(g)>> : g \in SUBSET {"name", "sig"}}
    \cup {<<"update", UpdateCoreSettings(g)>> : g \in SUBSET {"telemetry", "crash"}}
DangerousTools ==
  {<<"delete_address", DeleteAddress>>, <<"remove_domain", RemoveDomain>>,
   <<"delete_messages", DeleteMessages>>}

\* The argument: an address where the tool takes one.
TakesAddress == {"set_status", "set_catchall", "draft", "delete_address"}

\* Mutant: a register function lacks its `if !WritesEnabled() { return }`.
Registered_WritesAlways ==
  ReadTools \cup WriteTools \cup (IF env.writes /\ env.dangerous THEN DangerousTools ELSE {})
Registered ==
  ReadTools \cup (IF env.writes THEN WriteTools ELSE {})
            \cup (IF env.writes /\ env.dangerous THEN DangerousTools ELSE {})

(***************************************************************************)
(* A call arrives and starts.                                              *)
(***************************************************************************)
Serving == stage \in {"stdio", "sse", "shutdown"}

\* bearerAuth: over SSE only the exact token gets past.
Accepted(header) == stage = "sse" => header = "token"

Invoke(c) ==
  /\ stage \in {"stdio", "sse"} /\ call[c].state = "new"
  /\ \E header \in {"none", "other", "token"}, t \in Registered, a \in Addresses \cup {None} :
       /\ t[1] \in TakesAddress <=> a # None
       /\ call' = [call EXCEPT ![c] =
            IF Accepted(header)
            THEN [NewCall EXCEPT !.state = "running", !.tool = t[1], !.prog = t[2],
                                 !.todo = t[2], !.arg = a]
            ELSE [NewCall EXCEPT !.state = "unauthorized"]]
  /\ UNCHANGED <<server, account, degraded, edits, rotations>>

\* Call c past its request, and call c at its end.
Ended(c, state) == [call[c] EXCEPT !.state = state, !.todo = <<>>, !.arg = None]
Advanced(c) == IF Len(call[c].todo) = 1 THEN Ended(c, "ok")
               ELSE [call[c] EXCEPT !.todo = Tail(@)]

\* A missing or malformed argument ends the call before any request.
Invalid(c) ==
  /\ Serving /\ call[c].state = "running" /\ call[c].todo = call[c].prog
  /\ call' = [call EXCEPT ![c] = Ended(c, "error")]
  /\ UNCHANGED <<server, account, degraded, edits, rotations>>

(***************************************************************************)
(* Requests.                                                               *)
(***************************************************************************)
Running(c) == Serving /\ call[c].state = "running" /\ call[c].todo # <<>>
Request(c) == Head(call[c].todo)
Plain == {"client", "status", "keyrings", "calendarKeyring"}  \* not requests of the handler

\* Whether what request r names exists.  The argument of a draft is its sender,
\* given or picked: resolveSender passes enabled addresses only.
Exists(c, r) ==
  CASE r \in {"enableAddress", "disableAddress", "deleteAddress", "setCatchAll"} ->
         call[c].arg \in account.addrs
    [] r = "createAddress" -> account.domain # "absent" /\ OnDomain \ account.addrs # {}
    [] r = "resolveSender" -> call[c].arg \in account.enabled
    [] r \in {"verifyDomain", "removeDomain", "clearCatchAll"} -> account.domain # "absent"
    [] r = "addDomain" -> account.domain = "absent"
    [] OTHER -> TRUE

\* Mutant: the destination is not looked up on the domain.
Possible_AnyDestination(c, r) == Exists(c, r)

\* Whether request r can succeed; checkOnDomain is the lookup of set_catchall.
Possible(c, r) ==
  /\ Exists(c, r)
  /\ r = "checkOnDomain" => /\ account.domain # "absent"
                            /\ call[c].arg \in account.addrs \cap OnDomain

\* The accounts request r of call c may leave.
After(c, r) ==
  CASE r \in Settings -> {[account EXCEPT !.set[r] = c]}
    [] r = "createAddress" ->
         {[account EXCEPT !.addrs = @ \cup {a}, !.enabled = @ \cup {a}] :
            a \in OnDomain \ account.addrs}
    [] r = "enableAddress" -> {[account EXCEPT !.enabled = @ \cup {call[c].arg}]}
    [] r = "disableAddress" -> {[account EXCEPT !.enabled = @ \ {call[c].arg}]}
    [] r = "deleteAddress" -> {[account EXCEPT !.addrs = @ \ {call[c].arg},
                                               !.enabled = @ \ {call[c].arg}]}
    [] r = "addDomain" -> {[account EXCEPT !.domain = "added"]}
    [] r = "verifyDomain" -> {[account EXCEPT !.domain = d] : d \in {"added", "verified"}}
    [] r = "removeDomain" -> {[account EXCEPT !.domain = "absent", !.catchAll = None,
                                              !.addrs = @ \ OnDomain, !.enabled = @ \ OnDomain]}
    [] r = "setCatchAll" -> {[account EXCEPT !.catchAll = call[c].arg]}
    [] r = "clearCatchAll" -> {[account EXCEPT !.catchAll = None]}
    [] r = "saveDraft" -> {[account EXCEPT !.drafts = @ \cup {call[c].arg}]}
    [] r \in {"label1", "label2"} ->
         {[account EXCEPT !.labelled = @ \cup {IF r = "label1" THEN 1 ELSE 2}]}
    [] r \in {"mark1", "mark2"} ->
         {[account EXCEPT !.read = @ \cup {IF r = "mark1" THEN 1 ELSE 2}]}
    [] r = "deleteMessages" -> {[account EXCEPT !.messages = {}]}
    [] OTHER -> {account}

\* A request may rotate the tokens, and the save of the new pair sets or
\* clears persistDegraded; calls past their user request take note of it.
Rotation(c, next) ==
  \E d \in BOOLEAN :
    /\ d # degraded => rotations < MaxRotations
    /\ degraded' = d
    /\ rotations' = rotations + (IF d # degraded THEN 1 ELSE 0)
    /\ call' = [o \in Calls |->
         LET n == IF o = c THEN next ELSE call[o]
         IN [n EXCEPT !.flags =
              IF o = c /\ n.tool = "whoami" /\ Request(c) = "getUser" THEN {d}
              ELSE IF @ = {} \/ n.state # "running" THEN @ ELSE @ \cup {d}]]

\* Mutant: the settings of the first answer are kept (a shadowed `ms, err :=`).
Answer_First(c, r) ==
  IF r \in Settings /\ \A s \in Settings : call[c].answer[s] = Old
  THEN account'.set ELSE call[c].answer
\* The answer to a settings request holds all the settings, as they now are.
Answer(c, r) == IF r \in Settings \cup {"getSettings"} THEN account'.set ELSE call[c].answer

Succeeds(c) ==
  /\ Running(c) /\ Request(c) # "status"
  /\ Possible(c, Request(c)) /\ account' \in After(c, Request(c))
  /\ Rotation(c, [Advanced(c) EXCEPT !.done = @ \cup ({Request(c)} \ Plain),
                                     !.answer = Answer(c, Request(c))])
  /\ UNCHANGED <<server, edits>>

ReadsStatus(c) ==
  /\ Running(c) /\ Request(c) = "status"
  /\ call' = [call EXCEPT ![c] = [Advanced(c) EXCEPT !.said = degraded]]
  /\ UNCHANGED <<server, account, degraded, edits, rotations>>

\* Mutant: the error of a settings request is overwritten by the next one's.
AfterError_Overwritten(c) ==
  IF Request(c) \in Settings /\ Len(call[c].todo) > 1
  THEN [call[c] EXCEPT !.todo = Tail(@)] ELSE Ended(c, "error")

\* The first error ends the call, but session_status reports it as a session
\* that is not logged in.
AfterError(c) ==
  IF call[c].tool # "session_status" THEN Ended(c, "error")
  ELSE IF Request(c) = "client" THEN [call[c] EXCEPT !.todo = <<"status">>]
  ELSE Ended(c, "ok")

\* Labelling undoes its earlier batches when Proton refused one; when the batch
\* failed to be sent, or the undoing fails too, they stay.
Undone(c) == IF Request(c) = "label2" THEN {{}, {"label1"}} ELSE {{}}

\* The request fails and has no effect of its own.  Deleting sends its batches
\* in parallel, and any of them may go.
Refused(c) ==
  /\ Running(c) /\ Request(c) # "status"
  /\ \E undone \in Undone(c) :
       /\ account' \in
            CASE Request(c) = "label2" ->
                   {IF undone = {} THEN account ELSE [account EXCEPT !.labelled = @ \ {1}]}
              [] Request(c) = "deleteMessages" ->
                   {[account EXCEPT !.messages = @ \ B] : B \in SUBSET Batches}
              [] OTHER -> {account}
       /\ Rotation(c, [AfterError(c) EXCEPT !.done = @ \ undone])
  /\ UNCHANGED <<server, edits>>

\* The request took effect and the answer was lost.
Lost(c) ==
  /\ Running(c) /\ Request(c) \notin Plain
  /\ Possible(c, Request(c)) /\ account' \in After(c, Request(c))
  /\ call' = [call EXCEPT ![c] = [AfterError(c) EXCEPT !.done = @ \cup {Request(c)}]]
  /\ UNCHANGED <<server, degraded, edits, rotations>>

\* The owner deletes an address in the browser.
Edit ==
  /\ Serving /\ edits < MaxEdits /\ edits' = edits + 1
  /\ account' \in {[account EXCEPT !.addrs = @ \ {a}, !.enabled = @ \ {a}] : a \in account.addrs}
  /\ UNCHANGED <<server, degraded, call, rotations>>

CallStep(c) ==
  \/ Invoke(c) \/ Invalid(c) \/ Succeeds(c) \/ ReadsStatus(c) \/ Refused(c) \/ Lost(c)

ServerStep == ServerNext /\ UNCHANGED <<account, degraded, call, edits, rotations>>
ForcedExit == ForceExit /\ UNCHANGED <<account, degraded, call, edits, rotations>>

Next == ServerStep \/ Edit \/ \E c \in Calls : CallStep(c)

\* The forced exit is a timer of the runtime and waits for nothing else.
Spec == Init /\ [][Next]_vars /\ WF_vars(ForcedExit)

-----------------------------------------------------------------------------
RequestsOf(prog) == {prog[i] : i \in 1..Len(prog)}

TypeOK ==
  /\ ServerTypeOK
  /\ account \in Accounts /\ account.enabled \subseteq account.addrs
  /\ degraded \in BOOLEAN
  /\ \A c \in Calls : /\ call[c].state \in States
                      /\ call[c].done \subseteq RequestsOf(call[c].prog)
                      /\ call[c].flags \subseteq BOOLEAN
  /\ edits \in 0..MaxEdits /\ rotations \in 0..MaxRotations

\* What a call reports is what it did: a tool that says it succeeded had every
\* one of its requests take effect, and one that failed, or that the exit of
\* the process cut, left the effects of an initial part of them.
AppliedAsReported ==
  \A c \in Calls :
    LET p == call[c].prog
    IN /\ call[c].state = "ok" /\ call[c].tool # "session_status"
            => call[c].done = RequestsOf(p) \ Plain
       /\ \A i, j \in 1..Len(p) :
            i < j /\ p[i] \notin Plain /\ p[j] \in call[c].done => p[i] \in call[c].done

\* The settings an update returns never show, for a field it was given, the
\* value from before: not with two fields, nor with another update going on.
ReportsOwnUpdate ==
  \A c \in Calls : call[c].state = "ok" /\ call[c].tool = "update" =>
    \A s \in Settings \cap RequestsOf(call[c].prog) : call[c].answer[s] # Old

\* Catch-all mail is only ever routed to an address of that domain.
CatchAllOnDomain == account.catchAll \in OnDomain \cup {None}

\* whoami reports a persistence flag no older than the user it reports, so a
\* failed save of a rotation its own request caused is in it.
WhoamiReportsOwnRotation ==
  \A c \in Calls : call[c].state = "ok" /\ call[c].tool = "whoami" => call[c].said \in call[c].flags

\* Without ENABLE_WRITES no call changes the account, and without
\* ENABLE_DANGEROUS too no call destroys an address, the domain or a message.
GatesHold == [][
  edits' = edits =>
    /\ account' # account => env.writes
    /\ ~(account.addrs \subseteq account'.addrs) \/ ~(account.messages \subseteq account'.messages)
         \/ (account.domain # "absent" /\ account'.domain = "absent") => env.dangerous]_vars
=============================================================================
