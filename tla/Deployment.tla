----------------------------- MODULE Deployment -----------------------------
(***************************************************************************)
(* The processes of one installation: servers and the commands login,      *)
(* logout and status, all of one binary, over one OS keychain and Proton.  *)
(*                                                                         *)
(* Inside a process the Session is sequential here (module Session has its *)
(* goroutines) but for requests of clients that a self-heal has replaced;  *)
(* between processes every keychain entry, every request to Proton and     *)
(* every exit interleaves.                                                 *)
(***************************************************************************)
EXTENDS Naturals, Sequences

CONSTANTS
  Servers,     \* processes that serve MCP
  Commands,    \* slots in which commands run, one after another
  None,        \* no value, no account
  Accounts,    \* Proton accounts somebody may log in to
  WithSecret,  \* those whose user answers 2FA with the TOTP secret, not a code
  MaxSession,  \* bound: Proton sessions ever created
  MaxGen,      \* bound: token generations of a session
  Faults       \* "fail", "down": faults of the keychain

VARIABLES
  keys, call,  \* the keychain
  proton,      \* Proton: the account and newest generation of each session
  job,         \* the command a process runs, "" when it does not run
  pc,          \* where in it the process is
  mem,         \* its memory
  calm,        \* history: no other process changed the keychain since the start
  promise      \* history: what the last exit with code 0 says of the keychain

Procs == Servers \cup Commands
Sids == 1..MaxSession
Values == [id: 0..MaxSession \cup Accounts, gen: 0..MaxGen]
INSTANCE Keychain

kvars == <<keys, call>>
history == <<calm, promise>>
vars == <<kvars, proton, job, pc, mem, history>>

ASSUME DeploymentAssumption ==
  /\ Servers \cap Commands = {} /\ WithSecret \subseteq Accounts /\ Accounts \subseteq Nat \ {0}
  /\ MaxSession \in Nat \ {0} /\ MaxGen \in Nat \ {0}
  /\ None \notin Accounts \cup Sids \cup Values

\* Bundles.  A token is the Proton session it belongs to and a generation; the
\* credentials of an account are the account.
Plain(i) == [id |-> i, gen |-> 0]
Token(s, g) == [id |-> s, gen |-> g]
CredBundle(a) ==
  [Blank EXCEPT !["username"] = Plain(a), !["password"] = Plain(a),
                !["totp"] = IF a \in WithSecret THEN Plain(a) ELSE None]
SessBundle(s, g) ==
  [Blank EXCEPT !["uid"] = Plain(s), !["refresh"] = Token(s, g)]

\* Proton honours the newest refresh token of the session the UID names.
Honoured(b) == /\ b["refresh"] # None /\ b["uid"].id = b["refresh"].id
               /\ proton[b["uid"].id].gen = b["refresh"].gen
Unused == {s \in Sids : proton[s].gen = 0}
NewTokens(b) == SessBundle(b["uid"].id, b["refresh"].gen + 1)

\* The fields of Session: clients are the tokens of its client and of those
\* that a self-heal replaced; exhausted and scopeSpent are the two latches.
NoMem == [current |-> Blank, next |-> Blank, creds |-> Blank, clients |-> {},
          degraded |-> FALSE, exhausted |-> FALSE, scopeSpent |-> FALSE,
          poisoned |-> FALSE]
NoPromise == [of |-> "", keys |-> Blank]

Labels == {"off", "start", "serving", "getUser", "clear", "loadSess", "saveCold",
           "loadCreds", "saveCreds", "saveSess", "rollback", "saveRot"}

Init ==
  /\ \/ keys = Blank /\ proton = [s \in Sids |-> [acct |-> None, gen |-> 0]]
     \/ \E a \in Accounts :
          /\ keys = [e \in Entries |-> IF e \in InSession
                                       THEN SessBundle(1, 1)[e]
                                       ELSE CredBundle(a)[e]]
          /\ proton = [s \in Sids |-> IF s = 1 THEN [acct |-> a, gen |-> 1]
                                               ELSE [acct |-> None, gen |-> 0]]
  /\ call = [p \in Procs |-> NoCall]
  /\ job = [p \in Procs |-> ""] /\ pc = [p \in Procs |-> "off"]
  /\ mem = [p \in Procs |-> NoMem]
  /\ calm = [p \in Procs |-> FALSE] /\ promise = [p \in Procs |-> NoPromise]

(***************************************************************************)
(* Control.  An exit ends whatever the process was doing; said: what an    *)
(* exit code of 0 claims.                                                  *)
(***************************************************************************)
Go(p, label) == pc' = [pc EXCEPT ![p] = label]

\* The deferred cleanup is left out of one exit path.
Exit_KeepsJob(p, said) ==
  /\ pc' = [pc EXCEPT ![p] = "off"]
  /\ call' = [call EXCEPT ![p] = NoCall]
  /\ mem' = [mem EXCEPT ![p] = NoMem]
  /\ calm' = [calm EXCEPT ![p] = FALSE]
  /\ promise' = [promise EXCEPT ![p] = said]
  /\ UNCHANGED <<keys, proton, job>>

Exit(p, said) ==
  /\ job' = [job EXCEPT ![p] = ""]
  /\ pc' = [pc EXCEPT ![p] = "off"]
  /\ call' = [call EXCEPT ![p] = NoCall]
  /\ mem' = [mem EXCEPT ![p] = NoMem]
  /\ calm' = [calm EXCEPT ![p] = FALSE]
  /\ promise' = [promise EXCEPT ![p] = IF calm[p] THEN said ELSE NoPromise]
  /\ UNCHANGED <<keys, proton>>

Start(p, command, label) ==
  /\ pc[p] = "off"
  /\ job' = [job EXCEPT ![p] = command]
  /\ Go(p, label)
  /\ calm' = [calm EXCEPT ![p] = TRUE]
  /\ promise' = [promise EXCEPT ![p] = NoPromise]
  /\ UNCHANGED <<kvars, proton, mem>>

\* Client() returned nil, err: the tool call fails, and status, which then
\* says "not logged in" (or in which other backend it found a session), exits.
ClientFails(p, m) ==
  \/ /\ job[p] = "server"
     /\ Go(p, "serving") /\ mem' = [mem EXCEPT ![p] = m]
     /\ call' = [call EXCEPT ![p] = NoCall]
     /\ UNCHANGED <<keys, proton, job, history>>
  \/ job[p] = "status" /\ Exit(p, NoPromise)

\* Client(), or a handler of a rotation, returned and left the memory m.
ClientReturns(p, m) ==
  /\ Go(p, IF job[p] = "server" THEN "serving" ELSE "getUser")
  /\ mem' = [mem EXCEPT ![p] = m]
  /\ call' = [call EXCEPT ![p] = NoCall]
  /\ UNCHANGED <<keys, proton, job, history>>

\* The next keychain call, with the memory m.
Calls(p, label, op, val, m) ==
  /\ Begin(p, op, val) /\ Go(p, label)
  /\ mem' = [mem EXCEPT ![p] = m]
  /\ UNCHANGED <<keys, job, history>>

(***************************************************************************)
(* Mutants: plausible bugs, not part of Next.                              *)
(***************************************************************************)
\* A cold start by status does not save what the refresh returned.
Refresh_StatusDoesNotSave(p) ==
  /\ pc[p] = "loadSess" /\ Returned(p, "loadSession") /\ call[p].res = "ok"
  /\ Honoured(call[p].val) /\ call[p].val["refresh"].gen < MaxGen
  /\ proton' = [proton EXCEPT ![call[p].val["uid"].id].gen = @ + 1]
  /\ IF job[p] = "status"
     THEN /\ Go(p, "getUser") /\ call' = [call EXCEPT ![p] = NoCall]
          /\ mem' = [mem EXCEPT ![p].current = NewTokens(call[p].val),
                                ![p].clients = {NewTokens(call[p].val)}]
          /\ UNCHANGED <<keys, job, history>>
     ELSE Calls(p, "saveCold", "saveSession", NewTokens(call[p].val), mem[p])

\* OnAuthRotated does not record that the save failed.
RotateSaved_ForgetsFailure(p) ==
  /\ pc[p] = "saveRot" /\ Returned(p, "saveSession")
  /\ ClientReturns(p, [mem[p] EXCEPT !.degraded = FALSE])

(***************************************************************************)
(* The keychain calls, entry by entry.                                     *)
(***************************************************************************)
ChangeEntry(p) ==
  /\ WriteEntry(p) \/ DeleteEntry(p)
  /\ calm' = [q \in Procs |-> calm[q] /\ q = p]
  /\ promise' = [q \in Procs |-> IF q = p THEN promise[q] ELSE NoPromise]
  /\ UNCHANGED <<proton, job, pc, mem>>

OtherEntry(p) ==
  /\ ReadEntry(p) \/ EntryFails(p)
  /\ UNCHANGED <<proton, job, pc, mem, history>>

(***************************************************************************)
(* Client: load, refresh, save, or log in again with stored credentials.   *)
(***************************************************************************)
\* A client at hand is returned as it is; a poisoned session loads nothing.
ToolCall(p) ==
  /\ pc[p] = "serving" /\ mem[p].clients = {} /\ ~mem[p].poisoned
  /\ Calls(p, "loadSess", "loadSession", Blank, mem[p])
  /\ UNCHANGED proton

\* Nothing stored, a store that cannot be read, or Proton not reachable.
ColdFails(p) ==
  /\ pc[p] = "loadSess" /\ Returned(p, "loadSession")
  /\ ClientFails(p, mem[p])

Refresh(p) ==
  /\ pc[p] = "loadSess" /\ Returned(p, "loadSession") /\ call[p].res = "ok"
  /\ Honoured(call[p].val) /\ call[p].val["refresh"].gen < MaxGen
  /\ proton' = [proton EXCEPT ![call[p].val["uid"].id].gen = @ + 1]
  /\ Calls(p, "saveCold", "saveSession", NewTokens(call[p].val), mem[p])

RefreshSaved(p) ==
  /\ pc[p] = "saveCold" /\ Returned(p, "saveSession")
  /\ ClientReturns(p, [mem[p] EXCEPT !.current = call[p].val, !.clients = {call[p].val},
                                     !.degraded = (call[p].res # "ok")])

RefreshRejected(p) ==
  /\ pc[p] = "loadSess" /\ Returned(p, "loadSession") /\ call[p].res = "ok"
  /\ ~Honoured(call[p].val) /\ ~mem[p].exhausted
  /\ Calls(p, "loadCreds", "loadCreds", Blank, mem[p])
  /\ UNCHANGED proton

\* healScopeDenial: Proton has denied the client's session the salts, and a
\* login with the stored credentials is tried while the client stays in use.
\* (The credentials that unlockOnce loads before it asks change nothing.)
HealScope(p) ==
  /\ pc[p] = "serving" /\ mem[p].clients # {} /\ ~mem[p].scopeSpent
  /\ Calls(p, "loadCreds", "loadCreds", Blank, mem[p])
  /\ UNCHANGED proton

\* The latch that a login in vain sets: Client's, or the scope self-heal's.
Latched(m) == IF m.clients = {} THEN [m EXCEPT !.exhausted = TRUE, !.next = Blank]
                                ELSE [m EXCEPT !.scopeSpent = TRUE, !.next = Blank]

\* No usable credentials, no TOTP secret, or any other reason not to log in.
ReloginFails(p) ==
  /\ pc[p] = "loadCreds" /\ Returned(p, "loadCreds")
  /\ ClientFails(p, Latched(mem[p]))

\* The second factor is answered from the stored secret.
Relogin(p) ==
  LET creds == call[p].val IN
  /\ pc[p] = "loadCreds" /\ Returned(p, "loadCreds") /\ call[p].res = "ok"
  /\ creds["username"] = creds["password"] /\ creds["totp"] = creds["username"]
  /\ \E s \in Unused :
       /\ proton' = [proton EXCEPT ![s] = [acct |-> creds["username"].id, gen |-> 1]]
       /\ Calls(p, "saveCreds", "saveCreds", creds,
                [mem[p] EXCEPT !.next = SessBundle(s, 1)])

(***************************************************************************)
(* persistLoginState, for login and relogin.                               *)
(***************************************************************************)
\* The error goes to the login command, or to the caller of reloginLocked.
LoginFails(p, m) ==
  \/ job[p] = "login" /\ Exit(p, NoPromise)
  \/ job[p] # "login" /\ ClientFails(p, Latched(m))

CredsSaved(p) ==
  /\ pc[p] = "saveCreds" /\ Returned(p, "saveCreds") /\ call[p].res = "ok"
  /\ Calls(p, "saveSess", "saveSession", mem[p].next, mem[p])
  /\ UNCHANGED proton

\* rollbackLoginPersist: nothing to clear on a backend that is unreachable.
Rollback(p) ==
  /\ pc[p] \in {"saveCreds", "saveSess"}
  /\ \/ /\ call[p].res = "failed"
        /\ Calls(p, "rollback", "clear", Blank, mem[p])
        /\ UNCHANGED proton
     \/ call[p].res = "down" /\ LoginFails(p, mem[p])

RolledBack(p) ==
  /\ pc[p] = "rollback" /\ Returned(p, "clear")
  /\ LoginFails(p, IF call[p].res = "ok" THEN mem[p]
                                         ELSE [mem[p] EXCEPT !.poisoned = TRUE])

\* A login replaces the client without closing the one before and resets both
\* latches; the salts denied again after a self-heal spend its latch.
LoginSaved(p) ==
  /\ pc[p] = "saveSess" /\ Returned(p, "saveSession") /\ call[p].res = "ok"
  /\ \/ /\ job[p] = "login"
        /\ Exit(p, [of |-> "login",
                       keys |-> [e \in Entries |-> IF mem[p].next[e] = None
                                                   THEN mem[p].creds[e]
                                                   ELSE mem[p].next[e]]])
     \/ /\ job[p] # "login"
        /\ \E denied \in BOOLEAN :
             /\ mem[p].clients = {} => ~denied
             /\ ClientReturns(p, [mem[p] EXCEPT
                  !.current = mem[p].next, !.next = Blank,
                  !.clients = @ \cup {mem[p].next}, !.degraded = FALSE,
                  !.exhausted = FALSE, !.scopeSpent = denied])

(***************************************************************************)
(* The library refreshes when a request finds the access token expired,    *)
(* and calls OnAuthRotated; so does a request still made with a client     *)
(* that a self-heal replaced.                                              *)
(***************************************************************************)
Rotate(p) ==
  /\ pc[p] \in {"serving", "getUser"}
  /\ \E b \in mem[p].clients :
       /\ Honoured(b) /\ b["refresh"].gen < MaxGen
       /\ proton' = [proton EXCEPT ![b["uid"].id].gen = @ + 1]
       /\ Calls(p, "saveRot", "saveSession", NewTokens(b),
                [mem[p] EXCEPT !.current = NewTokens(b),
                               !.clients = (@ \ {b}) \cup {NewTokens(b)}])

RotateSaved(p) ==
  /\ pc[p] = "saveRot" /\ Returned(p, "saveSession")
  /\ ClientReturns(p, [mem[p] EXCEPT !.degraded = (call[p].res # "ok")])

(***************************************************************************)
(* The commands.  A refused environment (SelectStore) is an exit with 1.   *)
(***************************************************************************)
Refused(p) ==
  /\ job[p] # "" /\ pc[p] = "start"
  /\ Exit(p, NoPromise)

StartCommand(p) ==
  /\ p \in Commands
  /\ \E c \in {"login", "logout", "status"} : Start(p, c, "start")

\* runLogin: the account, and a TOTP secret or a one-shot code when asked; the
\* first attempt, answered with ErrTOTPRequired, changes nothing.  The command
\* has no mailbox password to give.
Login(p) ==
  /\ pc[p] = "start" /\ job[p] = "login"
  /\ \E a \in Accounts, s \in Unused :
       /\ proton' = [proton EXCEPT ![s] = [acct |-> a, gen |-> 1]]
       /\ Calls(p, "saveCreds", "saveCreds", CredBundle(a),
                [mem[p] EXCEPT !.creds = CredBundle(a),
                               !.next = SessBundle(s, 1)])

Logout(p) ==
  /\ pc[p] = "start" /\ job[p] = "logout"
  /\ Calls(p, "clear", "clear", Blank, mem[p])
  /\ UNCHANGED proton

LogoutEnds(p) ==
  /\ pc[p] = "clear" /\ Returned(p, "clear")
  /\ IF call[p].res = "ok" THEN Exit(p, [of |-> "logout", keys |-> Blank])
                           ELSE Exit(p, NoPromise)

Status(p) ==
  /\ pc[p] = "start" /\ job[p] = "status"
  /\ Calls(p, "loadSess", "loadSession", Blank, mem[p])
  /\ UNCHANGED proton

\* GetUser answers or fails; degraded persistence is exit code 3.
StatusEnds(p) ==
  /\ pc[p] = "getUser"
  /\ \/ Exit(p, NoPromise)
     \/ mem[p].degraded /\ Exit(p, NoPromise)
     \/ ~mem[p].degraded /\ Exit(p, [of |-> "status", keys |-> mem[p].current])

(***************************************************************************)
(* The server comes and goes (module Server has its life).  Any process    *)
(* may die: os.Exit and a signal end it wherever it is.                    *)
(***************************************************************************)
StartServer(p) == p \in Servers /\ Start(p, "server", "serving")

Die(p) == job[p] # "" /\ Exit(p, NoPromise)

\* Steps of a call or command that has begun.
Step(p) ==
  \/ ChangeEntry(p) \/ OtherEntry(p)
  \/ ColdFails(p) \/ Refresh(p) \/ RefreshSaved(p) \/ RefreshRejected(p)
  \/ ReloginFails(p) \/ Relogin(p)
  \/ CredsSaved(p) \/ Rollback(p) \/ RolledBack(p) \/ LoginSaved(p)
  \/ RotateSaved(p)
  \/ Refused(p) \/ Login(p) \/ Logout(p) \/ LogoutEnds(p) \/ Status(p) \/ StatusEnds(p)

Next == \E p \in Procs :
  \/ Step(p) \/ ToolCall(p) \/ HealScope(p) \/ Rotate(p)
  \/ StartCommand(p) \/ StartServer(p) \/ Die(p)

Spec == Init /\ [][Next]_vars
(***************************************************************************)
(* Properties.                                                             *)
(***************************************************************************)
TypeOK ==
  /\ keys \in Bundles
  /\ call \in [Procs -> [op: Ops \cup {"none"}, pos: 0..5, val: Bundles, res: Results]]
  /\ proton \in [Sids -> [acct: Accounts \cup {None}, gen: 0..MaxGen]]
  /\ calm \in [Procs -> BOOLEAN]
  /\ job \in [Procs -> {"", "server", "login", "logout", "status"}]
  /\ pc \in [Procs -> Labels]
  /\ mem \in [Procs -> [current: Bundles, next: Bundles, creds: Bundles,
                        clients: SUBSET Bundles, degraded: BOOLEAN, exhausted: BOOLEAN,
                        scopeSpent: BOOLEAN, poisoned: BOOLEAN]]
  /\ promise \in [Procs -> [of: {"", "login", "logout", "status"}, keys: Bundles]]
  /\ \A p \in Procs : (pc[p] = "off") <=> (job[p] = "")

\* A login that reports success left exactly its own credentials and session
\* in the keychain, nothing of a prior login among them, unless another
\* process wrote meanwhile.
LoginStoresBoth ==
  \A p \in Procs : promise[p].of = "login" => keys = promise[p].keys

\* After a logout that reports success no entry is left, unless another process
\* wrote meanwhile.
LogoutLeavesNothing ==
  \A p \in Procs : promise[p].of = "logout" => keys = Blank

\* A status check that reports a working session with exit code 0 left the
\* tokens it rotated in the keychain, unless another process wrote meanwhile:
\* the next process to start finds the newest.  (A server that is running keeps
\* in its memory the ones that the check retired, and does not read again.)
StatusKeepsTokens ==
  \A p \in Procs : promise[p].of = "status" =>
    \A e \in InSession : keys[e] = promise[p].keys[e]

\* A server that does not report degraded persistence has its current tokens in
\* the keychain, unless another process wrote since it started or it has tried a
\* scope self-heal in vain: the Clear that rolls back a login that could not be
\* saved removes the tokens of the client in use, and the flag says nothing.
UndegradedIsStored ==
  \A p \in Procs : pc[p] = "serving" /\ mem[p].current # Blank
                     /\ ~mem[p].degraded /\ ~mem[p].scopeSpent /\ calm[p] =>
    \A e \in InSession : keys[e] = mem[p].current[e]

\* Whatever saves overlap or are cut short, a session that could be loaded stays
\* loadable; only the entry-wise Clear takes that away.
OnlyClearMakesUnreadable ==
  [][SessionReadable(keys) /\ ~SessionReadable(keys')
       => \E p \in Procs : Running(p, {"clear"})]_vars
=============================================================================
