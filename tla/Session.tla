------------------------------ MODULE Session ------------------------------
(***************************************************************************)
(* internal/session.Session: the custody of one Proton session inside one  *)
(* process.  Goroutines (Threads) call the exported methods; the locks,    *)
(* the credential-store calls and the requests to Proton are the points    *)
(* where they interleave.  A critical section with neither store nor       *)
(* network access is one step, because nobody can observe its middle.      *)
(*                                                                         *)
(* A session bundle is what the keychain holds as keychain.Session: the    *)
(* Proton session it belongs to (UID), the generation of its refresh and   *)
(* access tokens (Proton rotates both together and honours only the newest *)
(* generation) and the scope string.  Sid 0 stands for the zero value.     *)
(***************************************************************************)
EXTENDS Naturals

CONSTANTS
  Threads,      \* goroutines calling into the Session
  NoThread,     \* the holder of a free lock
  MaxSession,   \* bound: Proton sessions ever created (one per login)
  MaxGen,       \* bound: token generations of one Proton session
  Ops,          \* which operations this process performs
  StoreFaults,  \* "read", "fail" (a write fails), "down" (backend unreachable)
  NetFaults,    \* "transient", "lost" (reply lost), "noop" (zero-valued Auth)
  LoginOutcomes,\* "ok", "fail" (includes a CAPTCHA challenge)
  LoginScopes,  \* scopes a fresh login may be granted
  InitScopes,   \* scopes of a session stored before the process started
  LoginInputs   \* what Login is given for 2FA: "secret" or a one-shot "code"

AllOps == {"Client", "Raw", "Keyrings", "Calendar", "Rotate", "Login", "Logout",
           "Restart", "Revoke"}

ASSUME ThreadsAssumption == NoThread \notin Threads
ASSUME BoundsAssumption == /\ MaxSession \in Nat \ {0}
                           /\ MaxGen \in Nat \ {0}
ASSUME ChoicesAssumption == /\ Ops \subseteq AllOps
                            /\ StoreFaults \subseteq {"read", "fail", "down"}
                            /\ NetFaults \subseteq {"transient", "lost", "noop"}
                            /\ LoginOutcomes \subseteq {"ok", "fail"}
                            /\ LoginScopes \subseteq {"full", "twofactor"}
                            /\ InitScopes \subseteq {"", "full", "twofactor"}
                            /\ LoginInputs \subseteq {"secret", "code"}

VARIABLES
  mu,         \* holder of s.mu for writing; read sections are single steps
  unlockMu,   \* holder of s.unlockMu
  client,     \* s.client, as the token it authenticates with
  raw,        \* the bearer and UID of s.raw
  current,    \* s.current
  open,       \* tokens of the proton.Clients not yet closed, replaced ones too
  persistDegraded, poisoned, reloginExhausted, scopeReloginExhausted,
  keyrings,   \* the Proton session whose keyrings are cached, 0 if none
  calKeyrings,\* the same for the keyring of a calendar
  store,      \* the credential store: login credentials and session bundle
  proton,     \* Proton's side of every session
  pc, frame,  \* each thread's position and locals
  hist        \* history, read by properties only

locks == <<mu, unlockMu>>
tokens == <<client, raw, current, open>>
latches == <<reloginExhausted, scopeReloginExhausted>>
flags == <<persistDegraded, poisoned, latches>>
caches == <<keyrings, calKeyrings>>
vars == <<locks, tokens, flags, caches, store, proton, pc, frame, hist>>

Sids == 1..MaxSession
Scopes == {"", "full", "twofactor"}
Bundles == [sid: 0..MaxSession, gen: 0..MaxGen, scope: Scopes]
NoSession == [sid |-> 0, gen |-> 0, scope |-> ""]
Tokens == [sid: 0..MaxSession, gen: 0..MaxGen]
NoToken == [sid |-> 0, gen |-> 0]
TokenOf(b) == [sid |-> b.sid, gen |-> b.gen]

\* Proton's view: a generation of 0 marks a session not created yet.
ProtonSessions == [gen: 0..MaxGen, live: BOOLEAN, scope: Scopes]
Honoured(tok) ==
  tok.sid \in Sids /\ proton[tok.sid].live /\ proton[tok.sid].gen = tok.gen
Unused == {s \in Sids : proton[s].gen = 0}
CanRotate(tok) == Honoured(tok) /\ tok.gen < MaxGen
Rotated(s) == [proton EXCEPT ![s].gen = @ + 1]

\* What there is to answer a 2FA challenge with, and how a login ended up in
\* the store: not at all, with a TOTP secret, or after a one-shot code.
Inputs == {"none", "secret", "code"}

\* Thread-local state.  phase: where Client() was called from.  why: who
\* started the login.  cal: whether CalendarKeyring called Keyrings.
Frames == [phase: {"", "direct", "unlock", "retry", "calendar"},
           why: {"", "login", "cold", "heal"},
           input: Inputs,
           cal: BOOLEAN,
           sid: 0..MaxSession,
           sess: Bundles]
NoFrame == [phase |-> "", why |-> "", input |-> "none", cal |-> FALSE, sid |-> 0,
            sess |-> NoSession]

\* Positions at which a thread holds mu for writing.
LoginLabels == {"relogin", "auth", "saveCreds", "saveSess", "rollback"}
Critical == LoginLabels \cup {"refresh", "saveCold", "logoutClear"}
RotationLabels == {"rotated", "rotSave", "rotSaved", "rotFailed"}
Labels == Critical \cup RotationLabels \cup
          {"idle", "client", "clientLock", "unlockMu", "recheck", "unlock",
           "storeKr", "denied", "heal", "latch", "resolve", "storeCal"}

\* Threads inside the unlockMu section of Keyrings.
Unlocking(t) == frame[t].phase \in {"unlock", "retry"}

Status == CASE current.scope = "" -> "unknown"
            [] current.scope = "full" -> "ok"
            [] OTHER -> "under_scoped"

HistZero == [cold |-> 0, heal |-> 0, blip |-> 0, saveFailed |-> FALSE]

(***************************************************************************)
(* A process starts with an empty Session over whatever store an earlier   *)
(* process left: nothing, or the credentials and session of one login,     *)
(* whose session Proton may have revoked meanwhile.                        *)
(***************************************************************************)
FreshMemory ==
  /\ mu = NoThread /\ unlockMu = NoThread
  /\ client = NoToken /\ raw = NoToken /\ current = NoSession /\ open = {}
  /\ persistDegraded = FALSE /\ poisoned = FALSE
  /\ reloginExhausted = FALSE /\ scopeReloginExhausted = FALSE
  /\ keyrings = 0 /\ calKeyrings = 0
  /\ pc = [t \in Threads |-> "idle"]
  /\ frame = [t \in Threads |-> NoFrame]
  /\ hist = HistZero

Init ==
  /\ FreshMemory
  /\ \/ /\ store = [creds |-> "none", sess |-> NoSession]
        /\ proton = [s \in Sids |-> [gen |-> 0, live |-> FALSE, scope |-> ""]]
     \/ \E sc \in InitScopes, live \in BOOLEAN, in \in LoginInputs :
          /\ store = [creds |-> in, sess |-> [sid |-> 1, gen |-> 1, scope |-> sc]]
          /\ proton = [s \in Sids |->
               IF s = 1 THEN [gen |-> 1, live |-> live,
                              scope |-> IF sc = "" THEN "full" ELSE sc]
                        ELSE [gen |-> 0, live |-> FALSE, scope |-> ""]]

(***************************************************************************)
(* Control helpers.                                                        *)
(***************************************************************************)
Go(t, label, f) ==
  /\ pc' = [pc EXCEPT ![t] = label]
  /\ frame' = [frame EXCEPT ![t] = f]

\* Return from the exported method; a deferred unlockMu.Unlock runs.
Return(t) ==
  /\ Go(t, "idle", NoFrame)
  /\ unlockMu' = IF unlockMu = t THEN NoThread ELSE unlockMu

\* Client() returned a client of session s to the code that called it.
ClientReturns(t, s) ==
  \/ frame[t].phase = "direct" /\ Return(t)
  \/ /\ frame[t].phase # "direct"
     /\ Go(t, IF frame[t].phase = "calendar" THEN "resolve" ELSE "unlock",
           [frame[t] EXCEPT !.sid = s, !.why = "", !.input = "none", !.sess = NoSession])
     /\ UNCHANGED unlockMu

\* Client(), LoadCreds or the unlock failed for a reason other than scope:
\* every caller hands the error up.  On the retry of a self-heal, which
\* healScopeDenial then leaves without latching, the history h counts it.
FailsOtherwise(t, h) ==
  /\ Return(t)
  /\ hist' = IF frame[t].phase = "retry" THEN [h EXCEPT !.blip = @ + 1] ELSE h

\* What the three callers do when the login failed: Login returns the error,
\* Client latches, healScopeDenial goes on to latch under a second lock.
LoginFails(t, h) ==
  /\ mu' = NoThread
  /\ reloginExhausted' = (reloginExhausted \/ frame[t].why = "cold")
  /\ \/ frame[t].why = "heal" /\ Go(t, "latch", frame[t]) /\ UNCHANGED unlockMu /\ hist' = h
     \/ frame[t].why = "cold" /\ FailsOtherwise(t, h)
     \/ frame[t].why = "login" /\ Return(t) /\ hist' = h

(***************************************************************************)
(* Mutants: actions changed the way a plausible bug would change the code. *)
(* They are not part of Next; each shows that a property below can fail.   *)
(***************************************************************************)
\* The refreshed client is published and mu released before the tokens are
\* saved, the way OnAuthRotated saves.
ClientRefresh_SavesOutsideLock(t) ==
  LET new == [frame[t].sess EXCEPT !.gen = @ + 1] IN
  /\ pc[t] = "refresh" /\ CanRotate(frame[t].sess)
  /\ proton' = Rotated(new.sid)
  /\ client' = TokenOf(new) /\ open' = open \cup {TokenOf(new)}
  /\ current' = new /\ raw' = TokenOf(new)
  /\ mu' = NoThread
  /\ Go(t, "saveCold", [frame[t] EXCEPT !.sess = new])
  /\ UNCHANGED <<unlockMu, flags, caches, store, hist>>

\* An early return without unlocking mu.
ClientRefreshFails_KeepsMu(t) ==
  /\ pc[t] = "refresh"
  /\ FailsOtherwise(t, hist)
  /\ UNCHANGED <<mu, tokens, flags, caches, store, proton>>

\* A rejected refresh is reported like any other failure.
ClientRejected_NoRelogin(t) ==
  /\ pc[t] = "refresh" /\ ~Honoured(frame[t].sess)
  /\ mu' = NoThread
  /\ FailsOtherwise(t, hist)
  /\ UNCHANGED <<tokens, flags, caches, store, proton>>

\* The store is read without looking at poisoned.
ClientLoad_IgnoresPoison(t) ==
  /\ pc[t] = "clientLock" /\ mu = NoThread
  /\ client = NoToken /\ store.sess # NoSession
  /\ mu' = t
  /\ Go(t, "refresh", [frame[t] EXCEPT !.sess = store.sess])
  /\ UNCHANGED <<unlockMu, tokens, flags, caches, store, proton, hist>>

\* A failed save during the cold start is logged but not flagged.
ClientSave_NotFlagged(t) ==
  LET sess == frame[t].sess IN
  /\ pc[t] = "saveCold"
  /\ client' = TokenOf(sess) /\ open' = open \cup {TokenOf(sess)}
  /\ current' = sess /\ raw' = TokenOf(sess)
  /\ StoreFaults # {} /\ hist' = [hist EXCEPT !.saveFailed = TRUE]
  /\ mu' = NoThread
  /\ ClientReturns(t, sess.sid)
  /\ UNCHANGED <<flags, caches, store, proton>>

\* The rollback of a half-saved login does not clear the store.
Rollback_WithoutClear(t) ==
  /\ pc[t] = "rollback"
  /\ LoginFails(t, hist)
  /\ UNCHANGED <<tokens, persistDegraded, poisoned, scopeReloginExhausted, caches,
                 store, proton>>

\* The whole bundle, not its token, is handed to the raw client.
RotatedApply_RawGetsBundle(t) ==
  /\ pc[t] = "rotated" /\ mu = NoThread
  /\ current' = frame[t].sess /\ raw' = frame[t].sess
  /\ Go(t, "rotSave", frame[t])
  /\ UNCHANGED <<locks, client, open, flags, caches, store, proton, hist>>

\* OnAuthRotated leaves the raw client on the old bearer.
RotatedApply_NoSetAuth(t) ==
  /\ pc[t] = "rotated" /\ mu = NoThread
  /\ current' = frame[t].sess
  /\ Go(t, "rotSave", frame[t])
  /\ UNCHANGED <<locks, client, raw, open, flags, caches, store, proton, hist>>

\* OnAuthRotated forgets that the save failed.
RotatedFlag_AlwaysClears(t) ==
  /\ pc[t] \in {"rotSaved", "rotFailed"} /\ mu = NoThread
  /\ persistDegraded' = FALSE
  /\ Return(t)
  /\ UNCHANGED <<mu, tokens, poisoned, latches, caches, store, proton, hist>>

\* A persisted rotation re-arms the self-heals.
RotatedFlag_ResetsLatches(t) ==
  /\ pc[t] \in {"rotSaved", "rotFailed"} /\ mu = NoThread
  /\ persistDegraded' = (pc[t] = "rotFailed")
  /\ reloginExhausted' = FALSE /\ scopeReloginExhausted' = FALSE
  /\ Return(t)
  /\ UNCHANGED <<mu, tokens, poisoned, caches, store, proton, hist>>

\* The cache is not looked at again once unlockMu is held.
UnlockRecheck_Skipped(t) ==
  /\ pc[t] = "recheck"
  /\ Go(t, "client", frame[t])
  /\ UNCHANGED <<locks, tokens, flags, caches, store, proton, hist>>

\* Two goroutines unlock side by side.
UnlockAcquire_NotExclusive(t) ==
  /\ pc[t] = "unlockMu"
  /\ unlockMu' = t
  /\ Go(t, "recheck", [frame[t] EXCEPT !.phase = "unlock"])
  /\ UNCHANGED <<mu, tokens, flags, caches, store, proton, hist>>

\* A failed unlock returns without the deferred unlockMu.Unlock.
UnlockFails_KeepsUnlockMu(t) ==
  /\ pc[t] = "unlock" /\ ~proton[frame[t].sid].live
  /\ Go(t, "idle", NoFrame)
  /\ UNCHANGED <<locks, tokens, flags, caches, store, proton, hist>>

\* A self-heal that did not help is not latched.
HealLatch_Forgets(t) ==
  /\ pc[t] = "latch"
  /\ Return(t)
  /\ UNCHANGED <<mu, tokens, flags, caches, store, proton, hist>>

(***************************************************************************)
(* Client.  The fast path is one read section; the slow path takes mu,     *)
(* checks again, and keeps mu over the store and network calls.            *)
(***************************************************************************)
ClientCall(t) ==
  /\ "Client" \in Ops
  /\ pc[t] = "idle"
  /\ Go(t, "client", [NoFrame EXCEPT !.phase = "direct"])
  /\ UNCHANGED <<locks, tokens, flags, caches, store, proton, hist>>

\* Raw refreshes through Client only while there is neither client nor bearer.
RawCall(t) ==
  /\ "Raw" \in Ops
  /\ pc[t] = "idle" /\ mu = NoThread
  /\ client = NoToken /\ raw = NoToken
  /\ Go(t, "client", [NoFrame EXCEPT !.phase = "direct"])
  /\ UNCHANGED <<locks, tokens, flags, caches, store, proton, hist>>

ClientFast(t) ==
  /\ pc[t] = "client" /\ mu = NoThread
  /\ \/ client # NoToken /\ ClientReturns(t, client.sid)
     \/ client = NoToken /\ Go(t, "clientLock", frame[t]) /\ UNCHANGED unlockMu
  /\ UNCHANGED <<mu, tokens, flags, caches, store, proton, hist>>

\* The answers that need no request: a client another thread made, a poisoned
\* session, nothing stored, a store that cannot be read.
ClientNoRefresh(t) ==
  /\ pc[t] = "clientLock" /\ mu = NoThread
  /\ \/ client # NoToken /\ ClientReturns(t, client.sid) /\ UNCHANGED hist
     \/ /\ client = NoToken
        /\ poisoned \/ store.sess = NoSession \/ "read" \in StoreFaults
        /\ FailsOtherwise(t, hist)
  /\ UNCHANGED <<mu, tokens, flags, caches, store, proton>>

ClientLoad(t) ==
  /\ pc[t] = "clientLock" /\ mu = NoThread
  /\ client = NoToken /\ ~poisoned /\ store.sess # NoSession
  /\ mu' = t
  /\ Go(t, "refresh", [frame[t] EXCEPT !.sess = store.sess])
  /\ UNCHANGED <<unlockMu, tokens, flags, caches, store, proton, hist>>

\* NewClientWithRefresh succeeds: Proton rotates the tokens, or answers with
\* a zero-valued Auth that leaves them alone, and may omit the scope.
ClientRefresh(t) ==
  LET sess == frame[t].sess IN
  /\ pc[t] = "refresh"
  /\ \/ /\ CanRotate(sess)
        /\ \E sc \in {"", proton[sess.sid].scope} :
             Go(t, "saveCold", [frame[t] EXCEPT !.sess =
                 [sess EXCEPT !.gen = @ + 1, !.scope = IF sc = "" THEN @ ELSE sc]])
        /\ proton' = Rotated(sess.sid)
     \/ /\ "noop" \in NetFaults /\ Honoured(sess)
        /\ Go(t, "saveCold", frame[t])
        /\ UNCHANGED proton
  /\ UNCHANGED <<locks, tokens, flags, caches, store, hist>>

\* The refresh fails in a way a new login would not cure; the reply of a
\* refresh that did rotate the tokens may be what was lost.
ClientRefreshFails(t) ==
  /\ pc[t] = "refresh"
  /\ \/ ("transient" \in NetFaults \/ frame[t].sess.gen = MaxGen) /\ UNCHANGED proton
     \/ /\ "lost" \in NetFaults /\ CanRotate(frame[t].sess)
        /\ proton' = Rotated(frame[t].sess.sid)
  /\ mu' = NoThread
  /\ FailsOtherwise(t, hist)
  /\ UNCHANGED <<tokens, flags, caches, store>>

\* proterr.RefreshRejected: the stored refresh token is revoked or outdated.
ClientRejected(t) ==
  /\ pc[t] = "refresh" /\ ~Honoured(frame[t].sess)
  /\ \/ /\ ~reloginExhausted
        /\ Go(t, "relogin", [frame[t] EXCEPT !.why = "cold"])
        /\ hist' = [hist EXCEPT !.cold = @ + 1]
        /\ UNCHANGED locks
     \/ reloginExhausted /\ mu' = NoThread /\ FailsOtherwise(t, hist)
  /\ UNCHANGED <<tokens, flags, caches, store, proton>>

\* SaveSession of the refreshed tokens, best effort, and the client is set.
ClientSave(t) ==
  LET sess == frame[t].sess IN
  /\ pc[t] = "saveCold"
  /\ client' = TokenOf(sess) /\ open' = open \cup {TokenOf(sess)}
  /\ current' = sess /\ raw' = TokenOf(sess)
  /\ \/ /\ store' = [store EXCEPT !.sess = sess]
        /\ persistDegraded' = FALSE
        /\ hist' = [hist EXCEPT !.saveFailed = FALSE]
     \/ /\ StoreFaults \cap {"fail", "down"} # {}
        /\ persistDegraded' = TRUE
        /\ hist' = [hist EXCEPT !.saveFailed = TRUE]
        /\ UNCHANGED store
  /\ mu' = NoThread
  /\ ClientReturns(t, sess.sid)
  /\ UNCHANGED <<poisoned, latches, caches, proton>>

(***************************************************************************)
(* The login path, shared by Login, the cold-start relogin and the scope   *)
(* self-heal.  mu is held from the first step to the last.                 *)
(***************************************************************************)
LoginCall(t) ==
  /\ "Login" \in Ops
  /\ pc[t] = "idle" /\ mu = NoThread
  /\ mu' = t
  /\ \E in \in LoginInputs :
       Go(t, "auth", [NoFrame EXCEPT !.why = "login", !.input = in])
  /\ UNCHANGED <<unlockMu, tokens, flags, caches, store, proton, hist>>

\* reloginLocked: nothing to log in with ends the attempt.
ReloginLoadCreds(t) ==
  /\ pc[t] = "relogin"
  /\ \/ /\ store.creds # "none"
        /\ Go(t, "auth", [frame[t] EXCEPT !.input = store.creds])
        /\ UNCHANGED <<locks, reloginExhausted, hist>>
     \/ (store.creds = "none" \/ "read" \in StoreFaults) /\ LoginFails(t, hist)
  /\ UNCHANGED <<tokens, persistDegraded, poisoned, scopeReloginExhausted, caches,
                 store, proton>>

\* SRP and 2FA succeed.  A stored account without a TOTP secret has nothing
\* to answer an unattended 2FA challenge with.
Authenticate(t) ==
  /\ pc[t] = "auth"
  /\ "ok" \in LoginOutcomes
  /\ frame[t].why = "login" \/ frame[t].input = "secret"
  /\ \E s \in Unused, sc \in LoginScopes :
       /\ \A u \in Unused : s <= u
       /\ proton' = [proton EXCEPT ![s] = [gen |-> 1, live |-> TRUE, scope |-> sc]]
       /\ Go(t, "saveCreds", [frame[t] EXCEPT
               !.sess = [sid |-> s, gen |-> 1, scope |-> sc]])
  /\ UNCHANGED <<locks, tokens, flags, caches, store, hist>>

\* Wrong credentials, a CAPTCHA, no TOTP, a missing mailbox password, network.
AuthenticateFails(t) ==
  /\ pc[t] = "auth"
  /\ \/ "fail" \in LoginOutcomes
     \/ frame[t].why # "login" /\ frame[t].input = "code"
     \/ Unused = {}
  /\ LoginFails(t, hist)
  /\ UNCHANGED <<tokens, persistDegraded, poisoned, scopeReloginExhausted, caches,
                 store, proton>>

PersistCreds(t) ==
  /\ pc[t] = "saveCreds"
  /\ \/ /\ store' = [store EXCEPT !.creds = frame[t].input]
        /\ Go(t, "saveSess", frame[t])
        /\ UNCHANGED <<locks, reloginExhausted, hist>>
     \/ /\ "fail" \in StoreFaults
        /\ Go(t, "rollback", frame[t])
        /\ UNCHANGED <<locks, reloginExhausted, store, hist>>
     \/ "down" \in StoreFaults /\ LoginFails(t, hist) /\ UNCHANGED store
  /\ UNCHANGED <<tokens, persistDegraded, poisoned, scopeReloginExhausted, caches,
                 proton>>

\* An explicit Login starts a new count of unattended attempts.
HistAfterLogin(t) ==
  [(IF frame[t].why = "login" THEN HistZero ELSE hist) EXCEPT !.saveFailed = FALSE]

\* The session is written and adopted.  The client it replaces stays open.
PersistSession(t) ==
  LET sess == frame[t].sess IN
  /\ pc[t] = "saveSess"
  /\ store' = [store EXCEPT !.sess = sess]
  /\ client' = TokenOf(sess) /\ open' = open \cup {TokenOf(sess)}
  /\ current' = sess /\ raw' = TokenOf(sess)
  /\ persistDegraded' = FALSE
  /\ reloginExhausted' = FALSE /\ scopeReloginExhausted' = FALSE
  /\ keyrings' = 0 /\ calKeyrings' = 0
  /\ hist' = HistAfterLogin(t)
  /\ mu' = NoThread
  /\ \/ frame[t].why = "login" /\ Return(t)
     \/ frame[t].why = "cold" /\ ClientReturns(t, sess.sid)
     \/ /\ frame[t].why = "heal"
        /\ Go(t, "client", [frame[t] EXCEPT !.phase = "retry", !.why = "", !.input = "none",
                                            !.sess = NoSession])
        /\ UNCHANGED unlockMu
  /\ UNCHANGED <<poisoned, proton>>

\* SaveSession failed after SaveCreds succeeded.
PersistSessionFails(t) ==
  /\ pc[t] = "saveSess"
  /\ \/ /\ "fail" \in StoreFaults
        /\ Go(t, "rollback", frame[t])
        /\ hist' = [hist EXCEPT !.saveFailed = TRUE]
        /\ UNCHANGED <<locks, reloginExhausted>>
     \/ "down" \in StoreFaults /\ LoginFails(t, [hist EXCEPT !.saveFailed = TRUE])
  /\ UNCHANGED <<tokens, persistDegraded, poisoned, scopeReloginExhausted, caches,
                 store, proton>>

\* rollbackLoginPersist: Clear, and poison the session if Clear fails too.
Rollback(t) ==
  /\ pc[t] = "rollback"
  /\ \/ store' = [creds |-> "none", sess |-> NoSession] /\ UNCHANGED poisoned
     \/ "fail" \in StoreFaults /\ poisoned' = TRUE /\ UNCHANGED store
  /\ LoginFails(t, hist)
  /\ UNCHANGED <<tokens, persistDegraded, scopeReloginExhausted, caches, proton>>

(***************************************************************************)
(* Logout empties memory, then the store, under one hold of mu.            *)
(***************************************************************************)
LogoutCall(t) ==
  /\ "Logout" \in Ops
  /\ pc[t] = "idle" /\ mu = NoThread
  /\ mu' = t
  /\ client' = NoToken /\ open' = open \ {client}
  /\ current' = NoSession /\ raw' = NoToken
  /\ keyrings' = 0 /\ calKeyrings' = 0
  /\ Go(t, "logoutClear", NoFrame)
  /\ UNCHANGED <<unlockMu, flags, store, proton, hist>>

LogoutClear(t) ==
  /\ pc[t] = "logoutClear"
  /\ \/ /\ store' = [creds |-> "none", sess |-> NoSession]
        /\ poisoned' = FALSE /\ persistDegraded' = FALSE
        /\ reloginExhausted' = FALSE /\ scopeReloginExhausted' = FALSE
        /\ hist' = HistZero
     \/ StoreFaults \cap {"fail", "down"} # {} /\ UNCHANGED <<store, flags, hist>>
  /\ mu' = NoThread
  /\ Return(t)
  /\ UNCHANGED <<tokens, caches, proton>>

(***************************************************************************)
(* Token rotation.  A request on any open proton.Client may find its access *)
(* token expired; the library refreshes and calls the auth handler, which  *)
(* is OnAuthRotated.  One client handles one rotation at a time.           *)
(***************************************************************************)
HandlingRotationOf(tok) ==
  \E u \in Threads : pc[u] \in RotationLabels /\ TokenOf(frame[u].sess) = tok

LibraryRotates(t) ==
  /\ "Rotate" \in Ops
  /\ pc[t] = "idle"
  /\ \E c \in open :
       LET new == [c EXCEPT !.gen = @ + 1] IN
       /\ CanRotate(c) /\ ~HandlingRotationOf(c)
       /\ proton' = Rotated(c.sid)
       /\ \/ /\ open' = (open \ {c}) \cup {new}
             /\ client' = IF client = c THEN new ELSE client
             /\ \E sc \in {"", proton[c.sid].scope} :
                  Go(t, "rotated", [NoFrame EXCEPT !.sess =
                       [sid |-> new.sid, gen |-> new.gen, scope |-> sc]])
          \/ "lost" \in NetFaults /\ UNCHANGED <<client, open, pc, frame>>
  /\ UNCHANGED <<locks, raw, current, flags, caches, store, hist>>

\* OnAuthRotated: the in-memory swap under mu ...
RotatedApply(t) ==
  LET next == [frame[t].sess EXCEPT !.scope = IF @ = "" THEN current.scope ELSE @] IN
  /\ pc[t] = "rotated" /\ mu = NoThread
  /\ current' = next /\ raw' = TokenOf(next)
  /\ Go(t, "rotSave", [frame[t] EXCEPT !.sess = next])
  /\ UNCHANGED <<locks, client, open, flags, caches, store, proton, hist>>

\* ... the write to the store outside it ...
RotatedSave(t) ==
  /\ pc[t] = "rotSave"
  /\ \/ /\ store' = [store EXCEPT !.sess = frame[t].sess]
        /\ hist' = [hist EXCEPT !.saveFailed = FALSE]
        /\ Go(t, "rotSaved", frame[t])
     \/ /\ StoreFaults \cap {"fail", "down"} # {}
        /\ hist' = [hist EXCEPT !.saveFailed = TRUE]
        /\ Go(t, "rotFailed", frame[t])
        /\ UNCHANGED store
  /\ UNCHANGED <<locks, tokens, flags, caches, proton>>

\* ... and the outcome recorded under mu again.
RotatedFlag(t) ==
  /\ pc[t] \in {"rotSaved", "rotFailed"} /\ mu = NoThread
  /\ persistDegraded' = (pc[t] = "rotFailed")
  /\ Return(t)
  /\ UNCHANGED <<mu, tokens, poisoned, latches, caches, store, proton, hist>>

(***************************************************************************)
(* Keyrings: the cache, the single-flight unlock and the scope self-heal.  *)
(***************************************************************************)
\* The keyrings are at hand: Keyrings returns them, and CalendarKeyring goes
\* on to fetch a client.
KeyringsReturn(t) ==
  \/ ~frame[t].cal /\ Return(t)
  \/ /\ frame[t].cal
     /\ Go(t, "client", [NoFrame EXCEPT !.phase = "calendar", !.cal = TRUE])
     /\ unlockMu' = IF unlockMu = t THEN NoThread ELSE unlockMu

KeyringsCall(t) ==
  /\ "Keyrings" \in Ops
  /\ pc[t] = "idle" /\ mu = NoThread
  /\ keyrings = 0
  /\ Go(t, "unlockMu", NoFrame)
  /\ UNCHANGED <<locks, tokens, flags, caches, store, proton, hist>>

UnlockAcquire(t) ==
  /\ pc[t] = "unlockMu" /\ unlockMu = NoThread
  /\ unlockMu' = t
  /\ Go(t, "recheck", [frame[t] EXCEPT !.phase = "unlock"])
  /\ UNCHANGED <<mu, tokens, flags, caches, store, proton, hist>>

UnlockRecheck(t) ==
  /\ pc[t] = "recheck" /\ mu = NoThread
  /\ \/ keyrings # 0 /\ KeyringsReturn(t)
     \/ keyrings = 0 /\ Go(t, "client", frame[t]) /\ UNCHANGED unlockMu
  /\ UNCHANGED <<mu, tokens, flags, caches, store, proton, hist>>

\* unlockOnce after its Client() call: the stored password and the keys of the
\* client's session.  Proton denies a session without full scope (403, 9100).
UnlockSucceeds(t) ==
  /\ pc[t] = "unlock"
  /\ store.creds # "none"
  /\ proton[frame[t].sid].live /\ proton[frame[t].sid].scope = "full"
  /\ Go(t, "storeKr", frame[t])
  /\ UNCHANGED <<locks, tokens, flags, caches, store, proton, hist>>

UnlockDenied(t) ==
  /\ pc[t] = "unlock"
  /\ store.creds # "none"
  /\ proton[frame[t].sid].live /\ proton[frame[t].sid].scope # "full"
  /\ Go(t, IF frame[t].phase = "retry" THEN "latch" ELSE "denied", frame[t])
  /\ UNCHANGED <<locks, tokens, flags, caches, store, proton, hist>>

UnlockFails(t) ==
  /\ pc[t] = "unlock"
  /\ \/ store.creds = "none"
     \/ ~proton[frame[t].sid].live
     \/ "read" \in StoreFaults
     \/ "transient" \in NetFaults
  /\ FailsOtherwise(t, hist)
  /\ UNCHANGED <<mu, tokens, flags, caches, store, proton>>

StoreKeyrings(t) ==
  /\ pc[t] = "storeKr" /\ mu = NoThread
  /\ keyrings' = frame[t].sid
  /\ KeyringsReturn(t)
  /\ UNCHANGED <<mu, tokens, flags, calKeyrings, store, proton, hist>>

\* scopeReloginSpent, read under its own lock section.
DeniedDecides(t) ==
  /\ pc[t] = "denied" /\ mu = NoThread
  /\ \/ scopeReloginExhausted /\ Return(t)
     \/ ~scopeReloginExhausted /\ Go(t, "heal", frame[t]) /\ UNCHANGED unlockMu
  /\ UNCHANGED <<mu, tokens, flags, caches, store, proton, hist>>

HealRelogin(t) ==
  /\ pc[t] = "heal" /\ mu = NoThread
  /\ mu' = t
  /\ Go(t, "relogin", [frame[t] EXCEPT !.why = "heal", !.sid = 0])
  /\ hist' = [hist EXCEPT !.heal = @ + 1]
  /\ UNCHANGED <<unlockMu, tokens, flags, caches, store, proton>>

HealLatch(t) ==
  /\ pc[t] = "latch" /\ mu = NoThread
  /\ scopeReloginExhausted' = TRUE
  /\ Return(t)
  /\ UNCHANGED <<mu, tokens, persistDegraded, poisoned, reloginExhausted, caches,
                 store, proton, hist>>

(***************************************************************************)
(* CalendarKeyring, for one calendar: every calendar ID has its own entry  *)
(* and the code treats them alike.                                         *)
(***************************************************************************)
CalendarCall(t) ==
  /\ "Calendar" \in Ops
  /\ pc[t] = "idle" /\ mu = NoThread
  /\ calKeyrings = 0
  /\ \/ keyrings = 0 /\ Go(t, "unlockMu", [NoFrame EXCEPT !.cal = TRUE])
     \/ keyrings # 0 /\ Go(t, "client", [NoFrame EXCEPT !.phase = "calendar", !.cal = TRUE])
  /\ UNCHANGED <<locks, tokens, flags, caches, store, proton, hist>>

CalendarResolve(t) ==
  /\ pc[t] = "resolve"
  /\ \/ /\ proton[frame[t].sid].live
        /\ Go(t, "storeCal", frame[t]) /\ UNCHANGED <<unlockMu, hist>>
     \/ /\ ~proton[frame[t].sid].live \/ "transient" \in NetFaults
        /\ FailsOtherwise(t, hist)
  /\ UNCHANGED <<mu, tokens, flags, caches, store, proton>>

\* The first resolver's keyring is kept; a later one wipes its own.
CalendarStore(t) ==
  /\ pc[t] = "storeCal" /\ mu = NoThread
  /\ calKeyrings' = IF calKeyrings # 0 THEN calKeyrings ELSE frame[t].sid
  /\ Return(t)
  /\ UNCHANGED <<mu, tokens, flags, keyrings, store, proton, hist>>

(***************************************************************************)
(* The environment: the process dies and is started again; Proton revokes  *)
(* a session.                                                              *)
(***************************************************************************)
Restart ==
  /\ "Restart" \in Ops
  /\ mu' = NoThread /\ unlockMu' = NoThread
  /\ client' = NoToken /\ raw' = NoToken /\ current' = NoSession /\ open' = {}
  /\ persistDegraded' = FALSE /\ poisoned' = FALSE
  /\ reloginExhausted' = FALSE /\ scopeReloginExhausted' = FALSE
  /\ keyrings' = 0 /\ calKeyrings' = 0
  /\ pc' = [t \in Threads |-> "idle"]
  /\ frame' = [t \in Threads |-> NoFrame]
  /\ hist' = HistZero
  /\ UNCHANGED <<store, proton>>

Revoke ==
  /\ "Revoke" \in Ops
  /\ \E s \in Sids : proton[s].live /\ proton' = [proton EXCEPT ![s].live = FALSE]
  /\ UNCHANGED <<locks, tokens, flags, caches, store, pc, frame, hist>>

ClientSteps(t) ==
  \/ ClientFast(t) \/ ClientNoRefresh(t) \/ ClientLoad(t) \/ ClientRefresh(t)
  \/ ClientRefreshFails(t) \/ ClientRejected(t) \/ ClientSave(t)

LoginSteps(t) ==
  \/ ReloginLoadCreds(t) \/ Authenticate(t) \/ AuthenticateFails(t) \/ PersistCreds(t)
  \/ PersistSession(t) \/ PersistSessionFails(t) \/ Rollback(t) \/ LogoutClear(t)

RotationSteps(t) == RotatedApply(t) \/ RotatedSave(t) \/ RotatedFlag(t)

KeyringSteps(t) ==
  \/ UnlockAcquire(t) \/ UnlockRecheck(t) \/ UnlockSucceeds(t) \/ UnlockDenied(t)
  \/ UnlockFails(t) \/ StoreKeyrings(t) \/ DeniedDecides(t) \/ HealRelogin(t)
  \/ HealLatch(t) \/ CalendarResolve(t) \/ CalendarStore(t)

\* The steps of a call already begun, and the calls that may begin.
Step(t) == ClientSteps(t) \/ LoginSteps(t) \/ RotationSteps(t) \/ KeyringSteps(t)
Call(t) ==
  \/ ClientCall(t) \/ RawCall(t) \/ LoginCall(t) \/ LogoutCall(t)
  \/ KeyringsCall(t) \/ CalendarCall(t) \/ LibraryRotates(t)

Next == (\E t \in Threads : Step(t) \/ Call(t)) \/ Restart \/ Revoke

Spec == Init /\ [][Next]_vars

(***************************************************************************)
(* Fairness: every goroutine keeps running, requests and store calls end,  *)
(* and a goroutine waiting for a sync.Mutex or RWMutex is not overtaken    *)
(* for ever (their starvation modes), hence strong fairness of the steps.  *)
(* LiveSpec adds that tool calls keep arriving.                            *)
(***************************************************************************)
FairSpec == Spec /\ \A t \in Threads : SF_vars(Step(t))
LiveSpec == FairSpec /\ \A t \in Threads : WF_vars(ClientCall(t))

-----------------------------------------------------------------------------
TypeOK ==
  /\ mu \in Threads \cup {NoThread} /\ unlockMu \in Threads \cup {NoThread}
  /\ client \in Tokens /\ raw \in Tokens /\ current \in Bundles /\ open \subseteq Tokens
  /\ persistDegraded \in BOOLEAN /\ poisoned \in BOOLEAN
  /\ reloginExhausted \in BOOLEAN /\ scopeReloginExhausted \in BOOLEAN
  /\ keyrings \in 0..MaxSession /\ calKeyrings \in 0..MaxSession
  /\ store \in [creds: Inputs, sess: Bundles]
  /\ proton \in [Sids -> ProtonSessions]
  /\ pc \in [Threads -> Labels] /\ frame \in [Threads -> Frames]
  /\ hist \in [cold: Nat, heal: Nat, blip: Nat, saveFailed: BOOLEAN]

\* No thread is between the parts of a rotation or inside a mu section.
Settled == mu = NoThread /\ \A t \in Threads : pc[t] \notin RotationLabels

\* While a thread is between its second look at the cache and the end of its
\* unlock (or of the self-heal), nobody else fills the cache: however many
\* goroutines need the keyrings first, the salt and key requests run once.
KeyringsUnlockedOnce ==
  \A t \in Threads : pc[t] \in {"unlock", "storeKr", "denied", "heal"} => keyrings = 0

\* In a process that has used a single proton.Client, whatever rotations, cold
\* starts and failures interleaved, once no rotation is being handled the
\* in-memory bundle and the raw bearer are the tokens that client uses.
CurrentFollowsClient ==
  Settled /\ client # NoToken /\ open = {client}
    => TokenOf(current) = client /\ raw = client

\* Unless the session is flagged degraded, the store holds the very tokens a
\* restart needs: those of the client, not a generation Proton has retired.
\* (Checked where no self-heal replaces a live client: see RevokedSelfHeals
\* and StatusTruthful for what replacing one does.)
PersistedIsNewest ==
  Settled /\ client # NoToken /\ ~persistDegraded => TokenOf(store.sess) = client

\* "PersistDegraded is true when the most recent SaveSession write failed":
\* the flag, written after OnAuthRotated's unlocked save under a second hold
\* of mu, agrees with the last write of all the writers.
DegradedIsExact ==
  Settled /\ client # NoToken => (persistDegraded <=> hist.saveFailed)

\* One write never puts an older generation of a session over a newer one,
\* although OnAuthRotated writes without mu.
PersistedNeverRegresses ==
  [][store'.sess.sid = store.sess.sid => store'.sess.gen >= store.sess.gen]_store

\* The anti-abuse bound: between explicit logins and logouts a process tries
\* at most one unattended login for a rejected refresh token, and for a
\* scope denial at most one more than the retries that hit a passing error.
UnattendedLoginsBounded ==
  hist.cold <= 1 /\ hist.heal <= hist.blip + 1

\* "The latch resets only on explicit Login/Logout" (ADR 0003): in a process
\* that calls neither, once set it stays set until the process ends, although
\* every unattended login resets it too.
LatchHeld ==
  [][scopeReloginExhausted => scopeReloginExhausted' \/ Restart]_vars

\* Key material handed to a tool is never wiped under it: in a process that calls
\* neither Login nor Logout, no unattended login (whose clearKeyringCache wipes
\* what is cached) runs while keyrings are cached, and none replaces another.
KeyringsNeverWiped ==
  [][\/ Restart
     \/ /\ keyrings # 0 => keyrings' = keyrings
        /\ calKeyrings # 0 => calKeyrings' = calKeyrings]_caches

\* A poisoned session never starts from the store it is known to disagree with.
PoisonedNeverColdStarts ==
  \A t \in Threads : pc[t] \in {"refresh", "saveCold"} => ~poisoned

\* The store never keeps credentials without a session or the reverse, except
\* during a login or logout and after a rollback that failed (poisoned).
CredsPairSession ==
  mu = NoThread /\ ~poisoned => (store.creds = "none" <=> store.sess = NoSession)

\* Status says the keyring can be unlocked only if the tokens it describes can.
StatusTruthful ==
  Settled /\ Status = "ok" => proton[current.sid].scope = "full"

\* No call blocks for ever on s.mu or s.unlockMu, whatever the others do.
CallsReturn == \A t \in Threads : pc[t] # "idle" ~> pc[t] = "idle"

\* A process without a client whose stored session is dead or outdated gets a
\* client again from the stored credentials, as long as calls keep coming.
ColdSelfHeals == client = NoToken /\ store.creds = "secret" ~> client # NoToken

\* "If the refresh token is revoked, the service re-logins from the stored
\* credentials on the next call" (docs/headless-deployment.md), also when the
\* revocation hits a process that already has a client.
RevokedSelfHeals ==
  client # NoToken /\ ~proton[client.sid].live /\ store.creds = "secret"
    ~> client # NoToken /\ proton[client.sid].live
=============================================================================
