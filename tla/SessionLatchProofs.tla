------------------------- MODULE SessionLatchProofs -------------------------
(***************************************************************************)
(* The server, which calls neither Login nor Logout: the latch of the      *)
(* scope self-heal, the number of unattended logins, the cached keyrings.  *)
(*                                                                         *)
(* Once the latch is set, no unattended login can reset it, although every *)
(* unattended login that succeeds does reset it: it is set only when a     *)
(* client exists, and then one exists for the life of the process.  A      *)
(* cold-start relogin happens only without a client; a self-heal only when *)
(* the latch was seen unset, and whoever could set it meanwhile waits for  *)
(* unlockMu.                                                               *)
(*                                                                         *)
(* From that, the second part.  A process logs in by itself at most once   *)
(* to start and once to heal, and again only after a retry that failed for *)
(* another reason than the scope.  Keyrings are cached only where none     *)
(* are, so none that a handler may hold is replaced and wiped.             *)
(***************************************************************************)
EXTENDS SessionTokenProofs

ServerProfile == "Login" \notin Ops /\ "Logout" \notin Ops

\* Positions of the cold start and of the self-heal, and those a thread
\* reaches only after Client() has given it a client.
ColdSection(t) ==
  pc[t] \in {"refresh", "saveCold"} \/ (pc[t] \in LoginLabels /\ frame[t].why = "cold")
HealSection(t) ==
  pc[t] = "heal" \/ (pc[t] \in LoginLabels /\ frame[t].why = "heal")
DeniedSection(t) == pc[t] \in {"unlock", "denied", "latch"} \/ HealSection(t)

LatchOf(t) ==
  /\ ColdSection(t) => client = NoToken
  /\ DeniedSection(t) => client # NoToken
  /\ HealSection(t) => ~scopeReloginExhausted
  /\ pc[t] \in LoginLabels => frame[t].why \in {"cold", "heal"}
  /\ pc[t] \in {"saveCold", "saveCreds", "saveSess"} => frame[t].sess.sid # 0
  /\ pc[t] # "logoutClear"

LatchInv ==
  /\ LockInv
  /\ scopeReloginExhausted => client # NoToken
  /\ \A t \in Threads : LatchOf(t)

\* What a step of t does to the client and the latch: a client appears only
\* inside a mu section and never goes away; the latch is set only inside the
\* unlockMu section, when there is a client, and is never reset.
ClientKept(t) ==
  /\ client # NoToken => client' # NoToken
  /\ client' # NoToken => client # NoToken \/ pc[t] \in Critical
LatchKept(t) ==
  /\ scopeReloginExhausted => scopeReloginExhausted'
  /\ scopeReloginExhausted' =>
       scopeReloginExhausted \/ (Unlocking(t) /\ client # NoToken)
Kept(t) == ClientKept(t) /\ LatchKept(t)

\* Most steps touch neither.
Quiet == client' = client /\ scopeReloginExhausted' = scopeReloginExhausted

LEMMA QuietKeeps == ASSUME NEW t \in Threads, Quiet PROVE Kept(t)
  BY DEF Quiet, Kept, ClientKept, LatchKept

\* The rely step: whoever is in the cold start holds mu, whoever heals holds
\* unlockMu, so what each of them saw stays true while another thread moves.
LEMMA OthersKeepLatch ==
  ASSUME LatchInv, NEW t \in Threads, NEW u \in Threads, u # t, Footprint(t), Kept(t)
  PROVE  LatchOf(u)'
  <1>1. /\ pc'[u] = pc[u] /\ frame'[u] = frame[u] /\ LatchOf(u)
        /\ Discipline(t) /\ Discipline(u)
    BY DEF Footprint, Alone, LatchInv, LockInv
  <1>2. /\ ColdSection(u)' = ColdSection(u) /\ HealSection(u)' = HealSection(u)
        /\ DeniedSection(u)' = DeniedSection(u)
    BY <1>1 DEF ColdSection, HealSection, DeniedSection
  <1>3. ColdSection(u) => client' = NoToken
    <2>1. ColdSection(u) => pc[u] \in Critical
      BY DEF ColdSection, Critical
    <2>2. pc[u] \in Critical => pc[t] \notin Critical
      BY <1>1 DEF Discipline
    <2>3. QED BY <1>1, <2>1, <2>2 DEF LatchOf, Kept, ClientKept
  <1>4. HealSection(u) => ~scopeReloginExhausted'
    <2>1. HealSection(u) => Unlocking(u)
      BY <1>1 DEF HealSection, Discipline, UnlockLabels
    <2>2. Unlocking(u) => ~Unlocking(t)
      BY <1>1 DEF Discipline
    <2>3. QED BY <1>1, <2>1, <2>2 DEF LatchOf, Kept, LatchKept
  <1>5. DeniedSection(u) => client' # NoToken
    BY <1>1 DEF LatchOf, Kept, ClientKept
  <1>6. QED BY <1>1, <1>2, <1>3, <1>4, <1>5 DEF LatchOf

\* Positions at which LatchOf asks for nothing.
SafeLabels == RotationLabels \cup
  {"idle", "client", "clientLock", "unlockMu", "recheck", "storeKr", "resolve", "storeCal"}

LEMMA SafeSpot ==
  ASSUME NEW t \in Threads, pc'[t] \in SafeLabels
  PROVE  LatchOf(t)'
  BY DEF SafeLabels, RotationLabels, LatchOf, ColdSection, DeniedSection, HealSection,
         LoginLabels

\* The ends of a method, of Client(), of Keyrings and of a failed login.
LEMMA ReturnedLatch ==
  ASSUME NEW t \in Threads, Returned(t) PROVE LatchOf(t)'
  BY SafeSpot DEF Returned, SafeLabels

LEMMA ClientDoneLatch ==
  ASSUME NEW t \in Threads, ClientDone(t), client' # NoToken
  PROVE  LatchOf(t)'
  <1>1. CASE pc'[t] \in {"idle", "resolve"}
    BY <1>1, SafeSpot DEF SafeLabels
  <1>2. CASE pc'[t] = "unlock"
    BY <1>2 DEF LatchOf, ColdSection, DeniedSection, HealSection, LoginLabels
  <1>3. QED BY <1>1, <1>2 DEF ClientDone

LEMMA KeyringsDoneLatch ==
  ASSUME NEW t \in Threads, KeyringsDone(t) PROVE LatchOf(t)'
  <1>1. pc'[t] \in {"idle", "client"}
    BY DEF KeyringsDone, Returned
  <1>2. QED BY <1>1, SafeSpot DEF SafeLabels

LEMMA LoginDoneLatch ==
  ASSUME NEW t \in Threads, LatchOf(t), pc[t] \in LoginLabels, LoginDone(t), Quiet
  PROVE  LatchOf(t)'
  <1>1. CASE Returned(t)
    BY <1>1, ReturnedLatch
  <1>2. CASE pc'[t] = "latch" /\ frame[t].why = "heal"
    <2>1. client' # NoToken
      BY <1>2 DEF LatchOf, DeniedSection, HealSection, Quiet
    <2>2. QED BY <1>2, <2>1
              DEF LatchOf, ColdSection, DeniedSection, HealSection, LoginLabels
  <1>3. QED BY <1>1, <1>2 DEF LoginDone

\* A step along the login path.
LEMMA LoginMovedLatch ==
  ASSUME NEW t \in Threads, LatchOf(t), pc[t] \in LoginLabels, pc'[t] \in LoginLabels,
         frame'[t].why = frame[t].why, Quiet,
         pc'[t] \in {"saveCreds", "saveSess"} => frame'[t].sess.sid # 0
  PROVE  LatchOf(t)'
  <1>1. /\ ColdSection(t)' => ColdSection(t)
        /\ HealSection(t)' => HealSection(t)
        /\ DeniedSection(t)' => DeniedSection(t)
    BY DEF ColdSection, HealSection, DeniedSection, LoginLabels
  <1>2. pc'[t] \notin {"saveCold", "logoutClear"}
    BY DEF LoginLabels
  <1>3. QED BY <1>1, <1>2 DEF LatchOf, Quiet

\* Tokens of a Proton session are not the zero token, whatever the generation.
LEMMA RealToken ==
  /\ \A s \in Sids : s # 0
  /\ \A b : b.sid # 0 => TokenOf(b) # NoToken
  /\ \A tok : Honoured(tok) \/ CanRotate(tok) => tok.sid # 0
  /\ NoToken.sid = 0
  <1>1. \A s \in Sids : s # 0
    BY BoundsAssumption DEF BoundsAssumption, Sids
  <1>2. NoToken.sid = 0
    BY DEF NoToken
  <1>3. \A b : b.sid # 0 => TokenOf(b) # NoToken
    BY DEF TokenOf, NoToken
  <1>4. \A tok : Honoured(tok) \/ CanRotate(tok) => tok.sid # 0
    BY <1>1 DEF Honoured, CanRotate
  <1>5. QED BY <1>1, <1>2, <1>3, <1>4

\* The steps of Client().
LEMMA ClientStepsLatch ==
  ASSUME LatchInv, NEW t \in Threads, ClientSteps(t)
  PROVE  Kept(t) /\ LatchOf(t)'
  <1>0. TypeOK /\ Discipline(t) /\ LatchOf(t) /\ frame[t] \in Frames
    BY FrameTyped DEF LatchInv, LockInv
  <1>1. CASE ClientFast(t)
    <2>1. Quiet
      BY <1>1 DEF ClientFast, tokens, flags, latches, Quiet
    <2>2. CASE Go(t, "clientLock", frame[t])
      BY <1>0, <2>1, <2>2, QuietKeeps, GoMoves, SafeSpot DEF SafeLabels
    <2>3. CASE client # NoToken /\ ClientReturns(t, client.sid)
      <3>1. frame[t].phase # ""
        BY <1>0, <1>1 DEF ClientFast, Discipline, ClientLabels
      <3>2. ClientDone(t) /\ client' # NoToken
        BY <1>0, <2>1, <2>3, <3>1, ClientReturnMoves DEF Quiet
      <3>3. QED BY <2>1, <3>2, QuietKeeps, ClientDoneLatch
    <2>4. QED BY <1>1, <2>2, <2>3 DEF ClientFast
  <1>2. CASE ClientNoRefresh(t)
    <2>1. Quiet
      BY <1>2 DEF ClientNoRefresh, tokens, flags, latches, Quiet
    <2>2. CASE FailsOtherwise(t, hist)
      BY <1>0, <2>1, <2>2, QuietKeeps, FailsMoves, ReturnedLatch
    <2>3. CASE client # NoToken /\ ClientReturns(t, client.sid)
      <3>1. frame[t].phase # ""
        BY <1>0, <1>2 DEF ClientNoRefresh, Discipline, ClientLabels
      <3>2. ClientDone(t) /\ client' # NoToken
        BY <1>0, <2>1, <2>3, <3>1, ClientReturnMoves DEF Quiet
      <3>3. QED BY <2>1, <3>2, QuietKeeps, ClientDoneLatch
    <2>4. QED BY <1>2, <2>2, <2>3 DEF ClientNoRefresh
  <1>3. CASE ClientLoad(t)
    <2>1. Quiet /\ client' = NoToken
      BY <1>3 DEF ClientLoad, tokens, flags, latches, Quiet
    <2>2. pc'[t] = "refresh"
      BY <1>0, <1>3, GoMoves DEF ClientLoad
    <2>3. LatchOf(t)'
      BY <2>1, <2>2 DEF LatchOf, ColdSection, DeniedSection, HealSection, LoginLabels
    <2>4. QED BY <2>1, <2>3, QuietKeeps
  <1>4. CASE ClientRefresh(t)
    <2>1. Quiet /\ client' = NoToken
      BY <1>0, <1>4 DEF ClientRefresh, tokens, flags, latches, Quiet, LatchOf, ColdSection
    <2>2. PICK g : g.sess.sid # 0 /\ Go(t, "saveCold", g)
      <3>1. frame[t].sess \in Bundles
        BY <1>0 DEF Frames
      <3>2. CASE CanRotate(frame[t].sess)
                 /\ \E x : Go(t, "saveCold", [frame[t] EXCEPT !.sess =
                      [frame[t].sess EXCEPT !.gen = @ + 1, !.scope = IF x = "" THEN @ ELSE x]])
        <4>1. PICK x : Go(t, "saveCold", [frame[t] EXCEPT !.sess =
                         [frame[t].sess EXCEPT !.gen = @ + 1, !.scope = IF x = "" THEN @ ELSE x]])
          BY <3>2
        <4> DEFINE b == [frame[t].sess EXCEPT !.gen = @ + 1, !.scope = IF x = "" THEN @ ELSE x]
        <4>2. b.sid = frame[t].sess.sid
          BY <3>1 DEF Bundles
        <4>3. [frame[t] EXCEPT !.sess = b].sess = b
          BY <1>0 DEF Frames
        <4>4. b.sid # 0
          BY <3>2, <4>2, RealToken
        <4>5. QED BY <4>1, <4>3, <4>4
      <3>3. CASE Honoured(frame[t].sess) /\ Go(t, "saveCold", frame[t])
        BY <3>3, RealToken
      <3>4. QED BY <1>4, <3>2, <3>3 DEF ClientRefresh
    <2>3. pc'[t] = "saveCold" /\ frame'[t].sess.sid # 0
      BY <1>0, <2>2, GoMoves
    <2>4. LatchOf(t)'
      BY <2>1, <2>3 DEF LatchOf, ColdSection, DeniedSection, HealSection, LoginLabels
    <2>5. QED BY <2>1, <2>4, QuietKeeps
  <1>5. CASE ClientRefreshFails(t)
    <2>1. Quiet
      BY <1>5 DEF ClientRefreshFails, tokens, flags, latches, Quiet
    <2>2. Returned(t)
      BY <1>0, <1>5, FailsMoves DEF ClientRefreshFails
    <2>3. QED BY <2>1, <2>2, QuietKeeps, ReturnedLatch
  <1>6. CASE ClientRejected(t)
    <2>1. Quiet /\ client' = NoToken
      BY <1>0, <1>6 DEF ClientRejected, tokens, flags, latches, Quiet, LatchOf, ColdSection
    <2>2. CASE Go(t, "relogin", [frame[t] EXCEPT !.why = "cold"])
      <3>1. [frame[t] EXCEPT !.why = "cold"].why = "cold"
        BY <1>0 DEF Frames
      <3>2. pc'[t] = "relogin" /\ frame'[t].why = "cold"
        <4>1. PICK g : g.why = "cold" /\ Go(t, "relogin", g)
          BY <2>2, <3>1
        <4>2. QED BY <1>0, <4>1, GoMoves
      <3>3. LatchOf(t)'
        BY <2>1, <3>2 DEF LatchOf, ColdSection, DeniedSection, HealSection, LoginLabels
      <3>4. QED BY <2>1, <3>3, QuietKeeps
    <2>3. CASE FailsOtherwise(t, hist)
      BY <1>0, <2>1, <2>3, QuietKeeps, FailsMoves, ReturnedLatch
    <2>4. QED BY <1>6, <2>2, <2>3 DEF ClientRejected
  <1>7. CASE ClientSave(t)
    <2>1. /\ client' = TokenOf(frame[t].sess) /\ frame[t].sess.sid # 0
          /\ scopeReloginExhausted' = scopeReloginExhausted
          /\ pc[t] \in Critical /\ frame[t].phase # ""
      BY <1>0, <1>7
      DEF ClientSave, latches, LatchOf, Critical, Discipline, ClientLabels
    <2>2. client' # NoToken
      BY <2>1, RealToken
    <2>3. Kept(t)
      BY <2>1, <2>2 DEF Kept, ClientKept, LatchKept
    <2>4. ClientDone(t)
      BY <1>0, <1>7, <2>1, ClientReturnMoves DEF ClientSave
    <2>5. QED BY <2>2, <2>3, <2>4, ClientDoneLatch
  <1>8. QED BY <1>1, <1>2, <1>3, <1>4, <1>5, <1>6, <1>7 DEF ClientSteps

\* The login path.  It resets the latch when it succeeds: the cold start finds
\* it unset because there is no client, the self-heal because it looked.
LEMMA LoginStepsLatch ==
  ASSUME LatchInv, NEW t \in Threads, LoginSteps(t)
  PROVE  Kept(t) /\ LatchOf(t)'
  <1>0. TypeOK /\ Discipline(t) /\ LatchOf(t) /\ frame[t] \in Frames
    BY FrameTyped DEF LatchInv, LockInv
  <1>1. CASE ReloginLoadCreds(t)
    <2>1. Quiet /\ pc[t] \in LoginLabels
      BY <1>1 DEF ReloginLoadCreds, tokens, Quiet, LoginLabels
    <2>2. CASE Go(t, "auth", [frame[t] EXCEPT !.input = store.creds])
      <3>1. [frame[t] EXCEPT !.input = store.creds].why = frame[t].why
        BY <1>0 DEF Frames
      <3>2. PICK g : g.why = frame[t].why /\ Go(t, "auth", g)
        BY <2>2, <3>1
      <3>3. pc'[t] = "auth" /\ frame'[t].why = frame[t].why
        BY <1>0, <3>2, GoMoves
      <3>4. QED BY <1>0, <2>1, <3>3, QuietKeeps, LoginMovedLatch DEF LoginLabels
    <2>3. CASE LoginFails(t, hist)
      BY <1>0, <2>1, <2>3, QuietKeeps, LoginFailsMoves, LoginDoneLatch
    <2>4. QED BY <1>1, <2>2, <2>3 DEF ReloginLoadCreds
  <1>2. CASE Authenticate(t)
    <2>1. Quiet /\ pc[t] \in LoginLabels
      BY <1>2 DEF Authenticate, tokens, flags, latches, Quiet, LoginLabels
    <2>2. PICK g : g.why = frame[t].why /\ g.sess.sid # 0 /\ Go(t, "saveCreds", g)
      <3>1. PICK s \in Unused, sc \in LoginScopes :
              Go(t, "saveCreds", [frame[t] EXCEPT !.sess =
                                   [sid |-> s, gen |-> 1, scope |-> sc]])
        BY <1>2 DEF Authenticate
      <3> DEFINE b == [sid |-> s, gen |-> 1, scope |-> sc]
      <3>2. b.sid # 0
        BY RealToken DEF Unused
      <3>3. /\ [frame[t] EXCEPT !.sess = b].why = frame[t].why
            /\ [frame[t] EXCEPT !.sess = b].sess = b
        BY <1>0 DEF Frames
      <3>4. QED BY <3>1, <3>2, <3>3
    <2>3. pc'[t] = "saveCreds" /\ frame'[t].why = frame[t].why /\ frame'[t].sess.sid # 0
      BY <1>0, <2>2, GoMoves
    <2>4. QED BY <1>0, <2>1, <2>3, QuietKeeps, LoginMovedLatch DEF LoginLabels
  <1>3. CASE AuthenticateFails(t)
    <2>1. Quiet /\ pc[t] \in LoginLabels
      BY <1>3 DEF AuthenticateFails, tokens, Quiet, LoginLabels
    <2>2. QED BY <1>0, <1>3, <2>1, QuietKeeps, LoginFailsMoves, LoginDoneLatch
              DEF AuthenticateFails
  <1>4. CASE PersistCreds(t)
    <2>1. Quiet /\ pc[t] \in LoginLabels /\ pc[t] = "saveCreds"
      BY <1>4 DEF PersistCreds, tokens, Quiet, LoginLabels
    <2>2. CASE Go(t, "saveSess", frame[t])
      <3>1. pc'[t] = "saveSess" /\ frame'[t] = frame[t]
        BY <1>0, <2>2, GoMoves
      <3>2. frame[t].sess.sid # 0
        BY <1>0, <2>1 DEF LatchOf
      <3>3. QED BY <1>0, <2>1, <3>1, <3>2, QuietKeeps, LoginMovedLatch DEF LoginLabels
    <2>3. CASE Go(t, "rollback", frame[t])
      <3>1. pc'[t] = "rollback" /\ frame'[t] = frame[t]
        BY <1>0, <2>3, GoMoves
      <3>2. QED BY <1>0, <2>1, <3>1, QuietKeeps, LoginMovedLatch DEF LoginLabels
    <2>4. CASE LoginFails(t, hist)
      BY <1>0, <2>1, <2>4, QuietKeeps, LoginFailsMoves, LoginDoneLatch
    <2>5. QED BY <1>4, <2>2, <2>3, <2>4 DEF PersistCreds
  <1>5. CASE PersistSession(t)
    <2>1. /\ pc[t] = "saveSess" /\ pc[t] \in LoginLabels /\ pc[t] \in Critical
          /\ client' = TokenOf(frame[t].sess)
      BY <1>5 DEF PersistSession, Critical, LoginLabels
    <2>2. client' # NoToken
      BY <1>0, <2>1, RealToken DEF LatchOf
    <2>3. frame[t].why \in {"cold", "heal"}
      BY <1>0, <2>1 DEF LatchOf
    <2>4. ~scopeReloginExhausted /\ ~scopeReloginExhausted'
      <3>1. ~scopeReloginExhausted'
        BY <1>5 DEF PersistSession
      <3>2. CASE frame[t].why = "cold"
        BY <1>0, <2>1, <3>1, <3>2 DEF LatchInv, LatchOf, ColdSection
      <3>3. CASE frame[t].why = "heal"
        BY <1>0, <2>1, <3>1, <3>3 DEF LatchOf, HealSection
      <3>4. QED BY <2>3, <3>2, <3>3
    <2>5. Kept(t)
      BY <2>1, <2>2, <2>4 DEF Kept, ClientKept, LatchKept
    <2>6. CASE frame[t].why = "cold"
      <3>1. ClientReturns(t, frame[t].sess.sid) /\ frame[t].phase # ""
        BY <1>0, <1>5, <2>1, <2>6 DEF PersistSession, Discipline
      <3>2. ClientDone(t)
        BY <1>0, <3>1, ClientReturnMoves
      <3>3. QED BY <2>2, <2>5, <3>2, ClientDoneLatch
    <2>7. CASE frame[t].why = "heal"
      <3>1. PICK g : Go(t, "client", g)
        BY <1>5, <2>7 DEF PersistSession
      <3>2. QED BY <1>0, <2>5, <3>1, GoMoves, SafeSpot DEF SafeLabels
    <2>8. QED BY <2>3, <2>6, <2>7
  <1>6. CASE PersistSessionFails(t)
    <2>1. Quiet /\ pc[t] \in LoginLabels
      BY <1>6 DEF PersistSessionFails, tokens, Quiet, LoginLabels
    <2>2. CASE Go(t, "rollback", frame[t])
      <3>1. pc'[t] = "rollback" /\ frame'[t] = frame[t]
        BY <1>0, <2>2, GoMoves
      <3>2. QED BY <1>0, <2>1, <3>1, QuietKeeps, LoginMovedLatch DEF LoginLabels
    <2>3. CASE LoginFails(t, [hist EXCEPT !.saveFailed = TRUE])
      BY <1>0, <2>1, <2>3, QuietKeeps, LoginFailsMoves, LoginDoneLatch
    <2>4. QED BY <1>6, <2>2, <2>3 DEF PersistSessionFails
  <1>7. CASE Rollback(t)
    <2>1. Quiet /\ pc[t] \in LoginLabels
      BY <1>7 DEF Rollback, tokens, Quiet, LoginLabels
    <2>2. QED BY <1>0, <1>7, <2>1, QuietKeeps, LoginFailsMoves, LoginDoneLatch
              DEF Rollback
  <1>8. CASE LogoutClear(t)
    BY <1>0, <1>8 DEF LogoutClear, LatchOf
  <1>9. QED BY <1>1, <1>2, <1>3, <1>4, <1>5, <1>6, <1>7, <1>8 DEF LoginSteps

\* Token rotation moves a client to its next generation, never away.
LEMMA RotationStepsLatch ==
  ASSUME LatchInv, NEW t \in Threads, RotationSteps(t)
  PROVE  Kept(t) /\ LatchOf(t)'
  <1>0. TypeOK
    BY DEF LatchInv, LockInv
  <1>1. Quiet
    <2>1. CASE RotatedApply(t)
      BY <2>1 DEF RotatedApply, flags, latches, Quiet
    <2>2. CASE RotatedSave(t)
      BY <2>2 DEF RotatedSave, tokens, flags, latches, Quiet
    <2>3. CASE RotatedFlag(t)
      BY <2>3 DEF RotatedFlag, tokens, latches, Quiet
    <2>4. QED BY <2>1, <2>2, <2>3 DEF RotationSteps
  <1>2. pc'[t] \in SafeLabels
    <2>1. CASE RotatedApply(t)
      <3>1. PICK g : Go(t, "rotSave", g)
        BY <2>1 DEF RotatedApply
      <3>2. QED BY <1>0, <3>1, GoMoves DEF SafeLabels, RotationLabels
    <2>2. CASE RotatedSave(t)
      <3>1. PICK l \in {"rotSaved", "rotFailed"} : Go(t, l, frame[t])
        BY <2>2 DEF RotatedSave
      <3>2. QED BY <1>0, <3>1, GoMoves DEF SafeLabels, RotationLabels
    <2>3. CASE RotatedFlag(t)
      BY <1>0, <2>3, ReturnMoves DEF RotatedFlag, Returned, SafeLabels
    <2>4. QED BY <2>1, <2>2, <2>3 DEF RotationSteps
  <1>3. QED BY <1>1, <1>2, QuietKeeps, SafeSpot

\* Keyrings and the self-heal.
LEMMA KeyringStepsLatch ==
  ASSUME LatchInv, NEW t \in Threads, KeyringSteps(t)
  PROVE  Kept(t) /\ LatchOf(t)'
  <1>0. TypeOK /\ Discipline(t) /\ LatchOf(t) /\ frame[t] \in Frames
    BY FrameTyped DEF LatchInv, LockInv
  <1>1. CASE HealLatch(t)
    <2>1. /\ pc[t] = "latch" /\ client' = client /\ scopeReloginExhausted'
          /\ Return(t)
      BY <1>1 DEF HealLatch, tokens
    <2>2. Unlocking(t) /\ client # NoToken
      BY <1>0, <2>1 DEF Discipline, UnlockLabels, LatchOf, DeniedSection
    <2>3. Kept(t)
      BY <2>1, <2>2 DEF Kept, ClientKept, LatchKept
    <2>4. QED BY <1>0, <2>1, <2>3, ReturnMoves, ReturnedLatch
  <1>2. CASE HealRelogin(t)
    <2>1. Quiet /\ pc[t] = "heal"
      BY <1>2 DEF HealRelogin, tokens, flags, latches, Quiet
    <2>2. client' # NoToken /\ ~scopeReloginExhausted'
      BY <1>0, <2>1 DEF Quiet, LatchOf, DeniedSection, HealSection
    <2>3. pc'[t] = "relogin" /\ frame'[t].why = "heal"
      <3>1. [frame[t] EXCEPT !.why = "heal", !.sid = 0].why = "heal"
        BY <1>0 DEF Frames
      <3>2. PICK g : g.why = "heal" /\ Go(t, "relogin", g)
        BY <1>2, <3>1 DEF HealRelogin
      <3>3. QED BY <1>0, <3>2, GoMoves
    <2>4. LatchOf(t)'
      BY <2>2, <2>3 DEF LatchOf, ColdSection, DeniedSection, HealSection, LoginLabels
    <2>5. QED BY <2>1, <2>4, QuietKeeps
  <1>3. CASE DeniedDecides(t)
    <2>1. Quiet /\ pc[t] = "denied"
      BY <1>3 DEF DeniedDecides, tokens, flags, latches, Quiet
    <2>2. CASE Return(t)
      BY <1>0, <2>1, <2>2, QuietKeeps, ReturnMoves, ReturnedLatch
    <2>3. CASE ~scopeReloginExhausted /\ Go(t, "heal", frame[t])
      <3>1. pc'[t] = "heal"
        BY <1>0, <2>3, GoMoves
      <3>2. client' # NoToken /\ ~scopeReloginExhausted'
        BY <1>0, <2>1, <2>3 DEF Quiet, LatchOf, DeniedSection
      <3>3. LatchOf(t)'
        BY <3>1, <3>2 DEF LatchOf, ColdSection, DeniedSection, HealSection, LoginLabels
      <3>4. QED BY <2>1, <3>3, QuietKeeps
    <2>4. QED BY <1>3, <2>2, <2>3 DEF DeniedDecides
  <1>4. CASE UnlockDenied(t)
    <2>1. Quiet /\ client' # NoToken
      BY <1>0, <1>4 DEF UnlockDenied, tokens, flags, latches, Quiet, LatchOf, DeniedSection
    <2>2. PICK l \in {"latch", "denied"} : Go(t, l, frame[t])
      BY <1>4 DEF UnlockDenied
    <2>3. pc'[t] \in {"latch", "denied"}
      BY <1>0, <2>2, GoMoves
    <2>4. LatchOf(t)'
      BY <2>1, <2>3 DEF LatchOf, ColdSection, DeniedSection, HealSection, LoginLabels
    <2>5. QED BY <2>1, <2>4, QuietKeeps
  <1>5. CASE UnlockAcquire(t) \/ UnlockRecheck(t) \/ UnlockSucceeds(t) \/ UnlockFails(t)
    <2>1. Quiet
      BY <1>5 DEF UnlockAcquire, UnlockRecheck, UnlockSucceeds, UnlockFails, tokens,
                  flags, latches, Quiet
    <2>2. CASE \E l \in {"recheck", "client", "storeKr"} : \E g : Go(t, l, g)
      BY <1>0, <2>2, GoMoves, SafeSpot, <2>1, QuietKeeps DEF SafeLabels
    <2>3. CASE KeyringsReturn(t)
      BY <1>0, <2>1, <2>3, QuietKeeps, KeyringsReturnMoves, KeyringsDoneLatch
    <2>4. CASE FailsOtherwise(t, hist)
      BY <1>0, <2>1, <2>4, QuietKeeps, FailsMoves, ReturnedLatch
    <2>5. CASE UnlockAcquire(t)
      BY <2>2, <2>5 DEF UnlockAcquire
    <2>6. CASE UnlockRecheck(t)
      BY <2>2, <2>3, <2>6 DEF UnlockRecheck
    <2>7. CASE UnlockSucceeds(t)
      BY <2>2, <2>7 DEF UnlockSucceeds
    <2>8. CASE UnlockFails(t)
      BY <2>4, <2>8 DEF UnlockFails
    <2>9. QED BY <1>5, <2>5, <2>6, <2>7, <2>8
  <1>6. CASE StoreKeyrings(t) \/ CalendarResolve(t) \/ CalendarStore(t)
    <2>1. Quiet
      BY <1>6 DEF StoreKeyrings, CalendarResolve, CalendarStore, tokens, flags, latches,
                  Quiet
    <2>2. CASE StoreKeyrings(t)
      BY <1>0, <2>1, <2>2, QuietKeeps, KeyringsReturnMoves, KeyringsDoneLatch
         DEF StoreKeyrings
    <2>3. CASE Go(t, "storeCal", frame[t])
      BY <1>0, <2>1, <2>3, QuietKeeps, GoMoves, SafeSpot DEF SafeLabels
    <2>4. CASE FailsOtherwise(t, hist)
      BY <1>0, <2>1, <2>4, QuietKeeps, FailsMoves, ReturnedLatch
    <2>5. CASE CalendarStore(t)
      BY <1>0, <2>1, <2>5, QuietKeeps, ReturnMoves, ReturnedLatch DEF CalendarStore
    <2>6. QED BY <1>6, <2>2, <2>3, <2>4, <2>5 DEF CalendarResolve
  <1>7. QED BY <1>1, <1>2, <1>3, <1>4, <1>5, <1>6 DEF KeyringSteps

\* The first step of every call the server makes.
LEMMA CallsLatch ==
  ASSUME ServerProfile, LatchInv, NEW t \in Threads, Call(t)
  PROVE  Kept(t) /\ LatchOf(t)'
  <1>0. TypeOK
    BY DEF LatchInv, LockInv
  <1>1. CASE ClientCall(t) \/ RawCall(t) \/ KeyringsCall(t) \/ CalendarCall(t)
    <2>1. Quiet
      BY <1>1 DEF ClientCall, RawCall, KeyringsCall, CalendarCall, tokens, flags, latches,
                  Quiet
    <2>2. PICK l \in {"client", "unlockMu"} : \E g : Go(t, l, g)
      BY <1>1 DEF ClientCall, RawCall, KeyringsCall, CalendarCall
    <2>3. pc'[t] \in SafeLabels
      BY <1>0, <2>2, GoMoves DEF SafeLabels
    <2>4. QED BY <2>1, <2>3, QuietKeeps, SafeSpot
  <1>2. CASE LibraryRotates(t)
    <2>1. /\ pc[t] = "idle" /\ scopeReloginExhausted' = scopeReloginExhausted
          /\ \/ \E g : Go(t, "rotated", g)
             \/ UNCHANGED pc
      BY <1>2 DEF LibraryRotates, flags, latches
    <2>2. client' # NoToken <=> client # NoToken
      <3>1. PICK c \in open : /\ CanRotate(c)
                              /\ \/ client' = IF client = c THEN [c EXCEPT !.gen = @ + 1]
                                               ELSE client
                                 \/ client' = client
        BY <1>2 DEF LibraryRotates
      <3>2. c \in Tokens
        BY <1>0 DEF TypeOK
      <3>3. c.sid # 0 /\ [c EXCEPT !.gen = @ + 1].sid = c.sid
        BY <3>1, <3>2, RealToken DEF Tokens
      <3>4. c # NoToken /\ [c EXCEPT !.gen = @ + 1] # NoToken
        BY <3>3, RealToken
      <3>5. QED BY <3>1, <3>4
    <2>3. Kept(t)
      BY <2>1, <2>2 DEF Kept, ClientKept, LatchKept
    <2>4. pc'[t] \in SafeLabels
      BY <1>0, <2>1, GoMoves DEF SafeLabels, RotationLabels
    <2>5. QED BY <2>3, <2>4, SafeSpot
  <1>3. CASE LoginCall(t) \/ LogoutCall(t)
    BY <1>3 DEF LoginCall, LogoutCall, ServerProfile
  <1>4. QED BY <1>1, <1>2, <1>3 DEF Call

\* The invariant is inductive, and no step resets the latch.
LEMMA LatchStep ==
  ASSUME ServerProfile, LatchInv, LockInv', [Next]_vars
  PROVE  LatchInv' /\ (scopeReloginExhausted => scopeReloginExhausted' \/ Restart)
  <1>1. ASSUME NEW t \in Threads, Step(t) \/ Call(t)
        PROVE  LatchInv' /\ (scopeReloginExhausted => scopeReloginExhausted')
    <2>1. Kept(t) /\ LatchOf(t)'
      BY <1>1, ClientStepsLatch, LoginStepsLatch, RotationStepsLatch, KeyringStepsLatch,
         CallsLatch DEF Step
    <2>2. Footprint(t)
      BY <1>1, ClientStepsDisciplined, LoginStepsDisciplined, RotationStepsDisciplined,
         KeyringStepsDisciplined, CallsDisciplined DEF Step, LatchInv
    <2>3. \A u \in Threads : LatchOf(u)'
      BY <2>1, <2>2, OthersKeepLatch
    <2>4. scopeReloginExhausted' => client' # NoToken
      BY <2>1 DEF Kept, ClientKept, LatchKept, LatchInv
    <2>5. QED BY <2>1, <2>3, <2>4 DEF LatchInv, Kept, LatchKept
  <1>2. CASE Restart
    <2>1. ASSUME NEW u \in Threads PROVE LatchOf(u)'
      <3>1. pc'[u] = "idle"
        BY <1>2 DEF Restart
      <3>2. QED BY <3>1, SafeSpot DEF SafeLabels
    <2>2. ~scopeReloginExhausted'
      BY <1>2 DEF Restart
    <2>3. QED BY <1>2, <2>1, <2>2 DEF LatchInv
  <1>3. CASE Revoke \/ UNCHANGED vars
    <2>1. pc' = pc /\ frame' = frame /\ Quiet
      BY <1>3 DEF Revoke, vars, tokens, flags, latches, Quiet
    <2>2. ASSUME NEW u \in Threads PROVE LatchOf(u)'
      <3>1. /\ ColdSection(u)' = ColdSection(u) /\ HealSection(u)' = HealSection(u)
            /\ DeniedSection(u)' = DeniedSection(u)
        BY <2>1 DEF ColdSection, HealSection, DeniedSection
      <3>2. QED BY <2>1, <3>1 DEF LatchInv, LatchOf, Quiet
    <2>3. QED BY <2>1, <2>2 DEF LatchInv, Quiet
  <1>4. QED BY <1>1, <1>2, <1>3 DEF Next

\* "The latch resets only on explicit Login/Logout" (ADR 0003): in the server,
\* with any number of goroutines, any store and network faults, rotations and
\* revocations, the latch of the scope self-heal stays set until the process
\* ends, although a successful unattended login assigns FALSE to it.
THEOREM LatchNeverReset == ASSUME ServerProfile PROVE Spec => LatchHeld
  <1>1. Init => LatchInv
    <2> SUFFICES ASSUME Init PROVE LatchInv
      OBVIOUS
    <2>1. LockInv
      BY InitDisciplined
    <2>2. ASSUME NEW u \in Threads PROVE LatchOf(u)
      <3>1. pc[u] = "idle"
        BY DEF Init, FreshMemory
      <3>2. QED BY <3>1 DEF LatchOf, ColdSection, DeniedSection, HealSection, LoginLabels
    <2>3. ~scopeReloginExhausted
      BY DEF Init, FreshMemory
    <2>4. QED BY <2>1, <2>2, <2>3 DEF LatchInv
  <1>2. LatchInv /\ LockInv' /\ [Next]_vars
          => LatchInv' /\ [scopeReloginExhausted => scopeReloginExhausted' \/ Restart]_vars
    BY LatchStep
  <1>3. QED BY <1>1, <1>2, LocksHeld, PTL DEF Spec, LatchHeld

-----------------------------------------------------------------------------
(* The count of unattended logins in the server, and the cached keyrings.  *)
(* The cache is filled once, by a thread inside the unlockMu section that  *)
(* has a client, and an unattended login, which empties it, happens only   *)
(* while it is empty.  A cold-start login that has run leaves a client or  *)
(* the latch; a self-heal leaves the latch, keyrings, or a counted error.  *)

Healing(t) ==
  \/ pc[t] = "latch" \/ frame[t].phase = "retry"
  \/ pc[t] \in LoginLabels /\ frame[t].why = "heal"
ColdLogin(t) == pc[t] \in LoginLabels /\ frame[t].why = "cold"

\* Positions outside the unlockMu section, and those that say something of
\* the locals beside their phase.
OutLabels == {"idle", "unlockMu", "resolve", "storeCal"} \cup RotationLabels
ToldLabels == {"unlock", "storeKr", "resolve", "storeCal", "denied", "heal"}

BoundOf(t) ==
  /\ pc[t] \in {"unlock", "storeKr", "resolve", "storeCal"} =>
       client # NoToken /\ frame[t].sid # 0
  /\ pc[t] \in {"denied", "heal"} => frame[t].phase = "unlock"
  /\ frame[t].phase = "calendar" => keyrings # 0
  /\ pc[t] \in {"resolve", "storeCal"} => frame[t].phase = "calendar"
  /\ pc[t] \in OutLabels => ~Unlocking(t)

CacheOK ==
  /\ client # NoToken => client.sid # 0
  /\ keyrings # 0 => client # NoToken
  /\ calKeyrings # 0 => keyrings # 0

CountOK ==
  /\ hist.cold <= 1
  /\ hist.cold = 1 => client # NoToken \/ reloginExhausted \/ \E t \in Threads : ColdLogin(t)
  /\ hist.heal <= hist.blip + 1
  /\ hist.heal = hist.blip + 1 =>
       scopeReloginExhausted \/ keyrings # 0 \/ \E t \in Threads : Healing(t)

BoundInv == LatchInv /\ CacheOK /\ CountOK /\ \A t \in Threads : BoundOf(t)

\* What a step of t does to the cache and to the counts.
CachesKept ==
  /\ keyrings # 0 => keyrings' = keyrings
  /\ calKeyrings # 0 => calKeyrings' = calKeyrings
SameCounts ==
  hist'.cold = hist.cold /\ hist'.heal = hist.heal /\ hist'.blip = hist.blip
Blip == hist'.cold = hist.cold /\ hist'.heal = hist.heal /\ hist'.blip = hist.blip + 1
Counted(t) ==
  /\ \/ SameCounts \/ Blip
     \/ /\ hist'.cold = hist.cold + 1 /\ hist'.heal = hist.heal /\ hist'.blip = hist.blip
        /\ pc[t] = "refresh" /\ ~reloginExhausted /\ ColdLogin(t)'
     \/ /\ hist'.cold = hist.cold /\ hist'.heal = hist.heal + 1 /\ hist'.blip = hist.blip
        /\ pc[t] = "heal" /\ Healing(t)'
  /\ Healing(t) => Healing(t)' \/ scopeReloginExhausted' \/ keyrings' # 0 \/ Blip
  /\ ColdLogin(t) => ColdLogin(t)' \/ client' # NoToken \/ reloginExhausted'
  /\ reloginExhausted => reloginExhausted' \/ client' # NoToken
OwnOK(t) == CachesKept /\ CacheOK' /\ Counted(t) /\ BoundOf(t)'

Unmoved ==
  /\ UNCHANGED <<client, keyrings, calKeyrings, reloginExhausted, scopeReloginExhausted>>
  /\ SameCounts

\* Steps that count nothing and keep the thread healing or logging in.
LEMMA BoundAlong ==
  ASSUME BoundInv, NEW t \in Threads, Unmoved, BoundOf(t)',
         Healing(t) => Healing(t)' \/ keyrings # 0, ColdLogin(t) => ColdLogin(t)'
  PROVE  OwnOK(t)
<1>1. CachesKept /\ CacheOK'
  BY DEF Unmoved, BoundInv, CacheOK, CachesKept
<1>2. Counted(t)
  BY DEF Unmoved, Counted
<1> QED
  BY <1>1, <1>2 DEF OwnOK

LEMMA InnerBound ==
  ASSUME BoundInv, NEW t \in Threads, pc'[t] \notin ToldLabels \cup OutLabels,
         frame'[t].phase = frame[t].phase, keyrings' = keyrings
  PROVE  BoundOf(t)'
BY SMTT(30) DEF BoundOf, BoundInv, ToldLabels, OutLabels

LEMMA OutBound ==
  ASSUME NEW t \in Threads, pc'[t] \in OutLabels, pc'[t] \notin ToldLabels,
         frame'[t].phase = ""
  PROVE  BoundOf(t)'
BY DEF BoundOf, ToldLabels, Unlocking

\* The ends of a method, of Client() and of Keyrings.
LEMMA ReturnBound ==
  ASSUME TypeOK, NEW t \in Threads, Return(t)
  PROVE  BoundOf(t)'
<1>1. pc'[t] = "idle" /\ frame'[t].phase = ""
  BY GoMoves, NoFramePhase DEF Return
<1> QED
  BY <1>1, OutBound DEF OutLabels, ToldLabels

LEMMA FailsBound ==
  ASSUME BoundInv, NEW t \in Threads, NEW h \in Hists, FailsOtherwise(t, h),
         h.cold = hist.cold, h.heal = hist.heal, h.blip = hist.blip,
         UNCHANGED <<client, keyrings, calKeyrings, scopeReloginExhausted>>,
         reloginExhausted => reloginExhausted', pc[t] # "latch",
         pc[t] \in LoginLabels => frame[t].why # "heal",
         ColdLogin(t) => reloginExhausted'
  PROVE  OwnOK(t)
<1>1. BoundOf(t)'
  BY ReturnBound DEF FailsOtherwise, BoundInv, LatchInv, LockInv
<1>2. CachesKept /\ CacheOK'
  BY DEF BoundInv, CacheOK, CachesKept
<1>3. Counted(t)
  <2>1. CASE frame[t].phase = "retry"
    <3>1. Blip
      BY <2>1 DEF FailsOtherwise, Blip, Hists
    <3> QED
      BY <3>1 DEF Counted
  <2>2. CASE frame[t].phase # "retry"
    <3>1. SameCounts
      BY <2>2 DEF FailsOtherwise, SameCounts
    <3> QED
      BY <2>2, <3>1 DEF Counted, Healing
  <2> QED
    BY <2>1, <2>2
<1> QED
  BY <1>1, <1>2, <1>3 DEF OwnOK

\* Client() back in its caller: the thread has a client and goes on healing.
LEMMA ClientReturnBound ==
  ASSUME BoundInv, NEW t \in Threads, NEW s, ClientReturns(t, s), s # 0,
         client' # NoToken, keyrings' = keyrings, frame[t].phase # "", pc[t] # "latch",
         pc[t] \in LoginLabels => frame[t].why # "heal"
  PROVE  BoundOf(t)' /\ (Healing(t) => Healing(t)')
<1>0. TypeOK /\ frame[t] \in Frames /\ BoundOf(t)
  BY FrameTyped DEF BoundInv, LatchInv, LockInv
<1>1. CASE Return(t) /\ frame[t].phase = "direct"
  BY <1>0, <1>1, ReturnBound DEF Healing
<1>2. CASE frame[t].phase # "direct"
  <2> DEFINE l == IF frame[t].phase = "calendar" THEN "resolve" ELSE "unlock"
  <2>1. PICK g : /\ g = [frame[t] EXCEPT !.sid = s, !.why = "", !.input = "none", !.sess = NoSession]
                 /\ Go(t, l, g)
    BY <1>2 DEF ClientReturns
  <2>2. g.sid = s /\ g.phase = frame[t].phase
    BY <1>0, <2>1 DEF Frames
  <2>3. pc'[t] = l /\ frame'[t] = g
    <3>1. Go(t, l, g)
      BY <2>1
    <3> HIDE DEF l
    <3> QED
      BY <1>0, <3>1, GoMoves
  <2>4. frame[t].phase \in {"unlock", "retry", "calendar"}
    BY <1>0, <1>2 DEF Frames
  <2>5. Healing(t) => Healing(t)'
    BY <2>2, <2>3 DEF Healing
  <2>6. /\ frame'[t].phase = frame[t].phase /\ frame'[t].sid # 0
        /\ pc'[t] = IF frame[t].phase = "calendar" THEN "resolve" ELSE "unlock"
    BY <2>2, <2>3
  <2>7. BoundOf(t)'
    <3>1. CASE frame[t].phase = "calendar"
      <4>1. pc'[t] = "resolve" /\ keyrings' # 0 /\ frame'[t].phase = "calendar"
        BY <1>0, <2>6, <3>1 DEF BoundOf
      <4> QED
        BY <2>6, <4>1 DEF BoundOf, Unlocking
    <3>2. CASE frame[t].phase # "calendar"
      <4>1. pc'[t] = "unlock" /\ frame'[t].phase # "calendar"
        BY <2>6, <3>2
      <4> QED
        BY <2>6, <4>1 DEF BoundOf, OutLabels, RotationLabels
    <3> QED
      BY <3>1, <3>2
  <2> QED
    BY <2>5, <2>7
<1> QED
  BY <1>1, <1>2 DEF ClientReturns

LEMMA KeyringsReturnBound ==
  ASSUME TypeOK, NEW t \in Threads, KeyringsReturn(t), keyrings' # 0
  PROVE  BoundOf(t)'
<1>1. CASE Return(t)
  BY <1>1, ReturnBound
<1>2. CASE Go(t, "client", [NoFrame EXCEPT !.phase = "calendar", !.cal = TRUE])
  <2>1. PICK g : g.phase = "calendar" /\ Go(t, "client", g)
    BY <1>2, NoFramePhase
  <2>2. pc'[t] = "client" /\ frame'[t].phase = "calendar"
    BY <2>1, GoMoves
  <2> QED
    BY <2>2 DEF BoundOf, OutLabels, RotationLabels
<1> QED
  BY <1>1, <1>2 DEF KeyringsReturn

\* The steps of Client().
LEMMA ClientStepsBound ==
  ASSUME BoundInv, NEW t \in Threads, ClientSteps(t)
  PROVE  OwnOK(t)
<1>0. /\ TypeOK /\ Discipline(t) /\ LatchOf(t) /\ BoundOf(t) /\ frame[t] \in Frames
      /\ hist \in Hists
  BY FrameTyped DEF BoundInv, LatchInv, LockInv, TypeOK, Hists
<1>1. /\ pc[t] \in ClientLabels /\ frame[t].phase # "" /\ pc[t] # "latch"
      /\ pc[t] \notin LoginLabels /\ ~ColdLogin(t)
  <2>1. pc[t] \in ClientLabels
    BY DEF ClientSteps, ClientFast, ClientNoRefresh, ClientLoad, ClientRefresh,
           ClientRefreshFails, ClientRejected, ClientSave, ClientLabels
  <2> QED
    BY <1>0, <2>1 DEF ClientLabels, LoginLabels, ColdLogin, Discipline
<1>2. Healing(t) <=> frame[t].phase = "retry"
  BY <1>1 DEF Healing
<1> USE DEF ToldLabels, OutLabels, RotationLabels
<1>3. CASE ClientFast(t) \/ ClientNoRefresh(t)
  <2>1. UNCHANGED <<client, keyrings, calKeyrings, reloginExhausted, scopeReloginExhausted>>
    BY <1>3 DEF ClientFast, ClientNoRefresh, tokens, flags, latches, caches
  <2>2. CASE client # NoToken /\ ClientReturns(t, client.sid) /\ hist' = hist
    <3>1. client.sid # 0 /\ client' # NoToken
      BY <2>1, <2>2 DEF BoundInv, CacheOK
    <3>2. BoundOf(t)' /\ (Healing(t) => Healing(t)')
      BY <1>1, <2>1, <2>2, <3>1, ClientReturnBound
    <3>3. Unmoved
      BY <2>1, <2>2 DEF Unmoved, SameCounts
    <3> QED
      BY <1>1, <3>2, <3>3, BoundAlong
  <2>3. CASE Go(t, "clientLock", frame[t]) /\ hist' = hist
    <3>1. pc'[t] = "clientLock" /\ frame'[t] = frame[t]
      BY <1>0, <2>3, GoMoves
    <3>2. BoundOf(t)' /\ Unmoved /\ (Healing(t) => Healing(t)')
      BY <1>2, <2>1, <2>3, <3>1, InnerBound DEF Unmoved, SameCounts, Healing
    <3> QED
      BY <1>1, <3>2, BoundAlong
  <2>4. CASE FailsOtherwise(t, hist)
    BY <1>0, <1>1, <2>1, <2>4, FailsBound
  <2> QED
    BY <1>3, <2>2, <2>3, <2>4 DEF ClientFast, ClientNoRefresh
<1>4. CASE ClientLoad(t) \/ ClientRefresh(t)
  <2>1. Unmoved
    BY <1>4 DEF ClientLoad, ClientRefresh, tokens, flags, latches, caches, Unmoved, SameCounts
  <2>2. pc'[t] \in {"refresh", "saveCold"} /\ frame'[t].phase = frame[t].phase
    BY <1>0, <1>4, LoadEffect, RefreshEffect DEF SameCall
  <2>3. BoundOf(t)' /\ (Healing(t) => Healing(t)')
    BY <1>2, <2>1, <2>2, InnerBound DEF Unmoved, Healing
  <2> QED
    BY <1>1, <2>1, <2>3, BoundAlong
<1>5. CASE ClientRefreshFails(t)
  <2>1. UNCHANGED <<client, keyrings, calKeyrings, reloginExhausted, scopeReloginExhausted>>
    BY <1>5 DEF ClientRefreshFails, tokens, flags, latches, caches
  <2> QED
    BY <1>0, <1>1, <1>5, <2>1, FailsBound DEF ClientRefreshFails
<1>6. CASE ClientRejected(t)
  <2>1. UNCHANGED <<client, keyrings, calKeyrings, reloginExhausted, scopeReloginExhausted>>
    BY <1>6 DEF ClientRejected, tokens, flags, latches, caches
  <2>2. CASE FailsOtherwise(t, hist)
    BY <1>0, <1>1, <2>1, <2>2, FailsBound
  <2>3. CASE /\ ~reloginExhausted /\ hist' = [hist EXCEPT !.cold = @ + 1]
             /\ Go(t, "relogin", [frame[t] EXCEPT !.why = "cold"])
    <3>1. PICK g : g = [frame[t] EXCEPT !.why = "cold"] /\ Go(t, "relogin", g)
      BY <2>3
    <3>2. g.why = "cold" /\ g.phase = frame[t].phase
      BY <1>0, <3>1 DEF Frames
    <3>3. pc'[t] = "relogin" /\ frame'[t] = g
      BY <1>0, <3>1, GoMoves
    <3>4. BoundOf(t)' /\ (Healing(t) => Healing(t)') /\ ColdLogin(t)'
      BY <1>2, <2>1, <3>2, <3>3, InnerBound DEF Healing, ColdLogin, LoginLabels
    <3>5. pc[t] = "refresh"
      BY <1>6 DEF ClientRejected
    <3>6. /\ hist'.cold = hist.cold + 1 /\ hist'.heal = hist.heal /\ hist'.blip = hist.blip
      BY <1>0, <2>3 DEF Hists
    <3>7. CachesKept /\ CacheOK'
      BY <2>1 DEF BoundInv, CacheOK, CachesKept
    <3>8. Counted(t)
      BY <2>1, <2>3, <3>4, <3>5, <3>6 DEF Counted
    <3> QED
      BY <3>4, <3>7, <3>8 DEF OwnOK
  <2> QED
    BY <1>6, <2>2, <2>3 DEF ClientRejected
<1>7. CASE ClientSave(t)
  <2>1. /\ UNCHANGED <<keyrings, calKeyrings, reloginExhausted, scopeReloginExhausted>>
        /\ pc[t] = "saveCold" /\ client' = TokenOf(frame[t].sess)
        /\ ClientReturns(t, frame[t].sess.sid)
    BY <1>7 DEF ClientSave, latches, caches
  <2>2. SameCounts
    BY <1>0, <1>7 DEF ClientSave, SameCounts, Hists
  <2>3. frame[t].sess.sid # 0 /\ client' # NoToken /\ client'.sid = frame[t].sess.sid
    BY <1>0, <2>1, RealToken DEF LatchOf, TokenOf
  <2>4. BoundOf(t)' /\ (Healing(t) => Healing(t)')
    BY <1>1, <2>1, <2>3, ClientReturnBound
  <2>5. CachesKept /\ CacheOK' /\ Counted(t)
    BY <1>1, <2>1, <2>2, <2>3, <2>4 DEF BoundInv, CacheOK, CachesKept, Counted
  <2> QED
    BY <2>4, <2>5 DEF OwnOK
<1> QED
  BY <1>3, <1>4, <1>5, <1>6, <1>7 DEF ClientSteps

\* The login path.  A cold start runs it without a client, a self-heal inside
\* the unlockMu section: the keyrings its success empties are not there.
LEMMA LoginFailsBound ==
  ASSUME BoundInv, NEW t \in Threads, NEW h \in Hists, pc[t] \in LoginLabels,
         LoginFails(t, h), h.cold = hist.cold, h.heal = hist.heal, h.blip = hist.blip,
         UNCHANGED <<client, keyrings, calKeyrings, scopeReloginExhausted>>
  PROVE  OwnOK(t)
<1>0. TypeOK /\ LatchOf(t) /\ BoundOf(t) /\ pc[t] # "latch"
  BY DEF BoundInv, LatchInv, LockInv, LoginLabels
<1>1. reloginExhausted' = (reloginExhausted \/ frame[t].why = "cold")
  BY DEF LoginFails
<1>2. CASE frame[t].why = "heal" /\ Go(t, "latch", frame[t]) /\ hist' = h
  <2>1. pc'[t] = "latch" /\ frame'[t] = frame[t]
    BY <1>0, <1>2, GoMoves
  <2>2. BoundOf(t)' /\ Healing(t)' /\ ~ColdLogin(t)
    BY <1>2, <2>1, InnerBound
    DEF Healing, ColdLogin, ToldLabels, OutLabels, RotationLabels
  <2>3. Unmoved
    BY <1>0, <1>1, <1>2 DEF Unmoved, SameCounts, TypeOK
  <2> QED
    BY <2>2, <2>3, BoundAlong
<1>3. CASE frame[t].why = "cold" /\ FailsOtherwise(t, h)
  BY <1>0, <1>1, <1>3, FailsBound
<1> QED
  BY <1>0, <1>2, <1>3 DEF LoginFails, LatchOf

LEMMA LoginStepsBound ==
  ASSUME BoundInv, NEW t \in Threads, LoginSteps(t)
  PROVE  OwnOK(t)
<1>0. /\ TypeOK /\ Discipline(t) /\ LatchOf(t) /\ BoundOf(t) /\ frame[t] \in Frames
      /\ hist \in Hists
  BY FrameTyped DEF BoundInv, LatchInv, LockInv, TypeOK, Hists
<1>1. pc[t] \in LoginLabels /\ frame[t].why \in {"cold", "heal"} /\ pc[t] # "latch"
  BY <1>0 DEF LoginSteps, ReloginLoadCreds, Authenticate, AuthenticateFails, PersistCreds,
     PersistSession, PersistSessionFails, Rollback, LogoutClear, LoginLabels, LatchOf
<1> USE DEF ToldLabels, OutLabels, RotationLabels
<1>2. ASSUME Unmoved, pc'[t] \in LoginLabels, SameCall(t) PROVE OwnOK(t)
  <2>1. BoundOf(t)'
    BY <1>2, InnerBound DEF Unmoved, SameCall, LoginLabels
  <2>2. (Healing(t) => Healing(t)') /\ (ColdLogin(t) => ColdLogin(t)')
    BY <1>1, <1>2 DEF Healing, ColdLogin, SameCall
  <2> QED
    BY <1>2, <2>1, <2>2, BoundAlong
<1>3. CASE PersistSession(t)
  <2>1. /\ pc[t] = "saveSess" /\ client' = TokenOf(frame[t].sess)
        /\ keyrings' = 0 /\ calKeyrings' = 0
    BY <1>3 DEF PersistSession
  <2>2. frame[t].sess.sid # 0 /\ client' # NoToken /\ client'.sid = frame[t].sess.sid
    BY <1>0, <2>1, RealToken DEF LatchOf, TokenOf
  <2>3. keyrings = 0 /\ calKeyrings = 0
    <3>1. CASE frame[t].why = "cold"
      BY <1>1, <3>1, <1>0 DEF LatchOf, ColdSection, BoundInv, CacheOK
    <3>2. CASE frame[t].why = "heal"
      BY <1>0, <1>1, <2>1, <3>2 DEF Discipline, BoundInv, CacheOK
    <3> QED
      BY <1>1, <3>1, <3>2
  <2>4. SameCounts
    BY <1>0, <1>1, <1>3 DEF PersistSession, HistAfterLogin, SameCounts, Hists
  <2>5. BoundOf(t)' /\ (Healing(t) => Healing(t)')
    <3>1. CASE frame[t].why = "cold"
      <4>1. ClientReturns(t, frame[t].sess.sid) /\ frame[t].phase # ""
        BY <1>0, <1>1, <1>3, <3>1 DEF PersistSession, Discipline
      <4> QED
        BY <1>1, <2>1, <2>2, <2>3, <3>1, <4>1, ClientReturnBound
    <3>2. CASE frame[t].why = "heal"
      <4>1. PICK g : /\ Go(t, "client", g)
                     /\ g = [frame[t] EXCEPT !.phase = "retry", !.why = "", !.input = "none",
                                             !.sess = NoSession]
        BY <1>3, <3>2 DEF PersistSession
      <4>2. g.phase = "retry"
        BY <1>0, <4>1 DEF Frames
      <4>3. pc'[t] = "client" /\ frame'[t] = g
        BY <1>0, <4>1, GoMoves
      <4> QED
        BY <4>2, <4>3 DEF Healing, BoundOf
    <3> QED
      BY <1>1, <3>1, <3>2
  <2>6. CachesKept /\ CacheOK' /\ Counted(t)
    BY <2>1, <2>2, <2>3, <2>4, <2>5 DEF CacheOK, CachesKept, Counted
  <2> QED
    BY <2>5, <2>6 DEF OwnOK
<1>4. CASE ~PersistSession(t)
  <2>1. UNCHANGED <<client, keyrings, calKeyrings, scopeReloginExhausted>>
    BY <1>0, <1>4 DEF LoginSteps, ReloginLoadCreds, Authenticate, AuthenticateFails, PersistCreds,
       PersistSessionFails, Rollback, LogoutClear, LatchOf, tokens, flags, latches, caches
  <2>2. \/ \E h \in Hists : /\ LoginFails(t, h) /\ h.cold = hist.cold
                            /\ h.heal = hist.heal /\ h.blip = hist.blip
        \/ /\ reloginExhausted' = reloginExhausted /\ SameCounts
           /\ pc'[t] \in LoginLabels /\ SameCall(t)
    <3>1. CASE ReloginLoadCreds(t)
      <4>1. CASE LoginFails(t, hist)
        BY <1>0, <4>1
      <4>2. CASE /\ Go(t, "auth", [frame[t] EXCEPT !.input = store.creds])
                 /\ reloginExhausted' = reloginExhausted /\ hist' = hist
        <5>1. PICK g : g = [frame[t] EXCEPT !.input = store.creds] /\ Go(t, "auth", g)
          BY <4>2
        <5>2. g.phase = frame[t].phase /\ g.why = frame[t].why
          BY <1>0, <5>1 DEF Frames
        <5>3. pc'[t] = "auth" /\ frame'[t] = g
          BY <1>0, <5>1, GoMoves
        <5> QED
          BY <4>2, <5>2, <5>3 DEF SameCall, SameCounts, LoginLabels
      <4> QED
        BY <3>1, <4>1, <4>2 DEF ReloginLoadCreds
    <3>2. CASE Authenticate(t)
      <4>1. pc'[t] = "saveCreds" /\ SameCall(t)
        <5>1. PICK s, sc : Go(t, "saveCreds", [frame[t] EXCEPT
                                  !.sess = [sid |-> s, gen |-> 1, scope |-> sc]])
          BY <3>2 DEF Authenticate
        <5>2. PICK g : /\ g = [frame[t] EXCEPT !.sess = [sid |-> s, gen |-> 1, scope |-> sc]]
                       /\ Go(t, "saveCreds", g)
          BY <5>1
        <5>3. g.phase = frame[t].phase /\ g.why = frame[t].why
          BY <1>0, <5>2 DEF Frames
        <5>4. pc'[t] = "saveCreds" /\ frame'[t] = g
          BY <1>0, <5>2, GoMoves
        <5> QED
          BY <5>3, <5>4 DEF SameCall
      <4> QED
        BY <3>2, <4>1 DEF Authenticate, SameCounts, flags, latches, LoginLabels
    <3>3. CASE AuthenticateFails(t)
      BY <1>0, <3>3 DEF AuthenticateFails
    <3>4. CASE PersistCreds(t)
      <4>1. CASE LoginFails(t, hist)
        BY <1>0, <4>1
      <4>2. CASE /\ \E l \in {"saveSess", "rollback"} : Go(t, l, frame[t])
                 /\ reloginExhausted' = reloginExhausted /\ hist' = hist
        BY <1>0, <4>2, GoMoves DEF SameCall, SameCounts, LoginLabels
      <4> QED
        BY <3>4, <4>1, <4>2 DEF PersistCreds
    <3>5. CASE PersistSessionFails(t)
      <4> DEFINE h == [hist EXCEPT !.saveFailed = TRUE]
      <4>1. h \in Hists /\ h.cold = hist.cold /\ h.heal = hist.heal /\ h.blip = hist.blip
        BY <1>0 DEF Hists
      <4>2. CASE LoginFails(t, h)
        BY <4>1, <4>2
      <4>3. CASE Go(t, "rollback", frame[t]) /\ hist' = h /\ reloginExhausted' = reloginExhausted
        BY <1>0, <4>1, <4>3, GoMoves DEF SameCall, SameCounts, LoginLabels
      <4> QED
        BY <3>5, <4>2, <4>3 DEF PersistSessionFails
    <3>6. CASE Rollback(t)
      BY <1>0, <3>6 DEF Rollback
    <3>7. CASE LogoutClear(t)
      BY <1>0, <3>7 DEF LogoutClear, LatchOf
    <3> QED
      BY <1>4, <3>1, <3>2, <3>3, <3>4, <3>5, <3>6, <3>7 DEF LoginSteps
  <2> QED
    BY <1>1, <1>2, <2>1, <2>2, LoginFailsBound DEF Unmoved
<1> QED
  BY <1>3, <1>4

\* Token rotation leaves the cache and the counts alone.
LEMMA RotationStepsBound ==
  ASSUME BoundInv, NEW t \in Threads, RotationSteps(t)
  PROVE  OwnOK(t)
<1>0. TypeOK /\ BoundOf(t)
  BY DEF BoundInv, LatchInv, LockInv
<1>1. pc[t] \in RotationLabels /\ ~Unlocking(t) /\ ~Healing(t) /\ ~ColdLogin(t)
  <2>1. pc[t] \in RotationLabels
    BY DEF RotationSteps, RotatedApply, RotatedSave, RotatedFlag, RotationLabels
  <2> QED
    BY <1>0, <2>1 DEF BoundOf, OutLabels, RotationLabels, LoginLabels, Unlocking, Healing,
                      ColdLogin
<1>2. Unmoved
  BY <1>0 DEF RotationSteps, RotatedApply, RotatedSave, RotatedFlag, tokens, flags, latches,
     caches, Unmoved, SameCounts, TypeOK
<1>3. BoundOf(t)'
  <2>1. CASE RotatedFlag(t)
    BY <1>0, <2>1, ReturnBound DEF RotatedFlag
  <2>2. CASE RotatedApply(t) \/ RotatedSave(t)
    <3>1. /\ pc'[t] \in {"rotSave", "rotSaved", "rotFailed"}
          /\ frame'[t].phase = frame[t].phase
      BY <1>0, <2>2, ApplyEffect, RotSaveEffect
    <3>2. ~Unlocking(t)'
      BY <1>1, <3>1 DEF Unlocking
    <3> QED
      BY <1>0, <1>2, <3>1, <3>2 DEF BoundOf, Unmoved
  <2> QED
    BY <2>1, <2>2 DEF RotationSteps
<1> QED
  BY <1>1, <1>2, <1>3, BoundAlong

\* Keyrings, CalendarKeyring and the self-heal.
LEMMA KeyringStepsBound ==
  ASSUME BoundInv, NEW t \in Threads, KeyringSteps(t)
  PROVE  OwnOK(t)
<1>0. /\ TypeOK /\ Discipline(t) /\ LatchOf(t) /\ BoundOf(t) /\ frame[t] \in Frames
      /\ hist \in Hists /\ CacheOK
  BY FrameTyped DEF BoundInv, LatchInv, LockInv, TypeOK, Hists
<1>1. pc[t] \notin LoginLabels /\ ~ColdLogin(t)
  BY DEF KeyringSteps, UnlockAcquire, UnlockRecheck, UnlockSucceeds, UnlockDenied, UnlockFails,
         StoreKeyrings, DeniedDecides, HealRelogin, HealLatch, CalendarResolve, CalendarStore,
         LoginLabels, ColdLogin
<1>2. pc[t] # "latch" => (Healing(t) <=> frame[t].phase = "retry")
  BY <1>1 DEF Healing
<1> USE DEF ToldLabels, OutLabels, RotationLabels
<1>3. CASE UnlockAcquire(t)
  <2>1. Unmoved /\ pc[t] = "unlockMu"
    BY <1>3 DEF UnlockAcquire, tokens, flags, latches, caches, Unmoved, SameCounts
  <2>2. PICK g : g = [frame[t] EXCEPT !.phase = "unlock"] /\ Go(t, "recheck", g)
    BY <1>3 DEF UnlockAcquire
  <2>3. g.phase = "unlock"
    BY <1>0, <2>2 DEF Frames
  <2>4. pc'[t] = "recheck" /\ frame'[t] = g
    BY <1>0, <2>2, GoMoves
  <2>5. BoundOf(t)' /\ ~Healing(t)
    BY <1>0, <1>2, <2>1, <2>3, <2>4 DEF BoundOf, Unlocking
  <2> QED
    BY <1>1, <2>1, <2>5, BoundAlong
<1>4. CASE UnlockRecheck(t)
  <2>1. Unmoved /\ pc[t] = "recheck" /\ keyrings' = keyrings
    BY <1>4 DEF UnlockRecheck, tokens, flags, latches, caches, Unmoved, SameCounts
  <2>2. CASE keyrings # 0 /\ KeyringsReturn(t)
    BY <1>0, <1>1, <2>1, <2>2, KeyringsReturnBound, BoundAlong
  <2>3. CASE Go(t, "client", frame[t])
    <3>1. pc'[t] = "client" /\ frame'[t] = frame[t]
      BY <1>0, <2>3, GoMoves
    <3>2. BoundOf(t)' /\ (Healing(t) => Healing(t)')
      BY <1>2, <2>1, <3>1, InnerBound DEF Healing
    <3> QED
      BY <1>1, <2>1, <3>2, BoundAlong
  <2> QED
    BY <1>4, <2>2, <2>3 DEF UnlockRecheck
<1>5. CASE UnlockSucceeds(t) \/ UnlockDenied(t)
  <2>1. Unmoved /\ pc[t] = "unlock" /\ client' = client
    BY <1>5 DEF UnlockSucceeds, UnlockDenied, tokens, flags, latches, caches, Unmoved, SameCounts
  <2>2. /\ frame'[t] = frame[t]
        /\ \/ pc'[t] \in {"storeKr", "latch"}
           \/ pc'[t] = "denied" /\ frame[t].phase # "retry"
    BY <1>0, <1>5, GoMoves DEF UnlockSucceeds, UnlockDenied
  <2>3. frame[t].phase \in {"unlock", "retry"}
    BY <1>0, <2>1 DEF Discipline, UnlockLabels, Unlocking
  <2>4. BoundOf(t)' /\ (Healing(t) => Healing(t)')
    BY <1>0, <1>2, <2>1, <2>2, <2>3 DEF BoundOf, Unlocking, Healing
  <2> QED
    BY <1>1, <2>1, <2>4, BoundAlong
<1>6. CASE UnlockFails(t) \/ (CalendarResolve(t) /\ FailsOtherwise(t, hist))
  <2>1. /\ UNCHANGED <<client, keyrings, calKeyrings, reloginExhausted, scopeReloginExhausted>>
        /\ FailsOtherwise(t, hist) /\ pc[t] # "latch"
    BY <1>6 DEF UnlockFails, CalendarResolve, tokens, flags, latches, caches
  <2> QED
    BY <1>0, <1>1, <2>1, FailsBound
<1>7. CASE StoreKeyrings(t)
  <2>1. /\ UNCHANGED <<client, calKeyrings, reloginExhausted, scopeReloginExhausted, hist>>
        /\ pc[t] = "storeKr" /\ keyrings' = frame[t].sid /\ KeyringsReturn(t)
    BY <1>7 DEF StoreKeyrings, tokens, flags, latches
  <2>2. client # NoToken /\ keyrings' # 0 /\ keyrings = 0
    BY <1>0, <2>1 DEF BoundOf, Discipline, UnlockLabels
  <2>3. BoundOf(t)'
    BY <1>0, <2>1, <2>2, KeyringsReturnBound
  <2>4. CachesKept /\ CacheOK' /\ Counted(t)
    BY <1>0, <1>1, <2>1, <2>2 DEF CacheOK, CachesKept, Counted, SameCounts
  <2> QED
    BY <2>3, <2>4 DEF OwnOK
<1>8. CASE DeniedDecides(t)
  <2>1. Unmoved /\ pc[t] = "denied" /\ ~Healing(t)
    BY <1>0, <1>2, <1>8
    DEF DeniedDecides, tokens, flags, latches, caches, Unmoved, SameCounts, BoundOf
  <2>2. CASE Return(t)
    BY <1>0, <1>1, <2>1, <2>2, ReturnBound, BoundAlong
  <2>3. CASE Go(t, "heal", frame[t])
    <3>1. pc'[t] = "heal" /\ frame'[t] = frame[t]
      BY <1>0, <2>3, GoMoves
    <3>2. BoundOf(t)'
      BY <1>0, <2>1, <3>1 DEF BoundOf, Unlocking
    <3> QED
      BY <1>1, <2>1, <3>2, BoundAlong
  <2> QED
    BY <1>8, <2>2, <2>3 DEF DeniedDecides
<1>9. CASE HealRelogin(t)
  <2>1. /\ UNCHANGED <<client, keyrings, calKeyrings, reloginExhausted, scopeReloginExhausted>>
        /\ pc[t] = "heal"
    BY <1>9 DEF HealRelogin, tokens, flags, latches, caches
  <2>2. hist'.cold = hist.cold /\ hist'.heal = hist.heal + 1 /\ hist'.blip = hist.blip
    BY <1>0, <1>9 DEF HealRelogin, Hists
  <2>3. PICK g : /\ g = [frame[t] EXCEPT !.why = "heal", !.sid = 0]
                 /\ Go(t, "relogin", g)
    BY <1>9 DEF HealRelogin
  <2>4. g.phase = frame[t].phase /\ g.why = "heal"
    BY <1>0, <2>3 DEF Frames
  <2>5. pc'[t] = "relogin" /\ frame'[t] = g
    BY <1>0, <2>3, GoMoves
  <2>6. BoundOf(t)' /\ Healing(t)'
    BY <2>1, <2>4, <2>5, InnerBound DEF Healing, LoginLabels
  <2>7. CachesKept /\ CacheOK' /\ Counted(t)
    BY <1>0, <1>1, <2>1, <2>2, <2>6 DEF CacheOK, CachesKept, Counted
  <2> QED
    BY <2>6, <2>7 DEF OwnOK
<1>10. CASE HealLatch(t)
  <2>1. /\ UNCHANGED <<client, keyrings, calKeyrings, reloginExhausted, hist>>
        /\ scopeReloginExhausted' /\ Return(t)
    BY <1>10 DEF HealLatch, tokens, caches
  <2>2. CachesKept /\ CacheOK' /\ Counted(t) /\ BoundOf(t)'
    BY <1>0, <1>1, <2>1, ReturnBound DEF CacheOK, CachesKept, Counted, SameCounts
  <2> QED
    BY <2>2 DEF OwnOK
<1>11. CASE CalendarResolve(t) /\ Go(t, "storeCal", frame[t]) /\ hist' = hist
  <2>1. Unmoved /\ pc[t] = "resolve" /\ client' = client /\ keyrings' = keyrings
    BY <1>11 DEF CalendarResolve, tokens, flags, latches, caches, Unmoved, SameCounts
  <2>2. pc'[t] = "storeCal" /\ frame'[t] = frame[t]
    BY <1>0, <1>11, GoMoves
  <2>3. BoundOf(t)' /\ ~Healing(t)
    BY <1>0, <1>2, <2>1, <2>2 DEF BoundOf, Unlocking
  <2> QED
    BY <1>1, <2>1, <2>3, BoundAlong
<1>12. CASE CalendarStore(t)
  <2>1. /\ UNCHANGED <<client, keyrings, reloginExhausted, scopeReloginExhausted, hist>>
        /\ pc[t] = "storeCal" /\ Return(t)
        /\ calKeyrings' = IF calKeyrings # 0 THEN calKeyrings ELSE frame[t].sid
    BY <1>12 DEF CalendarStore, tokens, flags, latches
  <2>2. keyrings # 0 /\ ~Healing(t)
    BY <1>0, <1>2, <2>1 DEF BoundOf, Unlocking
  <2>3. CachesKept /\ CacheOK' /\ Counted(t) /\ BoundOf(t)'
    BY <1>0, <1>1, <2>1, <2>2, ReturnBound DEF CacheOK, CachesKept, Counted, SameCounts
  <2> QED
    BY <2>3 DEF OwnOK
<1> QED
  BY <1>3, <1>4, <1>5, <1>6, <1>7, <1>8, <1>9, <1>10, <1>11, <1>12
  DEF KeyringSteps, CalendarResolve

\* The first step of every call the server makes.
LEMMA CallsBound ==
  ASSUME ServerProfile, BoundInv, NEW t \in Threads, Call(t)
  PROVE  OwnOK(t)
<1>0. TypeOK /\ BoundOf(t) /\ CacheOK
  BY DEF BoundInv, LatchInv, LockInv
<1>1. pc[t] = "idle" /\ ~Healing(t) /\ ~ColdLogin(t)
  <2>1. pc[t] = "idle"
    BY DEF Call, ClientCall, RawCall, LoginCall, LogoutCall, KeyringsCall, CalendarCall,
           LibraryRotates
  <2> QED
    BY <1>0, <2>1 DEF BoundOf, OutLabels, LoginLabels, Unlocking, Healing, ColdLogin
<1>2. CASE ClientCall(t) \/ RawCall(t) \/ KeyringsCall(t) \/ CalendarCall(t)
  <2>1. Unmoved /\ keyrings' = keyrings
    BY <1>2 DEF ClientCall, RawCall, KeyringsCall, CalendarCall, tokens, flags, latches,
                caches, Unmoved, SameCounts
  <2>2. \E l \in {"client", "unlockMu"} : \E g : /\ Go(t, l, g)
          /\ \/ l = "client" /\ g.phase = "direct"
             \/ l = "unlockMu" /\ g.phase = ""
             \/ l = "client" /\ g.phase = "calendar" /\ keyrings # 0
    BY <1>2, NoFramePhase DEF ClientCall, RawCall, KeyringsCall, CalendarCall
  <2>3. \/ pc'[t] = "client" /\ frame'[t].phase = "direct"
        \/ pc'[t] = "unlockMu" /\ frame'[t].phase = ""
        \/ pc'[t] = "client" /\ frame'[t].phase = "calendar" /\ keyrings # 0
    BY <1>0, <2>2, GoMoves
  <2>4. BoundOf(t)'
    BY <2>1, <2>3 DEF BoundOf, Unlocking, OutLabels, RotationLabels
  <2> QED
    BY <1>1, <2>1, <2>4, BoundAlong
<1>3. CASE LibraryRotates(t)
  <2>1. UNCHANGED <<keyrings, calKeyrings, reloginExhausted, scopeReloginExhausted, hist>>
    BY <1>3 DEF LibraryRotates, flags, latches, caches
  <2>2. \E c \in open :
          /\ c \in Tokens /\ c.sid \in Sids
          /\ \/ UNCHANGED <<client, pc, frame>>
             \/ /\ client' = IF client = c THEN NextToken(c) ELSE client
                /\ pc'[t] = "rotated" /\ frame'[t].phase = ""
    BY <1>0, <1>3, RotateEffect
  <2>3. (client' = NoToken <=> client = NoToken) /\ (client' # NoToken => client'.sid # 0)
    <3>1. \A c \in Tokens : c.sid \in Sids =>
             /\ NextToken(c).sid = c.sid /\ NextToken(c) # NoToken /\ c # NoToken
      <4>1. \A c \in Tokens : NextToken(c).sid = c.sid
        BY DEF NextToken, Tokens
      <4> QED
        BY <4>1, RealSession
    <3> QED
      BY <1>0, <2>2, <3>1, RealSession DEF CacheOK
  <2>4. BoundOf(t)'
    <3>1. CASE UNCHANGED <<client, pc, frame>>
      BY <1>0, <2>1, <3>1 DEF BoundOf, Unlocking
    <3>2. CASE pc'[t] = "rotated" /\ frame'[t].phase = ""
      BY <3>2, OutBound DEF OutLabels, RotationLabels, ToldLabels
    <3> QED
      BY <2>2, <3>1, <3>2
  <2>5. CachesKept /\ CacheOK' /\ Counted(t)
    BY <1>0, <1>1, <2>1, <2>3 DEF CacheOK, CachesKept, Counted, SameCounts
  <2> QED
    BY <2>4, <2>5 DEF OwnOK
<1>4. CASE LoginCall(t) \/ LogoutCall(t)
  BY <1>4 DEF LoginCall, LogoutCall, ServerProfile
<1> QED
  BY <1>2, <1>3, <1>4 DEF Call

\* Another thread keeps what it had: the client and the keyrings stay.
LEMMA OthersKeepBound ==
  ASSUME BoundInv, NEW t \in Threads, NEW u \in Threads, u # t, Alone(t), CachesKept,
         ClientKept(t)
  PROVE  BoundOf(u)' /\ (Healing(u) <=> Healing(u)') /\ (ColdLogin(u) <=> ColdLogin(u)')
<1>1. pc'[u] = pc[u] /\ frame'[u] = frame[u] /\ BoundOf(u)
  BY DEF Alone, BoundInv
<1>2. BoundOf(u)'
  BY <1>1 DEF BoundOf, CachesKept, ClientKept, Unlocking
<1> QED
  BY <1>1, <1>2 DEF Healing, ColdLogin

\* Nobody logs in for a rejected token while another does, nor heals while
\* another heals: the one holds mu, the other unlockMu.
LEMMA OneAtATime ==
  ASSUME BoundInv, NEW t \in Threads, NEW u \in Threads
  PROVE  /\ pc[t] = "refresh" => ~ColdLogin(u)
         /\ pc[t] = "heal" => ~Healing(u)
<1>1. Discipline(t) /\ Discipline(u) /\ BoundOf(t)
  BY DEF BoundInv, LatchInv, LockInv
<1>2. ASSUME pc[t] = "refresh", ColdLogin(u) PROVE FALSE
  BY <1>1, <1>2 DEF ColdLogin, Discipline, Critical, LoginLabels
<1>3. ASSUME pc[t] = "heal", Healing(u) PROVE FALSE
  <2>1. Unlocking(u) /\ Unlocking(t)
    BY <1>1, <1>3 DEF Healing, Discipline, UnlockLabels, Unlocking
  <2>2. u = t
    BY <1>1, <2>1 DEF Discipline
  <2> QED
    BY <1>1, <1>3, <2>2 DEF Healing, BoundOf, LoginLabels
<1> QED
  BY <1>2, <1>3

LEMMA BoundStep ==
  ASSUME ServerProfile, BoundInv, LockInv', NEW t \in Threads, Step(t) \/ Call(t)
  PROVE  BoundInv' /\ CachesKept
<1>0. LatchInv' /\ Kept(t) /\ Alone(t) /\ LatchInv /\ hist \in Hists
  <2>1. LatchInv'
    BY LatchStep DEF BoundInv, Next
  <2>2. Kept(t)
    BY ClientStepsLatch, LoginStepsLatch, RotationStepsLatch, KeyringStepsLatch, CallsLatch
    DEF Step, BoundInv
  <2> QED
    BY <2>1, <2>2, Stepped DEF BoundInv, LatchInv, LockInv, TypeOK, Hists
<1>1. OwnOK(t)
  BY ClientStepsBound, LoginStepsBound, RotationStepsBound, KeyringStepsBound, CallsBound
  DEF Step
<1>2. CachesKept /\ CacheOK' /\ Counted(t)
  BY <1>1 DEF OwnOK
<1>3. ASSUME NEW u \in Threads, u # t
      PROVE  BoundOf(u)' /\ (Healing(u) <=> Healing(u)') /\ (ColdLogin(u) <=> ColdLogin(u)')
  BY <1>0, <1>2, <1>3, OthersKeepBound DEF Kept
<1>4. \A u \in Threads : BoundOf(u)'
  BY <1>1, <1>3 DEF OwnOK
<1>5. hist'.cold <= 1 /\ (hist'.cold = 1 => \/ client' # NoToken \/ reloginExhausted'
                                            \/ \E u \in Threads : ColdLogin(u)')
  <2>1. CASE hist'.cold = hist.cold
    BY <1>0, <1>2, <1>3, <2>1 DEF BoundInv, CountOK, Counted, Kept, ClientKept
  <2>2. CASE /\ hist'.cold = hist.cold + 1 /\ pc[t] = "refresh" /\ ~reloginExhausted
             /\ ColdLogin(t)'
    <3>1. client = NoToken /\ ~\E u \in Threads : ColdLogin(u)
      BY <1>0, <2>2, OneAtATime DEF LatchInv, LatchOf, ColdSection
    <3>2. hist.cold <= 1 /\ hist.cold # 1 /\ hist.cold \in Nat
      BY <1>0, <2>2, <3>1 DEF BoundInv, CountOK, Hists
    <3> QED
      BY <2>2, <3>2
  <2> QED
    BY <1>2, <2>1, <2>2 DEF Counted, SameCounts, Blip
<1>6. /\ hist'.heal <= hist'.blip + 1
      /\ hist'.heal = hist'.blip + 1 =>
           scopeReloginExhausted' \/ keyrings' # 0 \/ \E u \in Threads : Healing(u)'
  <2>0. hist.heal \in Nat /\ hist.blip \in Nat /\ hist.heal <= hist.blip + 1
    BY <1>0 DEF Hists, BoundInv, CountOK
  <2>1. CASE hist'.heal = hist.heal /\ hist'.blip = hist.blip
    <3>1. ~Blip
      BY <2>0, <2>1 DEF Blip
    <3> QED
      BY <1>0, <1>2, <1>3, <2>1, <3>1
      DEF BoundInv, CountOK, Counted, Kept, LatchKept, CachesKept
  <2>2. CASE Blip
    BY <2>0, <2>2 DEF Blip
  <2>3. CASE /\ hist'.heal = hist.heal + 1 /\ hist'.blip = hist.blip /\ pc[t] = "heal"
             /\ Healing(t)'
    <3>1. ~scopeReloginExhausted /\ keyrings = 0 /\ ~\E u \in Threads : Healing(u)
      <4>1. Discipline(t) /\ LatchOf(t)
        BY <1>0 DEF LatchInv, LockInv
      <4> QED
        BY <2>3, <4>1, OneAtATime DEF LatchOf, HealSection, Discipline, UnlockLabels
    <3>2. hist.heal # hist.blip + 1
      BY <3>1 DEF BoundInv, CountOK
    <3> QED
      BY <2>0, <2>3, <3>2
  <2> QED
    BY <1>2, <2>1, <2>2, <2>3 DEF Counted, SameCounts
<1> QED
  BY <1>0, <1>2, <1>4, <1>5, <1>6 DEF BoundInv, CountOK

\* The invariant holds from the start, and no step but a restart takes away
\* what is cached.
LEMMA BoundInit == Init => BoundInv
<1> SUFFICES ASSUME Init PROVE BoundInv
  OBVIOUS
<1>1. /\ client = NoToken /\ keyrings = 0 /\ calKeyrings = 0 /\ hist = HistZero
      /\ ~scopeReloginExhausted
      /\ \A u \in Threads : pc[u] = "idle" /\ frame[u] = NoFrame
  BY DEF Init, FreshMemory
<1>2. \A u \in Threads : LatchOf(u)
  BY <1>1 DEF LatchOf, ColdSection, DeniedSection, HealSection, LoginLabels
<1>3. \A u \in Threads : BoundOf(u)
  BY <1>1, NoFramePhase DEF BoundOf, Unlocking
<1>4. CountOK
  BY <1>1 DEF CountOK, HistZero
<1> QED
  BY <1>1, <1>2, <1>3, <1>4, InitDisciplined DEF BoundInv, LatchInv, CacheOK

LEMMA BoundNext ==
  ASSUME ServerProfile, BoundInv, LockInv', [Next]_vars
  PROVE  BoundInv' /\ (Restart \/ CachesKept)
<1>1. LatchInv'
  BY LatchStep DEF BoundInv
<1>2. CASE Restart
  <2>1. /\ client' = NoToken /\ keyrings' = 0 /\ calKeyrings' = 0 /\ hist' = HistZero
        /\ \A u \in Threads : pc'[u] = "idle" /\ frame'[u] = NoFrame
    BY <1>2 DEF Restart
  <2>2. \A u \in Threads : BoundOf(u)'
    BY <2>1, NoFramePhase DEF BoundOf, Unlocking
  <2> QED
    BY <1>1, <1>2, <2>1, <2>2 DEF BoundInv, CacheOK, CountOK, HistZero
<1>3. CASE Revoke \/ UNCHANGED vars
  <2>1. UNCHANGED <<client, keyrings, calKeyrings, reloginExhausted, scopeReloginExhausted,
                    pc, frame, hist>>
    BY <1>3 DEF Revoke, vars, tokens, flags, latches, caches
  <2> QED
    BY <1>1, <2>1
    DEF BoundInv, CacheOK, CountOK, BoundOf, CachesKept, Healing, ColdLogin, Unlocking
<1> QED
  BY <1>2, <1>3, BoundStep DEF Next

\* The anti-abuse bound (ADR 0003): in the server, for any number of
\* goroutines and any faults, a process tries at most one unattended login for
\* a rejected refresh token, and for a scope denial at most one more than the
\* retries that hit a passing error: reloginExhausted, scopeReloginSpent.
THEOREM LoginsBounded == ASSUME ServerProfile PROVE Spec => []UnattendedLoginsBounded
<1>1. BoundInv /\ LockInv' /\ [Next]_vars => BoundInv'
  BY BoundNext
<1>2. BoundInv => UnattendedLoginsBounded
  BY DEF BoundInv, CountOK, UnattendedLoginsBounded
<1> QED
  BY <1>1, <1>2, BoundInit, LocksHeld, PTL DEF Spec

\* In the server a keyring that Keyrings or CalendarKeyring has cached, and
\* handed out, is never wiped or replaced before the process ends, although
\* every unattended login that succeeds calls clearKeyringCache.
THEOREM KeyringsKept == ASSUME ServerProfile PROVE Spec => KeyringsNeverWiped
<1>1. BoundInv /\ LockInv' /\ [Next]_vars
        => /\ BoundInv'
           /\ [\/ Restart
               \/ /\ keyrings # 0 => keyrings' = keyrings
                  /\ calKeyrings # 0 => calKeyrings' = calKeyrings]_caches
  BY BoundNext DEF CachesKept
<1> QED
  BY <1>1, BoundInit, LocksHeld, PTL DEF Spec, KeyringsNeverWiped
=============================================================================
