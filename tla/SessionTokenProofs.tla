------------------------- MODULE SessionTokenProofs -------------------------
(***************************************************************************)
(* The custody of the tokens, for every number of goroutines and every     *)
(* choice of faults: what the process has in memory, what the store holds  *)
(* and what the degraded flag says agree, although OnAuthRotated changes   *)
(* the three in separate steps and writes the store without mu.            *)
(*                                                                         *)
(* That no write ever puts older tokens over newer ones holds whatever the *)
(* process does.  Every other result names the operations it is about (a   *)
(* profile): at least those of the run that checks the same property.      *)
(* With one of the operations it leaves out the property is false, as the  *)
(* findings and hazards say.                                               *)
(***************************************************************************)
EXTENDS SessionLockProofs

-----------------------------------------------------------------------------
(* What the steps do to the tokens.                                        *)

\* Positions outside the cold start, the login path, logout and rotations.
Plain == {"idle", "client", "clientLock", "unlockMu", "recheck", "unlock", "storeKr",
          "denied", "heal", "latch", "resolve", "storeCal"}

\* Nothing moves between memory, the store and the flag.
Still == /\ UNCHANGED <<tokens, store, persistDegraded, poisoned>>
         /\ hist'.saveFailed = hist.saveFailed

\* The steps between plain positions, and the calls that begin there.
PlainStep(t) ==
  \/ ClientFast(t) \/ ClientNoRefresh(t) \/ UnlockAcquire(t) \/ UnlockRecheck(t)
  \/ UnlockSucceeds(t) \/ UnlockDenied(t) \/ UnlockFails(t) \/ StoreKeyrings(t)
  \/ DeniedDecides(t) \/ HealLatch(t) \/ CalendarResolve(t) \/ CalendarStore(t)
  \/ ClientCall(t) \/ RawCall(t) \/ KeyringsCall(t) \/ CalendarCall(t)

Hists == [cold: Nat, heal: Nat, blip: Nat, saveFailed: BOOLEAN]

LEMMA Stepped ==
  ASSUME LockInv, NEW t \in Threads, Step(t) \/ Call(t)
  PROVE  Footprint(t) /\ Alone(t) /\ Discipline(t)'
<1>1. Footprint(t) /\ Discipline(t)'
  BY ClientStepsDisciplined, LoginStepsDisciplined, RotationStepsDisciplined,
     KeyringStepsDisciplined, CallsDisciplined DEF Step
<1> QED
  BY <1>1 DEF Footprint

\* The ends of a method, of Client(), of a login and of Keyrings.
LEMMA Ends ==
  ASSUME TypeOK, NEW t \in Threads
  PROVE  /\ Return(t) => pc'[t] \in Plain
         /\ \A h \in Hists : FailsOtherwise(t, h) =>
              pc'[t] \in Plain /\ hist'.saveFailed = h.saveFailed
         /\ \A h \in Hists : LoginFails(t, h) =>
              pc'[t] \in Plain /\ hist'.saveFailed = h.saveFailed /\ mu' = NoThread
         /\ \A s : ClientReturns(t, s) => pc'[t] \in Plain
         /\ KeyringsReturn(t) => pc'[t] \in Plain
<1>1. Return(t) => pc'[t] \in Plain
  BY ReturnMoves DEF Returned, Plain
<1>2. ASSUME NEW h \in Hists, FailsOtherwise(t, h)
      PROVE  pc'[t] \in Plain /\ hist'.saveFailed = h.saveFailed
  BY <1>1, <1>2 DEF FailsOtherwise, Hists
<1>3. ASSUME NEW h \in Hists, LoginFails(t, h)
      PROVE  pc'[t] \in Plain /\ hist'.saveFailed = h.saveFailed /\ mu' = NoThread
  <2>1. mu' = NoThread
    BY <1>3 DEF LoginFails
  <2>2. CASE Go(t, "latch", frame[t]) /\ hist' = h
    BY <2>1, <2>2, GoMoves DEF Plain
  <2>3. CASE FailsOtherwise(t, h)
    BY <1>2, <2>1, <2>3
  <2>4. CASE Return(t) /\ hist' = h
    BY <1>1, <2>1, <2>4
  <2> QED
    BY <1>3, <2>2, <2>3, <2>4 DEF LoginFails
<1>4. ASSUME NEW s, ClientReturns(t, s) PROVE pc'[t] \in Plain
  <2>1. CASE Return(t)
    BY <1>1, <2>1
  <2>2. CASE \E l \in {"resolve", "unlock"} : \E g : Go(t, l, g)
    BY <2>2, GoMoves DEF Plain
  <2> QED
    BY <1>4, <2>1, <2>2 DEF ClientReturns
<1>5. ASSUME KeyringsReturn(t) PROVE pc'[t] \in Plain
  <2>1. CASE Return(t)
    BY <1>1, <2>1
  <2>2. CASE \E g : Go(t, "client", g)
    BY <2>2, GoMoves DEF Plain
  <2> QED
    BY <1>5, <2>1, <2>2 DEF KeyringsReturn
<1> QED
  BY <1>1, <1>2, <1>3, <1>4, <1>5

LEMMA PlainSteps ==
  ASSUME TypeOK, NEW t \in Threads, PlainStep(t)
  PROVE  /\ pc[t] \in Plain /\ pc'[t] \in Plain
         /\ Still /\ proton' = proton /\ mu' = mu
<1>0. hist \in Hists
  BY DEF TypeOK, Hists
<1>1. pc[t] \in Plain
  BY DEF PlainStep, ClientFast, ClientNoRefresh, UnlockAcquire, UnlockRecheck,
         UnlockSucceeds, UnlockDenied, UnlockFails, StoreKeyrings, DeniedDecides, HealLatch,
         CalendarResolve, CalendarStore, ClientCall, RawCall, KeyringsCall, CalendarCall, Plain
<1>2. /\ UNCHANGED <<tokens, store, persistDegraded, poisoned, proton, mu>>
      /\ hist' = hist \/ FailsOtherwise(t, hist)
  BY DEF PlainStep, ClientFast, ClientNoRefresh, UnlockAcquire, UnlockRecheck,
         UnlockSucceeds, UnlockDenied, UnlockFails, StoreKeyrings, DeniedDecides, HealLatch,
         CalendarResolve, CalendarStore, ClientCall, RawCall, KeyringsCall, CalendarCall,
         locks, flags, latches
<1>3. Still
  BY <1>0, <1>2, Ends DEF Still
<1>4. \/ \E l \in Plain : \E g : Go(t, l, g)
      \/ Return(t) \/ KeyringsReturn(t) \/ FailsOtherwise(t, hist) \/ \E s : ClientReturns(t, s)
  <2>1. CASE ClientFast(t) \/ ClientNoRefresh(t) \/ UnlockAcquire(t) \/ UnlockRecheck(t)
    BY <2>1 DEF ClientFast, ClientNoRefresh, UnlockAcquire, UnlockRecheck, Plain
  <2>2. CASE UnlockSucceeds(t) \/ UnlockDenied(t) \/ UnlockFails(t) \/ StoreKeyrings(t)
    BY <2>2 DEF UnlockSucceeds, UnlockDenied, UnlockFails, StoreKeyrings, Plain
  <2>3. CASE DeniedDecides(t) \/ HealLatch(t) \/ CalendarResolve(t) \/ CalendarStore(t)
    BY <2>3 DEF DeniedDecides, HealLatch, CalendarResolve, CalendarStore, Plain
  <2>4. CASE ClientCall(t) \/ RawCall(t) \/ KeyringsCall(t) \/ CalendarCall(t)
    BY <2>4 DEF ClientCall, RawCall, KeyringsCall, CalendarCall, Plain
  <2> QED
    BY <2>1, <2>2, <2>3, <2>4 DEF PlainStep
<1>5. pc'[t] \in Plain
  BY <1>0, <1>4, Ends, GoMoves
<1> QED
  BY <1>1, <1>2, <1>3, <1>5

\* The other steps, one by one: where each leads and what it moves.
SameCall(t) == frame'[t].phase = frame[t].phase /\ frame'[t].why = frame[t].why

LEMMA LoadEffect ==
  ASSUME TypeOK, NEW t \in Threads, ClientLoad(t)
  PROVE  /\ pc[t] = "clientLock" /\ pc'[t] = "refresh" /\ SameCall(t)
         /\ frame'[t].sess = store.sess /\ Still /\ proton' = proton
         /\ client = NoToken /\ store.sess # NoSession /\ ~poisoned /\ mu = NoThread
<1>1. PICK g : g = [frame[t] EXCEPT !.sess = store.sess] /\ Go(t, "refresh", g)
  BY DEF ClientLoad
<1>2. g.sess = store.sess /\ g.phase = frame[t].phase /\ g.why = frame[t].why
  BY <1>1, FrameTyped DEF Frames
<1>3. pc'[t] = "refresh" /\ frame'[t] = g
  BY <1>1, GoMoves
<1> QED
  BY <1>2, <1>3 DEF ClientLoad, Still, SameCall, flags

LEMMA RefreshEffect ==
  ASSUME TypeOK, NEW t \in Threads, ClientRefresh(t)
  PROVE  /\ pc[t] = "refresh" /\ pc'[t] = "saveCold" /\ SameCall(t) /\ Still
         /\ frame'[t].sess.sid = frame[t].sess.sid /\ frame[t].sess.sid \in Sids
         /\ proton[frame[t].sess.sid].gen = frame[t].sess.gen
         /\ \/ frame'[t].sess.gen = frame[t].sess.gen /\ proton' = proton
            \/ /\ frame'[t].sess.gen = frame[t].sess.gen + 1
               /\ proton' = Rotated(frame[t].sess.sid)
<1>0. frame[t] \in Frames /\ frame[t].sess \in Bundles
  BY FrameTyped
<1>1. PICK g : /\ Go(t, "saveCold", g) /\ g.phase = frame[t].phase /\ g.why = frame[t].why
               /\ g.sess.sid = frame[t].sess.sid
               /\ \/ g.sess.gen = frame[t].sess.gen /\ proton' = proton
                  \/ /\ g.sess.gen = frame[t].sess.gen + 1
                     /\ proton' = Rotated(frame[t].sess.sid)
  <2>1. CASE proton' = Rotated(frame[t].sess.sid)
               /\ \E x : Go(t, "saveCold", [frame[t] EXCEPT !.sess =
                    [frame[t].sess EXCEPT !.gen = @ + 1, !.scope = IF x = "" THEN @ ELSE x]])
    <3>1. PICK x : Go(t, "saveCold", [frame[t] EXCEPT !.sess =
                    [frame[t].sess EXCEPT !.gen = @ + 1, !.scope = IF x = "" THEN @ ELSE x]])
      BY <2>1
    <3> DEFINE b == [frame[t].sess EXCEPT !.gen = @ + 1, !.scope = IF x = "" THEN @ ELSE x]
               g == [frame[t] EXCEPT !.sess = b]
    <3>2. b.sid = frame[t].sess.sid /\ b.gen = frame[t].sess.gen + 1
      BY <1>0 DEF Bundles
    <3>3. g.sess = b /\ g.phase = frame[t].phase /\ g.why = frame[t].why
      BY <1>0 DEF Frames
    <3> HIDE DEF b
    <3> QED
      BY <2>1, <3>1, <3>2, <3>3 DEF b
  <2>2. CASE Go(t, "saveCold", frame[t]) /\ proton' = proton
    BY <2>2
  <2> QED
    BY <2>1, <2>2 DEF ClientRefresh
<1>2. pc'[t] = "saveCold" /\ frame'[t] = g
  BY <1>1, GoMoves
<1>3. Honoured(frame[t].sess)
  BY DEF ClientRefresh, CanRotate
<1>4. pc[t] = "refresh" /\ Still
  BY DEF ClientRefresh, Still, flags
<1> QED
  BY <1>1, <1>2, <1>3, <1>4 DEF SameCall, Honoured

LEMMA RefreshFailsEffect ==
  ASSUME TypeOK, NEW t \in Threads, ClientRefreshFails(t)
  PROVE  /\ pc[t] = "refresh" /\ pc'[t] \in Plain /\ Still
         /\ \/ proton' = proton
            \/ /\ frame[t].sess.sid \in Sids
               /\ proton[frame[t].sess.sid].gen = frame[t].sess.gen
               /\ proton' = Rotated(frame[t].sess.sid)
<1>1. pc'[t] \in Plain /\ hist'.saveFailed = hist.saveFailed
  BY Ends DEF ClientRefreshFails, TypeOK, Hists
<1> QED
  BY <1>1 DEF ClientRefreshFails, Still, flags, CanRotate, Honoured

LEMMA RejectedEffect ==
  ASSUME TypeOK, NEW t \in Threads, ClientRejected(t)
  PROVE  /\ pc[t] = "refresh" /\ Still /\ proton' = proton
         /\ \/ pc'[t] \in Plain
            \/ pc'[t] = "relogin" /\ frame'[t].phase = frame[t].phase /\ frame'[t].why = "cold"
<1>0. pc[t] = "refresh" /\ proton' = proton /\ UNCHANGED <<tokens, store, persistDegraded, poisoned>>
  BY DEF ClientRejected, flags
<1>1. CASE FailsOtherwise(t, hist)
  <2>1. pc'[t] \in Plain /\ hist'.saveFailed = hist.saveFailed
    BY <1>1, Ends DEF TypeOK, Hists
  <2> QED
    BY <1>0, <2>1 DEF Still
<1>2. CASE /\ Go(t, "relogin", [frame[t] EXCEPT !.why = "cold"])
           /\ hist' = [hist EXCEPT !.cold = @ + 1]
  <2>1. PICK g : g = [frame[t] EXCEPT !.why = "cold"] /\ Go(t, "relogin", g)
    BY <1>2
  <2>2. g.why = "cold" /\ g.phase = frame[t].phase
    BY <2>1, FrameTyped DEF Frames
  <2>3. pc'[t] = "relogin" /\ frame'[t] = g
    BY <2>1, GoMoves
  <2>4. hist'.saveFailed = hist.saveFailed
    BY <1>2 DEF TypeOK
  <2> QED
    BY <1>0, <2>2, <2>3, <2>4 DEF Still
<1> QED
  BY <1>1, <1>2 DEF ClientRejected

LEMMA SaveEffect ==
  ASSUME TypeOK, NEW t \in Threads, ClientSave(t)
  PROVE  /\ pc[t] = "saveCold" /\ pc'[t] \in Plain /\ proton' = proton /\ poisoned' = poisoned
         /\ client' = TokenOf(frame[t].sess) /\ open' = open \cup {client'}
         /\ current' = frame[t].sess /\ raw' = client' /\ mu' = NoThread
         /\ persistDegraded' = hist'.saveFailed
         /\ \/ ~persistDegraded' /\ store' = [store EXCEPT !.sess = frame[t].sess]
            \/ persistDegraded' /\ store' = store
<1>1. pc'[t] \in Plain
  BY Ends DEF ClientSave
<1>2. \/ ~persistDegraded' /\ ~hist'.saveFailed /\ store' = [store EXCEPT !.sess = frame[t].sess]
      \/ persistDegraded' /\ hist'.saveFailed /\ store' = store
  BY DEF ClientSave, TypeOK
<1>3. persistDegraded' = hist'.saveFailed
  BY <1>2 DEF ClientSave, TypeOK
<1> QED
  BY <1>1, <1>2, <1>3 DEF ClientSave

LEMMA ReloginEffect ==
  ASSUME TypeOK, NEW t \in Threads, ReloginLoadCreds(t)
  PROVE  /\ pc[t] = "relogin" /\ Still /\ proton' = proton
         /\ \/ pc'[t] \in Plain
            \/ /\ pc'[t] = "auth" /\ SameCall(t)
               /\ frame'[t].input = store.creds /\ store.creds # "none"
<1>0. /\ pc[t] = "relogin" /\ proton' = proton
      /\ UNCHANGED <<tokens, store, persistDegraded, poisoned>>
  BY DEF ReloginLoadCreds
<1>1. CASE LoginFails(t, hist)
  <2>1. pc'[t] \in Plain /\ hist'.saveFailed = hist.saveFailed
    BY <1>1, Ends DEF TypeOK, Hists
  <2> QED
    BY <1>0, <2>1 DEF Still
<1>2. CASE /\ Go(t, "auth", [frame[t] EXCEPT !.input = store.creds])
           /\ store.creds # "none" /\ hist' = hist
  <2>1. PICK g : g = [frame[t] EXCEPT !.input = store.creds] /\ Go(t, "auth", g)
    BY <1>2
  <2>2. g.input = store.creds /\ g.phase = frame[t].phase /\ g.why = frame[t].why
    BY <2>1, FrameTyped DEF Frames
  <2>3. pc'[t] = "auth" /\ frame'[t] = g
    BY <2>1, GoMoves
  <2> QED
    BY <1>0, <1>2, <2>2, <2>3 DEF Still, SameCall
<1> QED
  BY <1>1, <1>2 DEF ReloginLoadCreds

LEMMA AuthEffect ==
  ASSUME TypeOK, NEW t \in Threads, Authenticate(t) \/ AuthenticateFails(t)
  PROVE  /\ pc[t] = "auth" /\ Still
         /\ \/ pc'[t] \in Plain /\ proton' = proton
            \/ /\ pc'[t] = "saveCreds" /\ SameCall(t) /\ frame'[t].input = frame[t].input
               /\ \E s \in Unused, sc \in LoginScopes :
                    /\ frame'[t].sess.sid = s /\ frame'[t].sess.gen = 1
                    /\ proton' = [proton EXCEPT ![s] = [gen |-> 1, live |-> TRUE, scope |-> sc]]
<1>1. CASE AuthenticateFails(t)
  <2>1. pc'[t] \in Plain /\ hist'.saveFailed = hist.saveFailed
    BY <1>1, Ends DEF AuthenticateFails, TypeOK, Hists
  <2> QED
    BY <1>1, <2>1 DEF AuthenticateFails, Still
<1>2. CASE Authenticate(t)
  <2>1. PICK s \in Unused, sc \in LoginScopes :
          /\ proton' = [proton EXCEPT ![s] = [gen |-> 1, live |-> TRUE, scope |-> sc]]
          /\ Go(t, "saveCreds", [frame[t] EXCEPT !.sess = [sid |-> s, gen |-> 1, scope |-> sc]])
    BY <1>2 DEF Authenticate
  <2>2. PICK g : /\ g = [frame[t] EXCEPT !.sess = [sid |-> s, gen |-> 1, scope |-> sc]]
                 /\ Go(t, "saveCreds", g)
    BY <2>1
  <2>3. /\ g.sess.sid = s /\ g.sess.gen = 1 /\ g.phase = frame[t].phase /\ g.why = frame[t].why
        /\ g.input = frame[t].input
    BY <2>2, FrameTyped DEF Frames
  <2>4. pc'[t] = "saveCreds" /\ frame'[t] = g
    BY <2>2, GoMoves
  <2>5. pc[t] = "auth" /\ Still
    BY <1>2 DEF Authenticate, Still, flags
  <2> QED
    BY <2>1, <2>3, <2>4, <2>5 DEF SameCall
<1> QED
  BY <1>1, <1>2

LEMMA PersistCredsEffect ==
  ASSUME TypeOK, NEW t \in Threads, PersistCreds(t)
  PROVE  /\ pc[t] = "saveCreds" /\ proton' = proton /\ hist'.saveFailed = hist.saveFailed
         /\ UNCHANGED <<tokens, persistDegraded, poisoned>>
         /\ \/ /\ pc'[t] = "saveSess" /\ frame'[t] = frame[t]
               /\ store' = [store EXCEPT !.creds = frame[t].input]
            \/ pc'[t] = "rollback" /\ frame'[t] = frame[t] /\ store' = store
            \/ pc'[t] \in Plain /\ store' = store /\ "down" \in StoreFaults
<1>0. /\ pc[t] = "saveCreds" /\ proton' = proton
      /\ UNCHANGED <<tokens, persistDegraded, poisoned>>
  BY DEF PersistCreds
<1>1. CASE Go(t, "saveSess", frame[t]) /\ store' = [store EXCEPT !.creds = frame[t].input] /\ hist' = hist
  BY <1>0, <1>1, GoMoves
<1>2. CASE Go(t, "rollback", frame[t]) /\ store' = store /\ hist' = hist
  BY <1>0, <1>2, GoMoves
<1>3. CASE LoginFails(t, hist) /\ store' = store /\ "down" \in StoreFaults
  BY <1>0, <1>3, Ends DEF TypeOK, Hists
<1> QED
  BY <1>1, <1>2, <1>3 DEF PersistCreds

LEMMA PersistSessionEffect ==
  ASSUME TypeOK, NEW t \in Threads, PersistSession(t)
  PROVE  /\ pc[t] = "saveSess" /\ pc'[t] \in Plain /\ proton' = proton /\ poisoned' = poisoned
         /\ client' = TokenOf(frame[t].sess) /\ open' = open \cup {client'}
         /\ current' = frame[t].sess /\ raw' = client' /\ mu' = NoThread
         /\ store' = [store EXCEPT !.sess = frame[t].sess]
         /\ persistDegraded' = FALSE /\ hist'.saveFailed = FALSE
<1>1. pc'[t] \in Plain
  <2>1. CASE \E g : Go(t, "client", g)
    BY <2>1, GoMoves DEF Plain
  <2> QED
    BY <2>1, Ends DEF PersistSession
<1>2. hist'.saveFailed = FALSE
  BY DEF PersistSession, HistAfterLogin, HistZero, TypeOK
<1> QED
  BY <1>1, <1>2 DEF PersistSession

LEMMA PersistSessionFailsEffect ==
  ASSUME TypeOK, NEW t \in Threads, PersistSessionFails(t)
  PROVE  /\ pc[t] = "saveSess" /\ proton' = proton
         /\ UNCHANGED <<tokens, store, persistDegraded, poisoned>>
         /\ \/ pc'[t] = "rollback" /\ frame'[t] = frame[t]
            \/ pc'[t] \in Plain /\ "down" \in StoreFaults
<1>1. [hist EXCEPT !.saveFailed = TRUE] \in Hists
  BY DEF TypeOK, Hists
<1>2. CASE Go(t, "rollback", frame[t])
  BY <1>2, GoMoves DEF PersistSessionFails
<1>3. CASE "down" \in StoreFaults /\ LoginFails(t, [hist EXCEPT !.saveFailed = TRUE])
  BY <1>1, <1>3, Ends DEF PersistSessionFails
<1> QED
  BY <1>2, <1>3 DEF PersistSessionFails

EmptyStore == [creds |-> "none", sess |-> NoSession]

LEMMA RollbackEffect ==
  ASSUME TypeOK, NEW t \in Threads, Rollback(t)
  PROVE  /\ pc[t] = "rollback" /\ pc'[t] \in Plain /\ proton' = proton
         /\ UNCHANGED <<tokens, persistDegraded>> /\ hist'.saveFailed = hist.saveFailed
         /\ \/ store' = EmptyStore /\ poisoned' = poisoned
            \/ store' = store /\ poisoned'
<1>1. pc'[t] \in Plain /\ hist'.saveFailed = hist.saveFailed
  BY Ends DEF Rollback, TypeOK, Hists
<1> QED
  BY <1>1 DEF Rollback, EmptyStore

LEMMA LogoutEffect ==
  ASSUME TypeOK, NEW t \in Threads
  PROVE  /\ LogoutCall(t) => /\ "Logout" \in Ops /\ pc'[t] = "logoutClear" /\ mu = NoThread
                             /\ UNCHANGED <<store, poisoned>>
         /\ LogoutClear(t) => /\ pc[t] = "logoutClear" /\ pc'[t] \in Plain
                              /\ \/ store' = EmptyStore
                                 \/ UNCHANGED <<store, poisoned>>
<1>1. ASSUME LogoutCall(t) PROVE pc'[t] = "logoutClear"
  BY <1>1, GoMoves DEF LogoutCall
<1>2. ASSUME LogoutClear(t) PROVE pc'[t] \in Plain
  BY <1>2, Ends DEF LogoutClear
<1> QED
  BY <1>1, <1>2 DEF LogoutCall, LogoutClear, flags, EmptyStore

\* Login, and the relogin that heals a scope denial.
LEMMA LoginEffect ==
  ASSUME TypeOK, NEW t \in Threads, LoginCall(t) \/ HealRelogin(t)
  PROVE  /\ pc[t] \in Plain /\ Still /\ proton' = proton /\ mu = NoThread
         /\ \/ pc'[t] = "relogin" /\ pc[t] = "heal"
            \/ pc'[t] = "auth" /\ frame'[t].input # "none" /\ "Login" \in Ops
<1>1. CASE HealRelogin(t)
  <2>1. pc'[t] = "relogin"
    <3>1. PICK g : Go(t, "relogin", g)
      BY <1>1 DEF HealRelogin
    <3> QED
      BY <3>1, GoMoves
  <2>2. Still
    BY <1>1 DEF HealRelogin, Still, flags, TypeOK
  <2> QED
    BY <1>1, <2>1, <2>2 DEF HealRelogin, Plain
<1>2. CASE LoginCall(t)
  <2>1. PICK in \in LoginInputs : Go(t, "auth", [NoFrame EXCEPT !.why = "login", !.input = in])
    BY <1>2 DEF LoginCall
  <2>2. PICK g : g.input = in /\ Go(t, "auth", g)
    <3>1. [NoFrame EXCEPT !.why = "login", !.input = in].input = in
      BY NoFrameTyped DEF Frames
    <3> QED
      BY <2>1, <3>1
  <2>3. pc'[t] = "auth" /\ frame'[t] = g
    BY <2>2, GoMoves
  <2>4. in # "none"
    BY ChoicesAssumption DEF ChoicesAssumption
  <2>5. Still
    BY <1>2 DEF LoginCall, Still, flags
  <2> QED
    BY <1>2, <2>2, <2>3, <2>4, <2>5 DEF LoginCall, Plain
<1> QED
  BY <1>1, <1>2

\* The library gives one client the next generation, and a goroutine the
\* handling of it; or the reply is lost.
NextToken(c) == [c EXCEPT !.gen = @ + 1]

LEMMA RotateEffect ==
  ASSUME TypeOK, NEW t \in Threads, LibraryRotates(t)
  PROVE  /\ pc[t] = "idle" /\ UNCHANGED <<raw, current, store, persistDegraded, poisoned, hist>>
         /\ \E c \in open :
              /\ c \in Tokens /\ c.sid \in Sids /\ ~HandlingRotationOf(c)
              /\ proton[c.sid].gen = c.gen /\ proton' = Rotated(c.sid)
              /\ \/ UNCHANGED <<client, open, pc, frame>>
                 \/ /\ open' = (open \ {c}) \cup {NextToken(c)}
                    /\ client' = IF client = c THEN NextToken(c) ELSE client
                    /\ pc'[t] = "rotated" /\ TokenOf(frame'[t].sess) = NextToken(c)
                    /\ frame'[t].phase = ""
<1>1. pc[t] = "idle" /\ UNCHANGED <<raw, current, store, persistDegraded, poisoned, hist>>
  BY DEF LibraryRotates, flags
<1>2. PICK c \in open :
         /\ CanRotate(c) /\ ~HandlingRotationOf(c) /\ proton' = Rotated(c.sid)
         /\ \/ /\ open' = (open \ {c}) \cup {NextToken(c)}
               /\ client' = IF client = c THEN NextToken(c) ELSE client
               /\ \E sc : Go(t, "rotated", [NoFrame EXCEPT !.sess =
                            [sid |-> NextToken(c).sid, gen |-> NextToken(c).gen, scope |-> sc]])
            \/ UNCHANGED <<client, open, pc, frame>>
  BY DEF LibraryRotates, NextToken
<1> DEFINE new == NextToken(c)
<1> HIDE DEF new
<1>3. c \in Tokens /\ c.sid \in Sids /\ proton[c.sid].gen = c.gen
  BY <1>2 DEF CanRotate, Honoured, TypeOK
<1>4. ASSUME NEW sc, Go(t, "rotated", [NoFrame EXCEPT !.sess =
                            [sid |-> new.sid, gen |-> new.gen, scope |-> sc]])
      PROVE  pc'[t] = "rotated" /\ TokenOf(frame'[t].sess) = new /\ frame'[t].phase = ""
  <2>1. PICK g : /\ g = [NoFrame EXCEPT !.sess = [sid |-> new.sid, gen |-> new.gen, scope |-> sc]]
                 /\ Go(t, "rotated", g)
    BY <1>4
  <2>2. /\ g.sess = [sid |-> new.sid, gen |-> new.gen, scope |-> sc] /\ g.phase = ""
    BY <2>1 DEF NoFrame
  <2>3. TokenOf(g.sess) = [sid |-> new.sid, gen |-> new.gen]
    <3>1. \A a, b : TokenOf([sid |-> a, gen |-> b, scope |-> sc]) = [sid |-> a, gen |-> b]
      BY DEF TokenOf
    <3> QED
      BY <2>2, <3>1
  <2>4. new = [sid |-> new.sid, gen |-> new.gen]
    BY <1>3 DEF Tokens, NextToken, new
  <2>5. pc'[t] = "rotated" /\ frame'[t] = g
    BY <2>1, GoMoves
  <2> QED
    BY <2>2, <2>3, <2>4, <2>5
<1> QED
  BY <1>1, <1>2, <1>3, <1>4 DEF new

LEMMA ApplyEffect ==
  ASSUME TypeOK, NEW t \in Threads, RotatedApply(t)
  PROVE  /\ pc[t] = "rotated" /\ pc'[t] = "rotSave" /\ frame'[t].phase = frame[t].phase
         /\ mu = NoThread
         /\ TokenOf(frame'[t].sess) = TokenOf(frame[t].sess)
         /\ TokenOf(current') = TokenOf(frame[t].sess) /\ raw' = TokenOf(frame[t].sess)
         /\ UNCHANGED <<client, open, store, persistDegraded, poisoned, hist, proton>>
<1> DEFINE next == [frame[t].sess EXCEPT !.scope = IF @ = "" THEN current.scope ELSE @]
<1>1. TokenOf(next) = TokenOf(frame[t].sess)
  BY FrameTyped DEF TokenOf, Bundles
<1>2. PICK g : g = [frame[t] EXCEPT !.sess = next] /\ Go(t, "rotSave", g)
  BY DEF RotatedApply
<1>3. g.sess = next /\ g.phase = frame[t].phase
  BY <1>2, FrameTyped DEF Frames
<1>4. pc'[t] = "rotSave" /\ frame'[t] = g
  <2>1. Go(t, "rotSave", g)
    BY <1>2
  <2> QED
    BY <2>1, GoMoves
<1>5. current' = next /\ raw' = TokenOf(next)
  BY DEF RotatedApply
<1>6. /\ pc[t] = "rotated" /\ mu = NoThread
      /\ UNCHANGED <<client, open, store, persistDegraded, poisoned, hist, proton>>
  BY DEF RotatedApply, flags
<1> HIDE DEF next
<1> QED
  BY <1>1, <1>3, <1>4, <1>5, <1>6

LEMMA RotSaveEffect ==
  ASSUME TypeOK, NEW t \in Threads, RotatedSave(t)
  PROVE  /\ pc[t] = "rotSave" /\ frame'[t] = frame[t]
         /\ UNCHANGED <<tokens, persistDegraded, poisoned, proton>>
         /\ \/ /\ pc'[t] = "rotSaved" /\ ~hist'.saveFailed
               /\ store' = [store EXCEPT !.sess = frame[t].sess]
            \/ pc'[t] = "rotFailed" /\ hist'.saveFailed /\ store' = store
<1>1. pc[t] = "rotSave" /\ UNCHANGED <<tokens, persistDegraded, poisoned, proton>>
  BY DEF RotatedSave, flags
<1>2. \A b \in BOOLEAN : [hist EXCEPT !.saveFailed = b].saveFailed = b
  BY DEF TypeOK
<1>3. CASE /\ store' = [store EXCEPT !.sess = frame[t].sess]
           /\ hist' = [hist EXCEPT !.saveFailed = FALSE] /\ Go(t, "rotSaved", frame[t])
  BY <1>1, <1>2, <1>3, GoMoves
<1>4. CASE /\ store' = store
           /\ hist' = [hist EXCEPT !.saveFailed = TRUE] /\ Go(t, "rotFailed", frame[t])
  BY <1>1, <1>2, <1>4, GoMoves
<1> QED
  BY <1>3, <1>4 DEF RotatedSave

LEMMA RotFlagEffect ==
  ASSUME TypeOK, NEW t \in Threads, RotatedFlag(t)
  PROVE  /\ pc[t] \in {"rotSaved", "rotFailed"} /\ pc'[t] \in Plain
         /\ persistDegraded' = (pc[t] = "rotFailed")
         /\ UNCHANGED <<tokens, store, poisoned, hist, proton>>
<1>1. pc'[t] \in Plain
  BY Ends DEF RotatedFlag
<1> QED
  BY <1>1 DEF RotatedFlag

\* The steps the lemmas above are about are all of them.
LEMMA AllSteps ==
  ASSUME NEW t \in Threads, Step(t) \/ Call(t)
  PROVE  \/ PlainStep(t)
         \/ ClientLoad(t) \/ ClientRefresh(t) \/ ClientRefreshFails(t) \/ ClientRejected(t)
         \/ ClientSave(t)
         \/ ReloginLoadCreds(t) \/ Authenticate(t) \/ AuthenticateFails(t) \/ PersistCreds(t)
         \/ PersistSession(t) \/ PersistSessionFails(t) \/ Rollback(t)
         \/ LogoutCall(t) \/ LogoutClear(t) \/ LoginCall(t) \/ HealRelogin(t)
         \/ LibraryRotates(t) \/ RotatedApply(t) \/ RotatedSave(t) \/ RotatedFlag(t)
BY DEF Step, Call, ClientSteps, LoginSteps, RotationSteps, KeyringSteps, PlainStep

-----------------------------------------------------------------------------
(* Memory: in a process that never logs out, as long as it has used one    *)
(* client only, the bundle and the raw bearer are that client's tokens,    *)
(* or a handler that will make them so holds the client's tokens.          *)

NoLogout == "Logout" \notin Ops

CurrentOf(t) ==
  /\ pc[t] \in RotationLabels => TokenOf(frame[t].sess) \in open
  /\ pc[t] \in {"saveCold", "saveCreds", "saveSess"} => frame[t].sess.sid # 0
  /\ pc[t] \in {"refresh", "saveCold"} => client = NoToken
  /\ pc[t] # "logoutClear"

MemoryOK ==
  /\ client = NoToken => open = {}
  /\ client # NoToken => client \in open
  /\ open = {client} =>
       \/ TokenOf(current) = client /\ raw = client
       \/ \E t \in Threads : pc[t] = "rotated"

CurrentInv == LockInv /\ MemoryOK /\ \A t \in Threads : CurrentOf(t)

\* Proton's sessions are not the zero session.
LEMMA RealSession ==
  /\ \A s \in Sids : s # 0
  /\ \A b : b.sid # 0 => TokenOf(b) # NoToken
  /\ \A c : c.sid # 0 => c # NoToken
  /\ NoToken.sid = 0 /\ NoSession.sid = 0
BY BoundsAssumption DEF BoundsAssumption, Sids, TokenOf, NoToken, NoSession

\* Another thread keeps what it had, if its tokens stay open and no client
\* appears beside a cold start, which holds mu.
LEMMA OthersKeepCurrent ==
  ASSUME CurrentInv, NEW t \in Threads, NEW u \in Threads, u # t, Alone(t),
         pc[u] \in RotationLabels => TokenOf(frame[u].sess) \in open',
         client' = client \/ pc[t] \in Critical \/ client # NoToken
  PROVE  CurrentOf(u)'
<1>1. pc'[u] = pc[u] /\ frame'[u] = frame[u] /\ CurrentOf(u)
  BY DEF Alone, CurrentInv
<1>2. pc[u] \in {"refresh", "saveCold"} => client' = NoToken
  <2>1. pc[u] \in Critical => pc[t] \notin Critical
    BY DEF CurrentInv, LockInv, Discipline
  <2> QED
    BY <1>1, <2>1 DEF CurrentOf, Critical
<1> QED
  BY <1>1, <1>2 DEF CurrentOf

\* A step that leaves the tokens in memory alone.
LEMMA StillCurrent ==
  ASSUME CurrentInv, NEW t \in Threads, Alone(t), UNCHANGED tokens, pc[t] # "rotated",
         CurrentOf(t)'
  PROVE  MemoryOK' /\ \A u \in Threads : CurrentOf(u)'
<1>1. UNCHANGED <<client, raw, current, open>>
  BY DEF tokens
<1>2. ASSUME NEW u \in Threads PROVE CurrentOf(u)'
  <2>1. pc[u] \in RotationLabels => TokenOf(frame[u].sess) \in open'
    BY <1>1 DEF CurrentInv, CurrentOf
  <2> QED
    BY <1>1, <2>1, OthersKeepCurrent
<1>3. \A u \in Threads : pc[u] = "rotated" => pc'[u] = "rotated"
  BY DEF Alone
<1>4. MemoryOK'
  BY <1>1, <1>3 DEF CurrentInv, MemoryOK
<1> QED
  BY <1>2, <1>4

LEMMA PlainCurrent ==
  ASSUME NEW t \in Threads, pc'[t] \in Plain PROVE CurrentOf(t)'
BY DEF Plain, CurrentOf, RotationLabels

\* A client is adopted: it is the only one, or not the only one open, or the
\* one that was open already.
LEMMA AdoptedCurrent ==
  ASSUME CurrentInv, NEW t \in Threads, Alone(t), pc[t] \in {"saveCold", "saveSess"},
         pc'[t] \in Plain, client' = TokenOf(frame[t].sess), open' = open \cup {client'},
         current' = frame[t].sess, raw' = client'
  PROVE  MemoryOK' /\ \A u \in Threads : CurrentOf(u)'
<1>1. client' # NoToken
  BY RealSession DEF CurrentInv, CurrentOf
<1>2. MemoryOK'
  BY <1>1 DEF MemoryOK
<1>3. ASSUME NEW u \in Threads PROVE CurrentOf(u)'
  <2>1. pc[u] \in RotationLabels => TokenOf(frame[u].sess) \in open'
    BY DEF CurrentInv, CurrentOf
  <2>2. pc[t] \in Critical
    BY DEF Critical, LoginLabels
  <2> QED
    BY <2>1, <2>2, OthersKeepCurrent, PlainCurrent
<1> QED
  BY <1>2, <1>3

LEMMA CurrentStep ==
  ASSUME NoLogout, CurrentInv, NEW t \in Threads, Step(t) \/ Call(t)
  PROVE  MemoryOK' /\ \A u \in Threads : CurrentOf(u)'
<1>0. TypeOK /\ Alone(t) /\ CurrentOf(t)
  BY Stepped DEF CurrentInv, LockInv
<1> USE DEF RotationLabels
<1>1. CASE PlainStep(t)
  <2>1. pc[t] # "rotated"
    BY <1>0, <1>1, PlainSteps DEF Plain
  <2> QED
    BY <1>0, <1>1, <2>1, PlainSteps, PlainCurrent, StillCurrent DEF Still
<1>2. CASE ClientLoad(t)
  <2>1. UNCHANGED tokens /\ pc[t] # "rotated" /\ pc'[t] = "refresh" /\ client' = NoToken
    BY <1>0, <1>2, LoadEffect DEF Still, tokens
  <2>2. CurrentOf(t)'
    BY <2>1 DEF CurrentOf
  <2> QED
    BY <1>0, <2>1, <2>2, StillCurrent
<1>3. CASE ClientRefresh(t)
  <2>1. /\ UNCHANGED tokens /\ pc[t] = "refresh" /\ pc'[t] = "saveCold"
        /\ frame'[t].sess.sid # 0 /\ client' = client
    BY <1>0, <1>3, RefreshEffect, RealSession DEF Still, tokens
  <2>2. CurrentOf(t)'
    BY <1>0, <2>1 DEF CurrentOf
  <2> QED
    BY <1>0, <2>1, <2>2, StillCurrent
<1>4. CASE ClientRefreshFails(t) \/ ClientRejected(t)
  <2>1. UNCHANGED tokens /\ pc[t] # "rotated" /\ pc'[t] \in Plain \cup {"relogin"}
    BY <1>0, <1>4, RefreshFailsEffect, RejectedEffect DEF Still
  <2>2. CurrentOf(t)'
    BY <2>1 DEF CurrentOf, Plain
  <2> QED
    BY <1>0, <2>1, <2>2, StillCurrent
<1>5. CASE ClientSave(t)
  BY <1>0, <1>5, SaveEffect, AdoptedCurrent
<1>6. CASE ReloginLoadCreds(t) \/ LoginCall(t) \/ HealRelogin(t)
  <2>1. UNCHANGED tokens /\ pc[t] # "rotated" /\ pc'[t] \in Plain \cup {"auth", "relogin"}
    BY <1>0, <1>6, ReloginEffect, LoginEffect DEF Still, Plain
  <2>2. CurrentOf(t)'
    BY <2>1 DEF CurrentOf, Plain
  <2> QED
    BY <1>0, <2>1, <2>2, StillCurrent
<1>7. CASE Authenticate(t) \/ AuthenticateFails(t)
  <2>1. /\ UNCHANGED tokens /\ pc[t] # "rotated"
        /\ pc'[t] \in Plain \/ (pc'[t] = "saveCreds" /\ frame'[t].sess.sid # 0)
    BY <1>0, <1>7, AuthEffect, RealSession DEF Still, Unused
  <2>2. CurrentOf(t)'
    BY <2>1 DEF CurrentOf, Plain
  <2> QED
    BY <1>0, <2>1, <2>2, StillCurrent
<1>8. CASE PersistCreds(t) \/ PersistSessionFails(t)
  <2>1. /\ UNCHANGED tokens /\ pc[t] \in {"saveCreds", "saveSess"}
        /\ \/ pc'[t] \in Plain \cup {"rollback"}
           \/ pc'[t] = "saveSess" /\ frame'[t] = frame[t]
    BY <1>0, <1>8, PersistCredsEffect, PersistSessionFailsEffect
  <2>2. CurrentOf(t)'
    BY <1>0, <2>1 DEF CurrentOf, Plain
  <2> QED
    BY <1>0, <2>1, <2>2, StillCurrent
<1>9. CASE PersistSession(t)
  BY <1>0, <1>9, PersistSessionEffect, AdoptedCurrent
<1>10. CASE Rollback(t)
  <2>1. UNCHANGED tokens /\ pc[t] # "rotated" /\ pc'[t] \in Plain
    BY <1>0, <1>10, RollbackEffect
  <2> QED
    BY <1>0, <2>1, PlainCurrent, StillCurrent
<1>11. CASE LogoutCall(t) \/ LogoutClear(t)
  BY <1>0, <1>11, LogoutEffect DEF NoLogout, CurrentOf
<1>12. CASE LibraryRotates(t)
  <2>1. /\ pc[t] = "idle" /\ raw' = raw /\ current' = current
    BY <1>0, <1>12, RotateEffect
  <2>2. PICK c \in open :
          /\ c \in Tokens /\ c.sid \in Sids /\ ~HandlingRotationOf(c)
          /\ \/ UNCHANGED <<client, open, pc, frame>>
             \/ /\ open' = (open \ {c}) \cup {NextToken(c)}
                /\ client' = IF client = c THEN NextToken(c) ELSE client
                /\ pc'[t] = "rotated" /\ TokenOf(frame'[t].sess) = NextToken(c)
    BY <1>0, <1>12, RotateEffect
  <2>3. CASE UNCHANGED <<client, open, pc, frame>>
    <3>1. CurrentOf(t)' /\ UNCHANGED tokens
      BY <1>0, <2>1, <2>3 DEF CurrentOf, tokens
    <3> QED
      BY <1>0, <2>1, <3>1, StillCurrent
  <2>4. CASE /\ open' = (open \ {c}) \cup {NextToken(c)}
             /\ client' = IF client = c THEN NextToken(c) ELSE client
             /\ pc'[t] = "rotated" /\ TokenOf(frame'[t].sess) = NextToken(c)
    <3>1. NextToken(c) # NoToken /\ client # NoToken
      <4>1. NextToken(c).sid = c.sid
        BY <2>2 DEF NextToken, Tokens
      <4>2. client # NoToken
        BY <2>2 DEF CurrentInv, MemoryOK
      <4> QED
        BY <2>2, <4>1, <4>2, RealSession
    <3>2. MemoryOK'
      BY <2>4, <3>1 DEF CurrentInv, MemoryOK
    <3>3. ASSUME NEW u \in Threads PROVE CurrentOf(u)'
      <4>1. CASE u = t
        BY <2>4, <4>1 DEF CurrentOf
      <4>2. CASE u # t
        <5>1. pc[u] \in RotationLabels => TokenOf(frame[u].sess) \in open'
          BY <2>2, <2>4 DEF CurrentInv, CurrentOf, HandlingRotationOf
        <5> QED
          BY <1>0, <3>1, <4>2, <5>1, OthersKeepCurrent
      <4> QED
        BY <4>1, <4>2
    <3> QED
      BY <3>2, <3>3
  <2> QED
    BY <2>2, <2>3, <2>4
<1>13. CASE RotatedApply(t)
  <2>1. /\ pc[t] = "rotated" /\ pc'[t] = "rotSave" /\ client' = client /\ open' = open
        /\ TokenOf(frame'[t].sess) = TokenOf(frame[t].sess)
        /\ TokenOf(current') = TokenOf(frame[t].sess) /\ raw' = TokenOf(frame[t].sess)
    BY <1>0, <1>13, ApplyEffect
  <2>2. TokenOf(frame[t].sess) \in open
    BY <1>0, <2>1 DEF CurrentOf
  <2>3. MemoryOK'
    BY <2>1, <2>2 DEF CurrentInv, MemoryOK
  <2>4. ASSUME NEW u \in Threads PROVE CurrentOf(u)'
    <3>1. pc[u] \in RotationLabels => TokenOf(frame[u].sess) \in open'
      BY <2>1 DEF CurrentInv, CurrentOf
    <3>2. CurrentOf(t)'
      BY <2>1, <2>2 DEF CurrentOf
    <3> QED
      BY <1>0, <2>1, <3>1, <3>2, OthersKeepCurrent
  <2> QED
    BY <2>3, <2>4
<1>14. CASE RotatedSave(t) \/ RotatedFlag(t)
  <2>1. /\ UNCHANGED tokens /\ pc[t] \in RotationLabels /\ pc[t] # "rotated"
        /\ \/ pc'[t] \in Plain
           \/ pc'[t] \in {"rotSaved", "rotFailed"} /\ frame'[t] = frame[t]
    BY <1>0, <1>14, RotSaveEffect, RotFlagEffect
  <2>2. CurrentOf(t)'
    BY <1>0, <2>1 DEF CurrentOf, Plain, tokens
  <2> QED
    BY <1>0, <2>1, <2>2, StillCurrent
<1> QED
  BY AllSteps, <1>1, <1>2, <1>3, <1>4, <1>5, <1>6, <1>7, <1>8, <1>9, <1>10, <1>11, <1>12,
     <1>13, <1>14

\* In a process that does not log out and has used a single client, once no
\* rotation is being handled the bundle and the bearer in memory are the
\* tokens of that client: OnAuthRotated, Client, Login and Raw.
THEOREM CurrentFollows == ASSUME NoLogout PROVE Spec => []CurrentFollowsClient
<1>1. Init => CurrentInv
  <2> SUFFICES ASSUME Init PROVE CurrentInv
    OBVIOUS
  <2>1. LockInv
    BY InitDisciplined
  <2>2. client = NoToken /\ open = {} /\ \A u \in Threads : pc[u] = "idle"
    BY DEF Init, FreshMemory
  <2> QED
    BY <2>1, <2>2 DEF CurrentInv, MemoryOK, CurrentOf, RotationLabels
<1>2. CurrentInv /\ LockInv' /\ [Next]_vars => CurrentInv'
  <2> SUFFICES ASSUME CurrentInv, LockInv', [Next]_vars
               PROVE  MemoryOK' /\ \A u \in Threads : CurrentOf(u)'
    BY DEF CurrentInv
  <2>1. CASE Restart
    <3>1. client' = NoToken /\ open' = {} /\ \A u \in Threads : pc'[u] = "idle"
      BY <2>1 DEF Restart
    <3> QED
      BY <3>1 DEF MemoryOK, CurrentOf, RotationLabels
  <2>2. CASE Revoke \/ UNCHANGED vars
    <3>1. UNCHANGED <<client, raw, current, open, pc, frame>>
      BY <2>2 DEF Revoke, vars, tokens
    <3> QED
      BY <3>1 DEF CurrentInv, MemoryOK, CurrentOf
  <2> QED
    BY <2>1, <2>2, CurrentStep DEF Next
<1>3. CurrentInv => CurrentFollowsClient
  BY DEF CurrentInv, MemoryOK, CurrentFollowsClient, Settled, RotationLabels
<1> QED
  BY <1>1, <1>2, <1>3, LocksHeld, PTL DEF Spec

-----------------------------------------------------------------------------
(* The store: in a process that neither rotates tokens nor is restarted,   *)
(* over a backend that is reachable, every mu section leaves credentials   *)
(* and session together or apart, or the session poisoned.  (OnAuthRotated *)
(* can write a session over a store that Logout has just emptied, and a    *)
(* death between two writes leaves one of them: see the hazards.)          *)

PairProfile == "Rotate" \notin Ops /\ "Restart" \notin Ops /\ "down" \notin StoreFaults

Pair == store.creds = "none" <=> store.sess = NoSession

PairOf(t) ==
  /\ pc[t] \notin RotationLabels
  /\ pc[t] \in {"refresh", "saveCold"} => Pair /\ store.sess # NoSession
  /\ pc[t] \in {"relogin", "auth", "saveCreds", "logoutClear"} /\ ~poisoned => Pair
  /\ pc[t] \in {"saveCold", "saveCreds", "saveSess"} => frame[t].sess.sid # 0
  /\ pc[t] \in {"auth", "saveCreds"} => frame[t].input # "none"
  /\ pc[t] = "saveSess" => store.creds # "none"

PairInv ==
  /\ LockInv
  /\ mu = NoThread /\ ~poisoned => Pair
  /\ \A t \in Threads : PairOf(t)

\* The store belongs to the goroutine that holds mu.
LEMMA OthersKeepPair ==
  ASSUME PairInv, NEW t \in Threads, NEW u \in Threads, u # t, Alone(t),
         UNCHANGED <<store, poisoned>> \/ pc[t] \in Critical
  PROVE  PairOf(u)'
<1>1. pc'[u] = pc[u] /\ frame'[u] = frame[u] /\ PairOf(u)
  BY DEF Alone, PairInv
<1>2. pc[u] \in Critical => UNCHANGED <<store, poisoned>>
  BY DEF PairInv, LockInv, Discipline
<1>3. CASE pc[u] \in Critical
  BY <1>1, <1>2, <1>3 DEF PairOf, Pair
<1>4. CASE pc[u] \notin Critical
  BY <1>1, <1>4 DEF PairOf, Critical, LoginLabels
<1> QED
  BY <1>3, <1>4

\* What the step's own goroutine finds in the store and leaves there.
LEMMA PairOwnStep ==
  ASSUME PairProfile, PairInv, NEW t \in Threads, Step(t) \/ Call(t)
  PROVE  /\ PairOf(t)'
         /\ UNCHANGED <<store, poisoned>> \/ pc[t] \in Critical
         /\ mu' = mu \/ pc'[t] \in Critical \/ (~poisoned' => Pair')
<1>0. TypeOK /\ PairOf(t) /\ (mu = NoThread /\ ~poisoned => Pair)
  BY DEF PairInv, LockInv
<1> USE DEF RotationLabels, Critical, LoginLabels
<1>1. CASE PlainStep(t)
  BY <1>1, <1>0, PlainSteps DEF Still, Plain, PairOf
<1>2. CASE ClientLoad(t)
  <2>1. /\ UNCHANGED <<store, poisoned>> /\ pc'[t] = "refresh" /\ Pair
        /\ store.sess # NoSession
    BY <1>0, <1>2, LoadEffect DEF Still
  <2> QED
    BY <2>1 DEF PairOf, Pair
<1>3. CASE ClientRefresh(t)
  <2>1. /\ UNCHANGED <<store, poisoned>> /\ pc[t] = "refresh" /\ pc'[t] = "saveCold"
        /\ frame'[t].sess.sid # 0
    BY <1>0, <1>3, RefreshEffect, RealSession DEF Still
  <2> QED
    BY <1>0, <2>1 DEF PairOf, Pair
<1>4. CASE ClientRefreshFails(t) \/ ClientRejected(t)
  <2>1. /\ UNCHANGED <<store, poisoned>> /\ pc[t] = "refresh"
        /\ pc'[t] \in Plain \cup {"relogin"}
    BY <1>0, <1>4, RefreshFailsEffect, RejectedEffect DEF Still
  <2> QED
    BY <1>0, <2>1 DEF PairOf, Pair, Plain
<1>5. CASE ClientSave(t)
  <2>1. /\ pc[t] = "saveCold" /\ pc'[t] \in Plain
        /\ store' = [store EXCEPT !.sess = frame[t].sess] \/ store' = store
    BY <1>0, <1>5, SaveEffect
  <2>2. store.creds # "none" /\ store.sess # NoSession /\ frame[t].sess # NoSession
    BY <1>0, <2>1, RealSession DEF PairOf, Pair
  <2>3. store'.creds # "none" /\ store'.sess # NoSession
    BY <1>0, <2>1, <2>2 DEF TypeOK
  <2> QED
    BY <2>1, <2>3 DEF PairOf, Pair, Plain
<1>6. CASE ReloginLoadCreds(t)
  <2>1. /\ UNCHANGED <<store, poisoned>> /\ pc[t] = "relogin"
        /\ pc'[t] \in Plain \/ (pc'[t] = "auth" /\ frame'[t].input # "none")
    BY <1>0, <1>6, ReloginEffect DEF Still
  <2> QED
    BY <1>0, <2>1 DEF PairOf, Pair, Plain
<1>7. CASE Authenticate(t) \/ AuthenticateFails(t)
  <2>1. /\ UNCHANGED <<store, poisoned>> /\ pc[t] = "auth"
        /\ \/ pc'[t] \in Plain
           \/ /\ pc'[t] = "saveCreds" /\ frame'[t].sess.sid # 0
              /\ frame'[t].input = frame[t].input
    BY <1>0, <1>7, AuthEffect, RealSession DEF Still, Unused
  <2> QED
    BY <1>0, <2>1 DEF PairOf, Pair, Plain
<1>8. CASE PersistCreds(t)
  <2>1. /\ pc[t] = "saveCreds"
        /\ \/ /\ pc'[t] = "saveSess" /\ frame'[t] = frame[t]
              /\ store' = [store EXCEPT !.creds = frame[t].input]
           \/ pc'[t] = "rollback"
    BY <1>0, <1>8, PersistCredsEffect DEF PairProfile
  <2>2. pc'[t] = "saveSess" => store'.creds # "none" /\ frame'[t].sess.sid # 0
    BY <1>0, <2>1 DEF PairOf, TypeOK
  <2> QED
    BY <2>1, <2>2 DEF PairOf
<1>9. CASE PersistSession(t)
  <2>1. /\ pc[t] = "saveSess" /\ pc'[t] \in Plain
        /\ store' = [store EXCEPT !.sess = frame[t].sess]
    BY <1>0, <1>9, PersistSessionEffect
  <2>2. store.creds # "none" /\ frame[t].sess # NoSession
    BY <1>0, <2>1, RealSession DEF PairOf
  <2>3. store'.creds # "none" /\ store'.sess # NoSession
    BY <1>0, <2>1, <2>2 DEF TypeOK
  <2> QED
    BY <2>1, <2>3 DEF PairOf, Pair, Plain
<1>10. CASE PersistSessionFails(t)
  <2>1. pc[t] = "saveSess" /\ pc'[t] = "rollback"
    BY <1>0, <1>10, PersistSessionFailsEffect DEF PairProfile
  <2> QED
    BY <2>1 DEF PairOf
<1>11. CASE Rollback(t)
  <2>1. /\ pc[t] = "rollback" /\ pc'[t] \in Plain
        /\ store' = EmptyStore \/ poisoned'
    BY <1>0, <1>11, RollbackEffect
  <2>2. store' = EmptyStore => Pair'
    BY DEF EmptyStore, Pair
  <2> QED
    BY <2>1, <2>2 DEF PairOf, Plain
<1>12. CASE LogoutCall(t)
  <2>1. /\ pc'[t] = "logoutClear" /\ mu = NoThread /\ UNCHANGED <<store, poisoned>>
    BY <1>0, <1>12, LogoutEffect
  <2> QED
    BY <1>0, <2>1 DEF PairOf, Pair
<1>13. CASE LogoutClear(t)
  <2>1. /\ pc[t] = "logoutClear" /\ pc'[t] \in Plain
        /\ store' = EmptyStore \/ UNCHANGED <<store, poisoned>>
    BY <1>0, <1>13, LogoutEffect
  <2>2. store' = EmptyStore => Pair'
    BY DEF EmptyStore, Pair
  <2> QED
    BY <1>0, <2>1, <2>2 DEF PairOf, Plain, Pair
<1>14. CASE LoginCall(t) \/ HealRelogin(t)
  <2>1. /\ UNCHANGED <<store, poisoned>> /\ mu = NoThread
        /\ \/ pc'[t] = "relogin"
           \/ pc'[t] = "auth" /\ frame'[t].input # "none"
    BY <1>0, <1>14, LoginEffect DEF Still
  <2> QED
    BY <1>0, <2>1 DEF PairOf, Pair
<1>15. CASE LibraryRotates(t)
  BY <1>15 DEF LibraryRotates, PairProfile
<1>16. CASE RotatedApply(t) \/ RotatedSave(t) \/ RotatedFlag(t)
  BY <1>0, <1>16 DEF RotatedApply, RotatedSave, RotatedFlag, PairOf
<1> QED
  BY AllSteps, <1>1, <1>2, <1>3, <1>4, <1>5, <1>6, <1>7, <1>8, <1>9, <1>10, <1>11, <1>12,
     <1>13, <1>14, <1>15, <1>16

\* In such a process the store holds credentials and a session or neither,
\* whenever no goroutine is in a mu section, unless a rollback failed:
\* persistLoginLocked, rollbackLoginPersist, Logout.
THEOREM StorePaired == ASSUME PairProfile PROVE Spec => []CredsPairSession
<1>1. Init => PairInv
  <2> SUFFICES ASSUME Init PROVE PairInv
    OBVIOUS
  <2>1. LockInv /\ \A u \in Threads : pc[u] = "idle"
    BY InitDisciplined DEF Init, FreshMemory
  <2>2. Pair
    <3>1. CASE store = [creds |-> "none", sess |-> NoSession]
      BY <3>1 DEF Pair
    <3>2. ASSUME NEW sc \in InitScopes, NEW in \in LoginInputs,
                 store = [creds |-> in, sess |-> [sid |-> 1, gen |-> 1, scope |-> sc]]
          PROVE  Pair
      <4>1. store.creds = in /\ store.sess.sid = 1
        BY <3>2
      <4>2. in # "none"
        BY ChoicesAssumption DEF ChoicesAssumption
      <4> QED
        BY <4>1, <4>2, RealSession DEF Pair
    <3> QED
      BY <3>1, <3>2 DEF Init
  <2> QED
    BY <2>1, <2>2 DEF PairInv, PairOf, RotationLabels
<1>2. PairInv /\ LockInv' /\ [Next]_vars => PairInv'
  <2> SUFFICES ASSUME PairInv, LockInv', [Next]_vars PROVE PairInv'
    OBVIOUS
  <2>1. CASE Restart
    BY <2>1 DEF Restart, PairProfile
  <2>2. CASE Revoke \/ UNCHANGED vars
    <3>1. UNCHANGED <<mu, poisoned, store, pc, frame>>
      BY <2>2 DEF Revoke, vars, locks, flags
    <3> QED
      BY <3>1 DEF PairInv, PairOf, Pair
  <2>3. ASSUME NEW t \in Threads, Step(t) \/ Call(t) PROVE PairInv'
    <3>1. Alone(t) /\ Discipline(t)'
      BY <2>3, Stepped DEF PairInv
    <3>2. /\ PairOf(t)'
          /\ UNCHANGED <<store, poisoned>> \/ pc[t] \in Critical
          /\ mu' = mu \/ pc'[t] \in Critical \/ (~poisoned' => Pair')
      BY <2>3, PairOwnStep
    <3>3. \A u \in Threads : PairOf(u)'
      BY <3>1, <3>2, OthersKeepPair
    <3>4. mu' = NoThread /\ ~poisoned' => Pair'
      <4>1. t # NoThread /\ (pc[t] \in Critical => mu = t)
        BY ThreadsAssumption DEF ThreadsAssumption, PairInv, LockInv, Discipline
      <4>2. pc'[t] \in Critical => mu' = t
        BY <3>1 DEF Discipline
      <4>3. UNCHANGED <<store, poisoned>> => Pair' = Pair
        BY DEF Pair
      <4> QED
        BY <3>2, <4>1, <4>2, <4>3 DEF PairInv
    <3> QED
      BY <3>3, <3>4 DEF PairInv
  <2> QED
    BY <2>1, <2>2, <2>3 DEF Next
<1>3. PairInv => CredsPairSession
  BY DEF PairInv, CredsPairSession, Pair
<1> QED
  BY <1>1, <1>2, <1>3, LocksHeld, PTL DEF Spec

-----------------------------------------------------------------------------
(* The order of the writes, whatever the process does: tokens on their way *)
(* into the store are newer than what it holds of their session, and Proton *)
(* gives nobody newer ones before they have been written or given up.      *)

Used(s) == s \in Sids /\ proton[s].gen # 0
Issued(b) == Used(b.sid) /\ b.gen <= proton[b.sid].gen

\* Positions of a rotation before its save, of a login before its own, and all
\* those at which a thread holds a bundle it may yet write.
Pending == {"rotated", "rotSave"}
Adopting == {"saveCreds", "saveSess"}
Handed == {"refresh", "saveCold"} \cup Adopting \cup Pending

WriteOf(t) ==
  LET b == frame[t].sess IN
  /\ pc[t] \in Handed => Issued(b)
  /\ pc[t] \in Pending => /\ b.gen = proton[b.sid].gen
                          /\ store.sess.sid = b.sid => store.sess.gen < b.gen
  /\ pc[t] = "saveCold" /\ store.sess.sid = b.sid => store.sess.gen <= b.gen
  /\ pc[t] \in Adopting => store.sess.sid # b.sid /\ \A c \in open : c.sid # b.sid

\* A rotation that has not saved yet, and another thread with tokens of the
\* same session: only a cold start may have some, and older ones.  While it
\* saves them it holds mu, so that the rotation has to wait to be applied.
Apart(t, u) ==
  pc[u] \in Pending /\ frame[t].sess.sid = frame[u].sess.sid =>
    /\ pc[t] \notin Pending \cup Adopting
    /\ pc[t] \in {"refresh", "saveCold"} => frame[t].sess.gen < frame[u].sess.gen
    /\ pc[t] = "saveCold" => pc[u] = "rotated"

WriteInv ==
  /\ store.sess = NoSession \/ Issued(store.sess)
  /\ \A c \in open : Used(c.sid)
  /\ \A t \in Threads : WriteOf(t)
  /\ \A t \in Threads : \A u \in Threads \ {t} : Apart(t, u)

NotRegressing == store'.sess.sid = store.sess.sid => store'.sess.gen >= store.sess.gen

LEMMA Numbers ==
  ASSUME TypeOK
  PROVE  /\ store.sess \in Bundles /\ store.sess.gen \in Nat
         /\ \A s \in Sids : proton[s].gen \in Nat
         /\ \A u \in Threads : frame[u].sess \in Bundles /\ frame[u].sess.gen \in Nat
         /\ \A b \in Bundles : b.gen \in Nat
         /\ NoSession \in Bundles
<1>1. \A b \in Bundles : b.gen \in Nat
  BY BoundsAssumption DEF BoundsAssumption, Bundles
<1>2. NoSession \in Bundles
  BY BoundsAssumption DEF BoundsAssumption, Bundles, NoSession, Scopes
<1>3. \A s \in Sids : proton[s].gen \in Nat
  BY BoundsAssumption DEF BoundsAssumption, TypeOK, ProtonSessions
<1>4. store.sess \in Bundles
  BY DEF TypeOK
<1> QED
  BY <1>1, <1>2, <1>3, <1>4, FrameTyped

\* Proton goes on by one generation in one session, and takes nothing back.
Advances(s) ==
  \A r \in Sids : proton'[r].gen = IF r = s THEN proton[r].gen + 1 ELSE proton[r].gen

LEMMA ProtonAdvances ==
  ASSUME TypeOK, NEW s \in Sids,
         \/ proton' = Rotated(s)
         \/ s \in Unused /\ \E sc \in LoginScopes :
              proton' = [proton EXCEPT ![s] = [gen |-> 1, live |-> TRUE, scope |-> sc]]
  PROVE  Advances(s)
<1>1. proton \in [Sids -> ProtonSessions]
  BY DEF TypeOK
<1>2. CASE proton' = Rotated(s)
  BY <1>1, <1>2 DEF Rotated, ProtonSessions, Advances
<1>3. ASSUME NEW sc \in LoginScopes, s \in Unused,
             proton' = [proton EXCEPT ![s] = [gen |-> 1, live |-> TRUE, scope |-> sc]]
      PROVE  Advances(s)
  <2>1. \A r \in Sids : proton'[r].gen = IF r = s THEN 1 ELSE proton[r].gen
    BY <1>1, <1>3
  <2> QED
    BY <1>3, <2>1 DEF Unused, Advances
<1> QED
  BY <1>2, <1>3

LEMMA StaysIssued ==
  ASSUME TypeOK, proton' = proton \/ \E s \in Sids : Advances(s)
  PROVE  /\ \A r : Used(r) => Used(r)'
         /\ \A b \in Bundles : Issued(b) => Issued(b)'
<1>1. \A r \in Sids : proton'[r].gen = proton[r].gen \/ proton'[r].gen = proton[r].gen + 1
  BY DEF Advances
<1>2. \A r : Used(r) => Used(r)'
  BY <1>1, Numbers DEF Used
<1> QED
  BY <1>1, <1>2, Numbers DEF Used, Issued

\* Another thread keeps what it had.
LEMMA OthersKeepWrites ==
  ASSUME TypeOK, WriteInv, NEW t \in Threads, NEW u \in Threads, u # t, Alone(t),
         proton' = proton \/ \E s \in Sids : Advances(s),
         pc[u] \in Pending =>
           proton'[frame[u].sess.sid].gen = proton[frame[u].sess.sid].gen,
         \/ store'.sess = store.sess
         \/ pc[u] \in Handed \ {"refresh"} => store'.sess.sid # frame[u].sess.sid
         \/ pc[u] = "rotated" /\ store'.sess.gen < frame[u].sess.gen,
         pc[u] \in Adopting => \A c \in open' : c.sid # frame[u].sess.sid
  PROVE  WriteOf(u)'
<1>1. pc'[u] = pc[u] /\ frame'[u] = frame[u] /\ WriteOf(u)
  BY DEF Alone, WriteInv
<1>2. frame[u].sess \in Bundles
  BY Numbers
<1>3. pc[u] \in Handed => Issued(frame[u].sess)'
  BY <1>1, <1>2, StaysIssued DEF WriteOf
<1> QED
  BY <1>1, <1>3 DEF WriteOf, Handed, Pending, Adopting

\* The whole invariant, from the step's own part.
LEMMA WritesKept ==
  ASSUME TypeOK, WriteInv, NEW t \in Threads, Alone(t),
         proton' = proton \/ \E s \in Sids : Advances(s),
         store'.sess = NoSession \/ Issued(store.sess)',
         \A c \in open' : Used(c.sid)',
         WriteOf(t)',
         ASSUME NEW u \in Threads, u # t
         PROVE  WriteOf(u)' /\ Apart(t, u)' /\ Apart(u, t)'
  PROVE  WriteInv'
<1>1. ASSUME NEW v \in Threads, NEW u \in Threads \ {v} PROVE Apart(v, u)'
  <2>1. CASE v = t \/ u = t
    BY <2>1
  <2>2. CASE v # t /\ u # t
    <3>1. pc'[u] = pc[u] /\ frame'[u] = frame[u] /\ pc'[v] = pc[v] /\ frame'[v] = frame[v]
      BY <2>2 DEF Alone
    <3> QED
      BY <3>1 DEF WriteInv, Apart
  <2> QED
    BY <2>1, <2>2
<1>2. \A u \in Threads : WriteOf(u)'
  OBVIOUS
<1> QED
  BY <1>1, <1>2 DEF WriteInv

\* A step that leaves its thread without a bundle to write, and the store as it
\* was or empty.
LEMMA EmptyHanded ==
  ASSUME TypeOK, WriteInv, NEW t \in Threads, Alone(t), proton' = proton,
         pc'[t] \notin Handed, store'.sess \in {store.sess, NoSession}, open' \subseteq open
  PROVE  WriteInv' /\ NotRegressing
<1>1. WriteOf(t)'
  BY DEF WriteOf, Handed, Pending, Adopting
<1>2. ASSUME NEW u \in Threads, u # t
      PROVE  WriteOf(u)' /\ Apart(t, u)' /\ Apart(u, t)'
  <2>1. Apart(t, u)' /\ Apart(u, t)'
    BY DEF Apart, Handed, Pending, Adopting
  <2>2. pc[u] \in Handed => frame[u].sess.sid # NoSession.sid
    BY RealSession DEF WriteInv, WriteOf, Issued, Used
  <2>3. pc[u] \in Adopting => \A c \in open' : c.sid # frame[u].sess.sid
    BY DEF WriteInv, WriteOf
  <2> QED
    BY <1>2, <2>1, <2>2, <2>3, OthersKeepWrites
<1>3. store'.sess = NoSession \/ Issued(store.sess)'
  BY DEF WriteInv, Issued, Used
<1>4. \A c \in open' : Used(c.sid)'
  BY DEF WriteInv, Used
<1>5. NotRegressing
  <2>1. store.sess.sid = 0 => store.sess = NoSession
    BY RealSession DEF WriteInv, Issued, Used
  <2> QED
    BY <2>1, Numbers, RealSession DEF NotRegressing
<1> QED
  BY <1>1, <1>2, <1>3, <1>4, <1>5, WritesKept

\* A step that gives its thread a bundle, or keeps it, and moves nothing else.
LEMMA TakesInHand ==
  ASSUME TypeOK, WriteInv, NEW t \in Threads, Alone(t),
         UNCHANGED <<proton, open>>, store'.sess = store.sess, WriteOf(t)',
         ASSUME NEW u \in Threads, u # t PROVE Apart(t, u)' /\ Apart(u, t)'
  PROVE  WriteInv' /\ NotRegressing
<1>1. ASSUME NEW u \in Threads, u # t PROVE WriteOf(u)'
  <2>1. pc[u] \in Adopting => \A c \in open' : c.sid # frame[u].sess.sid
    BY DEF WriteInv, WriteOf
  <2> QED
    BY <1>1, <2>1, OthersKeepWrites
<1>2. store'.sess = NoSession \/ Issued(store.sess)'
  BY DEF WriteInv, Issued, Used
<1>3. \A c \in open' : Used(c.sid)'
  BY DEF WriteInv, Used
<1>4. NotRegressing
  BY Numbers DEF NotRegressing
<1> QED
  BY <1>1, <1>2, <1>3, <1>4, WritesKept

\* The three saves, done or given up, with the adoption of the tokens.
LEMMA Writes ==
  ASSUME LockInv, WriteInv, NEW t \in Threads, Alone(t), proton' = proton,
         pc[t] \in {"saveCold", "saveSess", "rotSave"}, pc'[t] \notin Handed,
         store'.sess \in {store.sess, frame[t].sess},
         \A c \in open' : c \in open \/ c.sid = frame[t].sess.sid
  PROVE  WriteInv' /\ NotRegressing
<1> DEFINE b == frame[t].sess
<1>0. TypeOK /\ Issued(b) /\ WriteOf(t)
  BY DEF LockInv, WriteInv, WriteOf, Handed, Pending, Adopting
<1>1. WriteOf(t)'
  BY DEF WriteOf, Handed, Pending, Adopting
<1>2. ASSUME NEW u \in Threads, u # t
      PROVE  WriteOf(u)' /\ Apart(t, u)' /\ Apart(u, t)'
  <2>1. Apart(t, u)' /\ Apart(u, t)'
    BY DEF Apart, Handed, Pending, Adopting
  <2>2. Apart(t, u) /\ Apart(u, t)
    BY <1>2 DEF WriteInv
  <2>3. pc[t] \in Critical => pc[u] \notin Critical
    BY <1>2 DEF LockInv, Discipline
  <2>4. pc[u] \in Adopting \cup {"saveCold"} => b.sid # frame[u].sess.sid
    BY <2>2, <2>3 DEF Apart, Critical, LoginLabels, Adopting, Pending
  <2>5. pc[u] \in Pending => \/ b.sid # frame[u].sess.sid
                             \/ pc[u] = "rotated" /\ b.gen < frame[u].sess.gen
    BY <2>2 DEF Apart, Adopting, Pending
  <2>6. pc[u] \in Adopting => \A c \in open' : c.sid # frame[u].sess.sid
    BY <2>4 DEF WriteInv, WriteOf
  <2>7. \/ pc[u] \in Handed \ {"refresh"} => b.sid # frame[u].sess.sid
        \/ pc[u] = "rotated" /\ b.gen < frame[u].sess.gen
    BY <2>4, <2>5 DEF Handed
  <2> QED
    BY <1>0, <1>2, <2>1, <2>6, <2>7, OthersKeepWrites
<1>3. store'.sess = NoSession \/ Issued(store.sess)'
  BY <1>0 DEF WriteInv, Issued, Used
<1>4. \A c \in open' : Used(c.sid)'
  BY <1>0 DEF WriteInv, Issued, Used
<1>5. NotRegressing
  BY <1>0, Numbers DEF NotRegressing, WriteOf, Pending, Adopting
<1> QED
  BY <1>0, <1>1, <1>2, <1>3, <1>4, <1>5, WritesKept

\* Proton issues tokens: to nobody of whose session any wait to be written.
LEMMA Issues ==
  ASSUME TypeOK, WriteInv, NEW t \in Threads, Alone(t), NEW s \in Sids, Advances(s),
         store' = store, \A c \in open' : c \in open \/ c.sid = s,
         \A u \in Threads \ {t} : pc[u] \in Pending \cup Adopting => frame[u].sess.sid # s,
         pc'[t] \in Handed \ {"refresh"} =>
           /\ frame'[t].sess.sid = s /\ frame'[t].sess.gen = proton'[s].gen
           /\ pc'[t] \in Adopting => \A c \in open' : c.sid # s,
         pc'[t] \in Adopting => proton[s].gen = 0,
         pc'[t] \in Pending => pc'[t] = "rotated",
         pc'[t] # "refresh"
  PROVE  WriteInv' /\ NotRegressing
<1>0. proton[s].gen \in Nat /\ proton'[s].gen = proton[s].gen + 1
  BY Numbers DEF Advances
<1>1. Used(s)' /\ (\A r : Used(r) => Used(r)')
  BY <1>0, StaysIssued DEF Used
<1>2. store.sess.sid = s => store.sess.gen <= proton[s].gen /\ proton[s].gen # 0
  BY RealSession DEF WriteInv, Issued, Used
<1>3. WriteOf(t)'
  <2>1. CASE pc'[t] \notin Handed
    BY <2>1 DEF WriteOf, Handed, Pending, Adopting
  <2>2. CASE pc'[t] \in Handed
    <3>1. frame'[t].sess.sid = s /\ frame'[t].sess.gen = proton'[s].gen
      BY <2>2
    <3>2. Issued(frame[t].sess)'
      BY <1>0, <1>1, <3>1 DEF Issued
    <3>3. store.sess.gen \in Nat
      BY Numbers
    <3>4. store'.sess.sid = s => store'.sess.gen < proton'[s].gen
      BY <1>0, <1>2, <3>3
    <3>5. pc'[t] \in Adopting => store'.sess.sid # s /\ \A c \in open' : c.sid # s
      BY <1>2, <2>2
    <3> QED
      BY <1>0, <3>1, <3>2, <3>3, <3>4, <3>5 DEF WriteOf
  <2> QED
    BY <2>1, <2>2
<1>4. ASSUME NEW u \in Threads, u # t
      PROVE  WriteOf(u)' /\ Apart(t, u)' /\ Apart(u, t)'
  <2>1. pc'[u] = pc[u] /\ frame'[u] = frame[u] /\ WriteOf(u)
    BY <1>4 DEF Alone, WriteInv
  <2>2. pc[u] \in Pending =>
          /\ proton'[frame[u].sess.sid].gen = proton[frame[u].sess.sid].gen
          /\ frame[u].sess.sid # s
    BY <1>4, <2>1 DEF WriteOf, Handed, Issued, Used, Advances
  <2>3. pc[u] \in Adopting => \A c \in open' : c.sid # frame[u].sess.sid
    BY <1>4, <2>1 DEF WriteOf
  <2>4. WriteOf(u)'
    BY <1>4, <2>2, <2>3, OthersKeepWrites
  <2>5. Apart(t, u)'
    BY <2>1, <2>2 DEF Apart, Handed
  <2>6. Apart(u, t)'
    <3>1. frame[u].sess.gen \in Nat
      BY Numbers
    <3>2. pc[u] \in {"refresh", "saveCold"} /\ frame[u].sess.sid = s =>
            frame[u].sess.gen < proton'[s].gen
      BY <1>0, <2>1, <3>1 DEF WriteOf, Handed, Issued
    <3> QED
      BY <1>4, <2>1, <3>2 DEF Apart, Handed
  <2> QED
    BY <2>4, <2>5, <2>6
<1>5. store'.sess = NoSession \/ Issued(store.sess)'
  BY Numbers, StaysIssued DEF WriteInv
<1>6. \A c \in open' : Used(c.sid)'
  BY <1>1 DEF WriteInv
<1>7. NotRegressing
  BY Numbers DEF NotRegressing
<1> QED
  BY <1>3, <1>4, <1>5, <1>6, <1>7, WritesKept

LEMMA WriteStep ==
  ASSUME LockInv, WriteInv, NEW t \in Threads, Step(t) \/ Call(t)
  PROVE  WriteInv' /\ NotRegressing
<1>0. TypeOK /\ Alone(t) /\ WriteOf(t)
  BY Stepped DEF LockInv, WriteInv
<1>1. \A l \in Plain \cup {"relogin", "auth", "rollback", "logoutClear", "rotSaved", "rotFailed"} :
        l \notin Handed
  BY DEF Plain, Handed, Pending, Adopting
<1>2. CASE PlainStep(t) \/ ClientRejected(t) \/ ReloginLoadCreds(t) \/ LoginCall(t)
           \/ HealRelogin(t) \/ PersistSessionFails(t) \/ RotatedFlag(t)
  <2>1. /\ pc'[t] \in Plain \cup {"relogin", "auth", "rollback"}
        /\ store' = store /\ open' = open /\ proton' = proton
    BY <1>0, <1>2, PlainSteps, RejectedEffect, ReloginEffect, LoginEffect,
       PersistSessionFailsEffect, RotFlagEffect DEF Still, tokens
  <2> QED
    BY <1>0, <1>1, <2>1, EmptyHanded
<1>3. CASE ClientLoad(t)
  <2>1. /\ pc'[t] = "refresh" /\ frame'[t].sess = store.sess
        /\ store' = store /\ proton' = proton /\ open' = open /\ store.sess # NoSession
    BY <1>0, <1>3, LoadEffect DEF Still, tokens
  <2>2. WriteOf(t)'
    BY <2>1 DEF WriteInv, WriteOf, Issued, Used, Pending, Adopting
  <2>3. ASSUME NEW u \in Threads, u # t PROVE Apart(t, u)' /\ Apart(u, t)'
    <3>1. pc'[u] = pc[u] /\ frame'[u] = frame[u] /\ WriteOf(u)
      BY <1>0, <2>3 DEF Alone, WriteInv
    <3> QED
      BY <2>1, <3>1 DEF Apart, WriteOf, Pending, Adopting
  <2> QED
    BY <1>0, <2>1, <2>2, <2>3, TakesInHand
<1>4. CASE ClientRefresh(t)
  <2> DEFINE s == frame[t].sess.sid
  <2>1. /\ pc[t] = "refresh" /\ pc'[t] = "saveCold" /\ store' = store /\ open' = open
        /\ s \in Sids /\ frame'[t].sess.sid = s /\ proton[s].gen = frame[t].sess.gen
    BY <1>0, <1>4, RefreshEffect DEF Still, tokens
  <2>2. /\ \A u \in Threads \ {t} : pc[u] \in Pending \cup Adopting => frame[u].sess.sid # s
    <3> SUFFICES ASSUME NEW u \in Threads \ {t}, pc[u] \in Pending \cup Adopting
                 PROVE  frame[u].sess.sid # s
      OBVIOUS
    <3>1. pc[u] \in Adopting => FALSE
      BY <2>1 DEF LockInv, Discipline, Critical, LoginLabels, Adopting
    <3>2. WriteOf(u) /\ Apart(t, u) /\ pc[u] \in Pending
      BY <3>1 DEF WriteInv
    <3> QED
      BY <1>0, <2>1, <3>2, Numbers DEF WriteOf, Apart
  <2>3. CASE frame'[t].sess.gen = frame[t].sess.gen /\ proton' = proton
    <3>1. WriteOf(t)'
      BY <1>0, <2>1, <2>3, RealSession DEF WriteInv, WriteOf, Issued, Used, Handed, Pending, Adopting
    <3>2. ASSUME NEW u \in Threads, u # t PROVE Apart(t, u)' /\ Apart(u, t)'
      <4>1. pc'[u] = pc[u] /\ frame'[u] = frame[u]
        BY <1>0, <3>2 DEF Alone
      <4> QED
        BY <2>1, <2>2, <3>2, <4>1 DEF Apart, Pending
    <3> QED
      BY <1>0, <2>1, <2>3, <3>1, <3>2, TakesInHand
  <2>4. CASE frame'[t].sess.gen = frame[t].sess.gen + 1 /\ proton' = Rotated(s)
    <3>1. Advances(s)
      BY <1>0, <2>1, <2>4, ProtonAdvances
    <3>2. frame'[t].sess.gen = proton'[s].gen
      BY <2>1, <2>4, <3>1 DEF Advances
    <3>3. pc'[t] \notin Adopting \cup Pending
      BY <2>1 DEF Adopting, Pending
    <3> QED
      BY <1>0, <2>1, <2>2, <3>1, <3>2, <3>3, Issues
  <2> QED
    BY <1>0, <1>4, <2>3, <2>4, RefreshEffect
<1>5. CASE ClientRefreshFails(t)
  <2> DEFINE s == frame[t].sess.sid
  <2>1. pc[t] = "refresh" /\ pc'[t] \notin Handed /\ store' = store /\ open' = open
    BY <1>0, <1>1, <1>5, RefreshFailsEffect DEF Still, tokens
  <2>2. CASE proton' = proton
    BY <1>0, <2>1, <2>2, EmptyHanded
  <2>3. CASE s \in Sids /\ proton[s].gen = frame[t].sess.gen /\ proton' = Rotated(s)
    <3>1. Advances(s)
      BY <1>0, <2>3, ProtonAdvances
    <3>2. ASSUME NEW u \in Threads \ {t}, pc[u] \in Pending \cup Adopting
          PROVE  frame[u].sess.sid # s
      <4>1. pc[u] \in Adopting => FALSE
        BY <2>1 DEF LockInv, Discipline, Critical, LoginLabels, Adopting
      <4>2. WriteOf(u) /\ Apart(t, u) /\ pc[u] \in Pending
        BY <3>2, <4>1 DEF WriteInv
      <4> QED
        BY <1>0, <2>1, <2>3, <4>2, Numbers DEF WriteOf, Apart
    <3>3. pc'[t] \notin Adopting \cup Pending /\ pc'[t] # "refresh"
      BY <2>1 DEF Handed
    <3> QED
      BY <1>0, <2>1, <2>3, <3>1, <3>2, <3>3, Issues
  <2> QED
    BY <1>0, <1>5, <2>2, <2>3, RefreshFailsEffect
<1>6. CASE ClientSave(t) \/ PersistSession(t)
  <2>1. /\ pc[t] \in {"saveCold", "saveSess"} /\ pc'[t] \in Plain /\ proton' = proton
        /\ client' = TokenOf(frame[t].sess) /\ open' = open \cup {client'}
        /\ store'.sess \in {store.sess, frame[t].sess}
    BY <1>0, <1>6, SaveEffect, PersistSessionEffect DEF TypeOK
  <2>2. client'.sid = frame[t].sess.sid
    BY <2>1 DEF TokenOf
  <2> QED
    BY <1>0, <1>1, <2>1, <2>2, Writes
<1>7. CASE Authenticate(t) \/ AuthenticateFails(t)
  <2>1. pc[t] = "auth" /\ store' = store /\ open' = open
    BY <1>0, <1>7, AuthEffect DEF Still, tokens
  <2>2. CASE pc'[t] \in Plain /\ proton' = proton
    BY <1>0, <1>1, <2>1, <2>2, EmptyHanded
  <2>3. ASSUME NEW s \in Unused, NEW sc \in LoginScopes, pc'[t] = "saveCreds",
               frame'[t].sess.sid = s, frame'[t].sess.gen = 1,
               proton' = [proton EXCEPT ![s] = [gen |-> 1, live |-> TRUE, scope |-> sc]]
        PROVE  WriteInv' /\ NotRegressing
    <3>1. s \in Sids /\ proton[s].gen = 0
      BY <2>3 DEF Unused
    <3>2. Advances(s)
      BY <1>0, <2>3, <3>1, ProtonAdvances
    <3>3. proton'[s].gen = 1
      BY <3>1, <3>2 DEF Advances
    <3>4. \A u \in Threads \ {t} : pc[u] \in Pending \cup Adopting => frame[u].sess.sid # s
      BY <3>1 DEF WriteInv, WriteOf, Issued, Used, Handed
    <3>5. \A c \in open' : c.sid # s
      BY <2>1, <3>1 DEF WriteInv, Used
    <3>6. pc'[t] \notin Pending /\ pc'[t] # "refresh"
      BY <2>3 DEF Pending
    <3> QED
      BY <1>0, <2>1, <2>3, <3>1, <3>2, <3>3, <3>4, <3>5, <3>6, Issues
  <2> QED
    BY <1>0, <1>7, <2>2, <2>3, AuthEffect
<1>8. CASE PersistCreds(t)
  <2>1. /\ pc[t] = "saveCreds" /\ proton' = proton /\ open' = open
        /\ store'.sess = store.sess
        /\ \/ pc'[t] \in Plain \cup {"rollback"}
           \/ pc'[t] = "saveSess" /\ frame'[t] = frame[t]
    BY <1>0, <1>8, PersistCredsEffect DEF tokens, TypeOK
  <2>2. CASE pc'[t] \in Plain \cup {"rollback"}
    BY <1>0, <1>1, <2>1, <2>2, EmptyHanded
  <2>3. CASE pc'[t] = "saveSess" /\ frame'[t] = frame[t]
    <3>1. WriteOf(t)'
      BY <1>0, <2>1, <2>3 DEF WriteOf, Issued, Used, Handed, Pending, Adopting
    <3>2. ASSUME NEW u \in Threads, u # t PROVE Apart(t, u)' /\ Apart(u, t)'
      <4>1. pc'[u] = pc[u] /\ frame'[u] = frame[u] /\ Apart(t, u)
        BY <1>0, <3>2 DEF Alone, WriteInv
      <4> QED
        BY <2>1, <2>3, <4>1 DEF Apart, Pending, Adopting
    <3> QED
      BY <1>0, <2>1, <3>1, <3>2, TakesInHand
  <2> QED
    BY <2>1, <2>2, <2>3
<1>9. CASE Rollback(t) \/ LogoutCall(t) \/ LogoutClear(t)
  <2>1. /\ pc'[t] \in Plain \cup {"logoutClear"} /\ proton' = proton /\ open' \subseteq open
        /\ store'.sess \in {store.sess, NoSession}
    <3>1. EmptyStore.sess = NoSession
      BY DEF EmptyStore
    <3>2. CASE Rollback(t)
      BY <1>0, <3>1, <3>2, RollbackEffect DEF tokens
    <3>3. CASE LogoutCall(t)
      BY <1>0, <3>3, LogoutEffect DEF LogoutCall
    <3>4. CASE LogoutClear(t)
      BY <1>0, <3>1, <3>4, LogoutEffect DEF LogoutClear, tokens
    <3> QED
      BY <1>9, <3>2, <3>3, <3>4
  <2> QED
    BY <1>0, <1>1, <2>1, EmptyHanded
<1>10. CASE LibraryRotates(t)
  <2>1. pc[t] = "idle" /\ store' = store
    BY <1>0, <1>10, RotateEffect
  <2>2. PICK c \in open :
          /\ c \in Tokens /\ c.sid \in Sids /\ ~HandlingRotationOf(c)
          /\ proton[c.sid].gen = c.gen /\ proton' = Rotated(c.sid)
          /\ \/ UNCHANGED <<client, open, pc, frame>>
             \/ /\ open' = (open \ {c}) \cup {NextToken(c)}
                /\ pc'[t] = "rotated" /\ TokenOf(frame'[t].sess) = NextToken(c)
    BY <1>0, <1>10, RotateEffect
  <2>3. Advances(c.sid)
    BY <1>0, <2>2, ProtonAdvances
  <2>4. ASSUME NEW u \in Threads \ {t}, pc[u] \in Pending \cup Adopting
        PROVE  frame[u].sess.sid # c.sid
    <3>1. WriteOf(u)
      BY DEF WriteInv
    <3>2. CASE pc[u] \in Adopting
      BY <3>1, <3>2 DEF WriteOf
    <3>3. CASE pc[u] \in Pending
      <4>1. pc[u] \in RotationLabels /\ frame[u].sess.gen = proton[frame[u].sess.sid].gen
        BY <3>1, <3>3 DEF Pending, RotationLabels, WriteOf
      <4>2. frame[u].sess.sid = c.sid => TokenOf(frame[u].sess) = c
        BY <2>2, <4>1 DEF TokenOf, Tokens
      <4> QED
        BY <2>2, <4>1, <4>2 DEF HandlingRotationOf
    <3> QED
      BY <2>4, <3>2, <3>3
  <2>5. NextToken(c).sid = c.sid /\ NextToken(c).gen = c.gen + 1
    BY <2>2 DEF NextToken, Tokens
  <2>6. CASE UNCHANGED <<client, open, pc, frame>>
    <3>1. pc'[t] \notin Handed
      BY <2>1, <2>6 DEF Handed, Pending, Adopting
    <3>2. \A d \in open' : d \in open \/ d.sid = c.sid
      BY <2>6
    <3> QED
      BY <1>0, <2>1, <2>2, <2>3, <2>4, <3>1, <3>2, Issues DEF Handed
  <2>7. CASE /\ open' = (open \ {c}) \cup {NextToken(c)}
             /\ pc'[t] = "rotated" /\ TokenOf(frame'[t].sess) = NextToken(c)
    <3>1. frame'[t].sess.sid = c.sid /\ frame'[t].sess.gen = c.gen + 1
      BY <2>5, <2>7 DEF TokenOf
    <3>2. proton'[c.sid].gen = c.gen + 1
      BY <2>2, <2>3 DEF Advances
    <3>3. \A d \in open' : d \in open \/ d.sid = c.sid
      BY <2>5, <2>7
    <3>4. pc'[t] \notin Adopting /\ pc'[t] # "refresh"
      BY <2>7 DEF Adopting
    <3> QED
      BY <1>0, <2>1, <2>2, <2>3, <2>4, <2>7, <3>1, <3>2, <3>3, <3>4, Issues
  <2> QED
    BY <2>2, <2>6, <2>7
<1>11. CASE RotatedApply(t)
  <2>1. /\ pc[t] = "rotated" /\ pc'[t] = "rotSave" /\ mu = NoThread
        /\ TokenOf(frame'[t].sess) = TokenOf(frame[t].sess)
        /\ open' = open /\ store' = store /\ proton' = proton
    BY <1>0, <1>11, ApplyEffect
  <2>2. frame'[t].sess.sid = frame[t].sess.sid /\ frame'[t].sess.gen = frame[t].sess.gen
    BY <2>1 DEF TokenOf
  <2>3. WriteOf(t)'
    BY <1>0, <2>1, <2>2 DEF WriteOf, Issued, Used, Handed, Pending, Adopting
  <2>4. ASSUME NEW u \in Threads, u # t PROVE Apart(t, u)' /\ Apart(u, t)'
    <3>1. /\ pc'[u] = pc[u] /\ frame'[u] = frame[u] /\ Apart(t, u) /\ Apart(u, t)
      BY <1>0, <2>4 DEF Alone, WriteInv
    <3>2. pc[u] # "saveCold"
      BY <2>1, ThreadsAssumption DEF ThreadsAssumption, LockInv, Discipline, Critical
    <3> QED
      BY <2>1, <2>2, <3>1, <3>2 DEF Apart, Pending, Adopting
  <2> QED
    BY <1>0, <2>1, <2>3, <2>4, TakesInHand
<1>12. CASE RotatedSave(t)
  <2>1. /\ pc[t] = "rotSave" /\ pc'[t] \in {"rotSaved", "rotFailed"} /\ proton' = proton
        /\ open' = open /\ store'.sess \in {store.sess, frame[t].sess}
    BY <1>0, <1>12, RotSaveEffect DEF tokens, TypeOK
  <2> QED
    BY <1>0, <1>1, <2>1, Writes
<1> QED
  BY AllSteps, <1>2, <1>3, <1>4, <1>5, <1>6, <1>7, <1>8, <1>9, <1>10, <1>11, <1>12

LEMMA WriteInit == Init => WriteInv
<1> SUFFICES ASSUME Init PROVE WriteInv
  OBVIOUS
<1>1. /\ open = {} /\ \A u \in Threads : pc[u] = "idle"
  BY DEF Init, FreshMemory
<1>2. store.sess = NoSession \/ Issued(store.sess)
  <2>1. ASSUME NEW sc \in InitScopes, NEW live \in BOOLEAN, NEW in \in LoginInputs,
               store = [creds |-> in, sess |-> [sid |-> 1, gen |-> 1, scope |-> sc]],
               proton = [s \in Sids |->
                 IF s = 1 THEN [gen |-> 1, live |-> live,
                                scope |-> IF sc = "" THEN "full" ELSE sc]
                          ELSE [gen |-> 0, live |-> FALSE, scope |-> ""]]
        PROVE  Issued(store.sess)
    <3>1. 1 \in Sids
      BY BoundsAssumption DEF BoundsAssumption, Sids
    <3>2. store.sess.sid = 1 /\ store.sess.gen = 1
      BY <2>1
    <3>3. proton[1].gen = 1
      BY <2>1, <3>1
    <3> QED
      BY <3>1, <3>2, <3>3 DEF Issued, Used
  <2>2. CASE store = EmptyStore
    BY <2>2 DEF EmptyStore
  <2> QED
    BY <2>1, <2>2 DEF Init, EmptyStore
<1> QED
  BY <1>1, <1>2 DEF WriteInv, WriteOf, Apart, Handed, Pending, Adopting

\* No write puts an older generation of a session over a newer one, whatever
\* the process does: the saves of Client, of Login and the relogins, and of
\* OnAuthRotated, which saves without mu and in any number of goroutines.
THEOREM NeverRegresses == Spec => PersistedNeverRegresses
<1>1. LockInv /\ WriteInv /\ LockInv' /\ [Next]_vars => WriteInv' /\ [NotRegressing]_store
  <2> SUFFICES ASSUME LockInv, WriteInv, LockInv', [Next]_vars
               PROVE  WriteInv' /\ [NotRegressing]_store
    OBVIOUS
  <2>0. TypeOK
    BY DEF LockInv
  <2>1. CASE Restart
    <3>1. open' = {} /\ store' = store /\ proton' = proton /\ \A u \in Threads : pc'[u] = "idle"
      BY <2>1 DEF Restart
    <3> QED
      BY <3>1 DEF WriteInv, WriteOf, Apart, Issued, Used, Handed, Pending, Adopting
  <2>2. CASE Revoke \/ UNCHANGED vars
    <3>1. UNCHANGED <<open, store, pc, frame>>
      BY <2>2 DEF Revoke, vars, tokens
    <3>2. \A s \in Sids : proton'[s].gen = proton[s].gen
      BY <2>0, <2>2 DEF Revoke, vars, TypeOK, ProtonSessions
    <3>3. \A b : Issued(b)' = Issued(b)
      BY <3>2 DEF Issued, Used
    <3>4. \A u \in Threads : WriteOf(u)'
      BY <3>1, <3>2, <3>3 DEF WriteInv, WriteOf, Issued, Used, Handed
    <3> QED
      BY <3>1, <3>2, <3>3, <3>4 DEF WriteInv, Apart, Used
  <2>3. CASE \E t \in Threads : Step(t) \/ Call(t)
    BY <2>3, WriteStep
  <2> QED
    BY <2>1, <2>2, <2>3 DEF Next
<1>2. [NotRegressing]_store
        => [store'.sess.sid = store.sess.sid => store'.sess.gen >= store.sess.gen]_store
  BY DEF NotRegressing
<1> QED
  BY <1>1, <1>2, WriteInit, LocksHeld, PTL DEF Spec, PersistedNeverRegresses

-----------------------------------------------------------------------------
(* The store and the degraded flag: in a process that only uses its        *)
(* session (the first client, its cold starts and its rotations, restarts  *)
(* and revocations), the store trails the client by what the flag admits.  *)
(* (With a self-heal or a login that replaces a live client, the handler   *)
(* of the replaced one writes too: see the findings.)                      *)

CustodyProfile == Ops \subseteq {"Client", "Raw", "Rotate", "Restart", "Revoke"}

\* Positions without a client, holding mu; and those at which a thread has
\* nothing of the session in its hands.
ColdLabels == {"refresh", "saveCold"} \cup LoginLabels
CalmLabels == {"idle", "client", "clientLock"}

Rotating == \E t \in Threads : pc[t] \in RotationLabels

CustodyOf(t) ==
  /\ pc[t] \in CalmLabels \cup ColdLabels \cup RotationLabels
  /\ pc[t] \in {"client", "clientLock"} \cup ColdLabels => frame[t].phase = "direct"
  /\ pc[t] \in LoginLabels => frame[t].why = "cold"
  /\ pc[t] \in ColdLabels => client = NoToken
  /\ pc[t] = "refresh" => frame[t].sess = store.sess
  /\ pc[t] = "saveCold" => /\ Used(frame[t].sess.sid)
                           /\ store.sess.sid = frame[t].sess.sid
                           /\ store.sess.gen <= frame[t].sess.gen
  /\ pc[t] \in {"saveCreds", "saveSess"} => /\ Used(frame[t].sess.sid)
                                            /\ store.sess.sid # frame[t].sess.sid
  /\ pc[t] \in RotationLabels => client # NoToken /\ TokenOf(frame[t].sess) = client
  /\ pc[t] = "rotSaved" => ~hist.saveFailed /\ TokenOf(store.sess) = client
  /\ pc[t] = "rotFailed" => hist.saveFailed

TrailOK ==
  /\ client = NoToken => open = {}
  /\ client # NoToken => open = {client} /\ Used(client.sid)
  /\ store.sess.sid # 0 => Used(store.sess.sid)
  /\ store.sess.sid = 0 => store.sess.gen = 0
  /\ client # NoToken /\ store.sess.sid = client.sid => store.sess.gen <= client.gen

FlagOK ==
  client # NoToken /\ ~Rotating =>
    /\ persistDegraded <=> hist.saveFailed
    /\ ~persistDegraded => TokenOf(store.sess) = client

CustodyInv ==
  /\ LockInv /\ TrailOK /\ FlagOK
  /\ \A t, u \in Threads : pc[t] \in RotationLabels /\ pc[u] \in RotationLabels => t = u
  /\ \A t \in Threads : CustodyOf(t)

\* Proton forgets no session it has created.
Grows == \A s : Used(s) => Used(s)'

LEMMA ProtonGrows ==
  ASSUME TypeOK,
         \/ proton' = proton \/ \E s \in Sids : proton' = Rotated(s)
         \/ \E s \in Sids, sc \in LoginScopes :
              proton' = [proton EXCEPT ![s] = [gen |-> 1, live |-> TRUE, scope |-> sc]]
  PROVE  Grows
<1>1. proton \in [Sids -> ProtonSessions] /\ \A s \in Sids : proton[s].gen \in Nat
  BY BoundsAssumption DEF TypeOK, ProtonSessions, BoundsAssumption
<1>2. CASE proton' = proton
  BY <1>2 DEF Grows, Used
<1>3. ASSUME NEW s \in Sids, proton' = Rotated(s) PROVE Grows
  <2>1. \A r \in Sids : proton'[r].gen = IF r = s THEN proton[r].gen + 1 ELSE proton[r].gen
    BY <1>1, <1>3 DEF Rotated, ProtonSessions
  <2> QED
    BY <1>1, <2>1 DEF Grows, Used
<1>4. ASSUME NEW s \in Sids, NEW sc \in LoginScopes,
             proton' = [proton EXCEPT ![s] = [gen |-> 1, live |-> TRUE, scope |-> sc]]
      PROVE  Grows
  <2>1. \A r \in Sids : proton'[r].gen = IF r = s THEN 1 ELSE proton[r].gen
    BY <1>1, <1>4
  <2> QED
    BY <1>1, <2>1 DEF Grows, Used
<1> QED
  BY <1>2, <1>3, <1>4

\* A thread in the cold start or in OnAuthRotated is the only one with the
\* session in its hands: the one has mu and there is no client, the other has
\* the client's own tokens.
LEMMA AloneAtWork ==
  ASSUME CustodyInv, NEW t \in Threads, NEW u \in Threads, u # t,
         pc[t] \in ColdLabels \cup RotationLabels
  PROVE  pc[u] \in CalmLabels
<1>1. CustodyOf(t) /\ CustodyOf(u) /\ Discipline(t) /\ Discipline(u)
  BY DEF CustodyInv, LockInv
<1>2. pc[u] \in ColdLabels => pc[t] \notin ColdLabels
  BY <1>1 DEF Discipline, ColdLabels, Critical
<1>3. pc[u] \in RotationLabels => pc[t] \notin RotationLabels
  BY DEF CustodyInv
<1> QED
  BY <1>1, <1>2, <1>3 DEF CustodyOf

LEMMA OthersKeepCustody ==
  ASSUME CustodyInv, NEW t \in Threads, NEW u \in Threads, u # t, Alone(t), Grows,
         (client' = client /\ store' = store /\ hist'.saveFailed = hist.saveFailed)
           \/ pc[u] \in CalmLabels
  PROVE  CustodyOf(u)'
<1>1. pc'[u] = pc[u] /\ frame'[u] = frame[u] /\ CustodyOf(u)
  BY DEF Alone, CustodyInv
<1>2. CASE client' = client /\ store' = store /\ hist'.saveFailed = hist.saveFailed
  BY <1>1, <1>2 DEF CustodyOf, Grows
<1>3. CASE pc[u] \in CalmLabels
  BY <1>1, <1>3 DEF CustodyOf, CalmLabels, ColdLabels, LoginLabels, RotationLabels
<1> QED
  BY <1>2, <1>3

\* A step that moves nothing between memory, the store and the flag.
CustodyKept ==
  /\ TrailOK' /\ FlagOK'
  /\ \A t, u \in Threads : pc'[t] \in RotationLabels /\ pc'[u] \in RotationLabels => t = u
  /\ \A t \in Threads : CustodyOf(t)'

LEMMA StillCustody ==
  ASSUME CustodyInv, NEW t \in Threads, Alone(t), Still, Grows, CustodyOf(t)',
         pc[t] \notin RotationLabels, pc'[t] \notin RotationLabels
  PROVE  CustodyKept
<1>1. UNCHANGED <<client, open, store, persistDegraded>> /\ hist'.saveFailed = hist.saveFailed
  BY DEF Still, tokens
<1>2. \A u \in Threads : CustodyOf(u)'
  BY <1>1, OthersKeepCustody
<1>3. \A u \in Threads : pc'[u] \in RotationLabels <=> pc[u] \in RotationLabels
  BY DEF Alone
<1>4. TrailOK'
  BY <1>1 DEF CustodyInv, TrailOK, Grows
<1>5. FlagOK'
  BY <1>1, <1>3 DEF CustodyInv, FlagOK, Rotating
<1> QED
  BY <1>2, <1>3, <1>4, <1>5 DEF CustodyKept, CustodyInv

\* A step of the thread that has the session in its hands.
LEMMA WorkCustody ==
  ASSUME CustodyInv, NEW t \in Threads, Alone(t), Grows, CustodyOf(t)',
         pc[t] \in ColdLabels \cup RotationLabels, TrailOK',
         pc'[t] \notin RotationLabels => (client' # NoToken =>
            /\ persistDegraded' <=> hist'.saveFailed
            /\ ~persistDegraded' => TokenOf(store'.sess) = client')
  PROVE  CustodyKept
<1>1. \A u \in Threads : u # t => pc[u] \in CalmLabels /\ pc'[u] = pc[u]
  BY AloneAtWork DEF Alone
<1>2. \A u \in Threads : CustodyOf(u)'
  BY <1>1, OthersKeepCustody
<1>3. \A u \in Threads : pc'[u] \in RotationLabels => u = t
  BY <1>1 DEF CalmLabels, RotationLabels
<1>4. FlagOK'
  BY DEF FlagOK, Rotating
<1> QED
  BY <1>2, <1>3, <1>4 DEF CustodyKept

\* The calls and steps this process does not make.
LEMMA CustodySteps ==
  ASSUME CustodyProfile, CustodyInv, NEW t \in Threads, Step(t) \/ Call(t)
  PROVE  \/ ClientCall(t) \/ RawCall(t) \/ ClientFast(t) \/ ClientNoRefresh(t)
         \/ ClientLoad(t) \/ ClientRefresh(t) \/ ClientRefreshFails(t) \/ ClientRejected(t)
         \/ ClientSave(t) \/ ReloginLoadCreds(t) \/ Authenticate(t) \/ AuthenticateFails(t)
         \/ PersistCreds(t) \/ PersistSession(t) \/ PersistSessionFails(t) \/ Rollback(t)
         \/ LibraryRotates(t) \/ RotatedApply(t) \/ RotatedSave(t) \/ RotatedFlag(t)
<1>1. pc[t] \in CalmLabels \cup ColdLabels \cup RotationLabels
  BY DEF CustodyInv, CustodyOf
<1>2. ~KeyringSteps(t) /\ ~LogoutClear(t)
  BY <1>1 DEF KeyringSteps, UnlockAcquire, UnlockRecheck, UnlockSucceeds, UnlockDenied,
     UnlockFails, StoreKeyrings, DeniedDecides, HealRelogin, HealLatch, CalendarResolve,
     CalendarStore, LogoutClear, CalmLabels, ColdLabels, LoginLabels, RotationLabels
<1>3. ~LoginCall(t) /\ ~LogoutCall(t) /\ ~KeyringsCall(t) /\ ~CalendarCall(t)
  BY DEF CustodyProfile, LoginCall, LogoutCall, KeyringsCall, CalendarCall
<1> QED
  BY <1>2, <1>3 DEF Step, Call, ClientSteps, LoginSteps, RotationSteps

\* Where a thread that has nothing in its hands may be, and how a thread of
\* this process gets there: Client() was called by the tool itself.
LEMMA CalmSpot ==
  ASSUME NEW t \in Threads,
         pc'[t] = "idle" \/ (pc'[t] \in {"client", "clientLock"} /\ frame'[t].phase = "direct")
  PROVE  CustodyOf(t)' /\ pc'[t] \notin RotationLabels
BY DEF CustodyOf, CalmLabels, ColdLabels, LoginLabels, RotationLabels

LEMMA HomeBound ==
  ASSUME CustodyInv, NEW t \in Threads
  PROVE  /\ Return(t) => pc'[t] = "idle"
         /\ \A h : FailsOtherwise(t, h) => pc'[t] = "idle"
         /\ pc[t] \in LoginLabels => \A h : LoginFails(t, h) => pc'[t] = "idle"
         /\ \A s : frame[t].phase = "direct" /\ ClientReturns(t, s) => pc'[t] = "idle"
<1>1. TypeOK /\ CustodyOf(t)
  BY DEF CustodyInv, LockInv
<1>2. Return(t) => pc'[t] = "idle"
  BY <1>1, ReturnMoves DEF Returned
<1> QED
  BY <1>1, <1>2 DEF FailsOtherwise, LoginFails, ClientReturns, CustodyOf

\* Outside the cold start, the login path and OnAuthRotated.
LEMMA CalmCustody ==
  ASSUME CustodyInv, NEW t \in Threads, Alone(t),
         ClientCall(t) \/ RawCall(t) \/ ClientFast(t) \/ ClientNoRefresh(t)
  PROVE  CustodyKept
<1>0. TypeOK /\ CustodyOf(t)
  BY DEF CustodyInv, LockInv
<1>1. PlainStep(t)
  BY DEF PlainStep
<1>2. Still /\ proton' = proton
  BY <1>0, <1>1, PlainSteps
<1>3. pc[t] \in CalmLabels /\ (pc[t] \in {"client", "clientLock"} => frame[t].phase = "direct")
  BY <1>0 DEF ClientCall, RawCall, ClientFast, ClientNoRefresh, CalmLabels, CustodyOf
<1>4. pc'[t] = "idle" \/ (pc'[t] \in {"client", "clientLock"} /\ frame'[t].phase = "direct")
  <2>1. CASE ClientCall(t) \/ RawCall(t)
    <3>1. PICK g : g.phase = "direct" /\ Go(t, "client", g)
      BY <2>1, NoFramePhase DEF ClientCall, RawCall
    <3> QED
      BY <1>0, <3>1, GoMoves
  <2>2. CASE ClientFast(t)
    <3>1. frame[t].phase = "direct"
      BY <1>3, <2>2 DEF ClientFast
    <3>2. CASE Go(t, "clientLock", frame[t])
      BY <1>0, <3>1, <3>2, GoMoves
    <3> QED
      BY <2>2, <3>1, <3>2, HomeBound DEF ClientFast
  <2>3. CASE ClientNoRefresh(t)
    BY <1>3, <2>3, HomeBound DEF ClientNoRefresh
  <2> QED
    BY <2>1, <2>2, <2>3
<1>5. Grows /\ pc[t] \notin RotationLabels
  BY <1>0, <1>2, <1>3, ProtonGrows DEF CalmLabels, RotationLabels
<1> QED
  BY <1>2, <1>4, <1>5, CalmSpot, StillCustody

\* The cold start.
LEMMA ColdCustody ==
  ASSUME CustodyInv, NEW t \in Threads, Alone(t),
         \/ ClientLoad(t) \/ ClientRefresh(t) \/ ClientRefreshFails(t) \/ ClientRejected(t)
         \/ ClientSave(t)
  PROVE  CustodyKept
<1>0. TypeOK /\ CustodyOf(t) /\ TrailOK
  BY DEF CustodyInv, LockInv
<1> USE DEF ColdLabels, LoginLabels, RotationLabels
<1>1. CASE ClientLoad(t)
  <2>1. /\ pc[t] = "clientLock" /\ pc'[t] = "refresh" /\ SameCall(t) /\ Still
        /\ frame'[t].sess = store.sess /\ proton' = proton /\ client = NoToken
    BY <1>0, <1>1, LoadEffect
  <2>2. CustodyOf(t)'
    BY <1>0, <2>1 DEF CustodyOf, SameCall, Still, tokens
  <2> QED
    BY <1>0, <2>1, <2>2, ProtonGrows, StillCustody
<1>2. CASE ClientRefresh(t)
  <2>0. PICK b \in Bundles : b = frame[t].sess
    BY <1>0, FrameTyped
  <2> DEFINE s == b.sid
  <2>1. /\ pc[t] = "refresh" /\ pc'[t] = "saveCold" /\ SameCall(t) /\ Still
        /\ frame'[t].sess.sid = s /\ s \in Sids
        /\ \/ frame'[t].sess.gen = b.gen /\ proton' = proton
           \/ frame'[t].sess.gen = b.gen + 1 /\ proton' = Rotated(s)
    BY <1>0, <1>2, <2>0, RefreshEffect
  <2>2. Grows
    BY <1>0, <2>1, ProtonGrows
  <2>3. b = store.sess /\ Used(s) /\ b.gen \in Nat
    <3>1. b = store.sess
      BY <1>0, <2>0, <2>1 DEF CustodyOf
    <3> QED
      BY <1>0, <2>0, <2>1, <3>1, RealSession DEF TrailOK, Bundles
  <2>4. Used(s)' /\ store' = store /\ client' = client /\ client = NoToken
    BY <1>0, <2>1, <2>2, <2>3 DEF Grows, Still, tokens, CustodyOf
  <2>5. store'.sess.gen <= frame'[t].sess.gen
    BY <2>1, <2>3, <2>4
  <2>6. Used(frame[t].sess.sid)' /\ store'.sess.sid = frame'[t].sess.sid
    BY <2>0, <2>1, <2>3, <2>4 DEF Used
  <2>7. CustodyOf(t)'
    BY <1>0, <2>1, <2>4, <2>5, <2>6 DEF CustodyOf, SameCall
  <2> QED
    BY <2>1, <2>2, <2>7, StillCustody
<1>3. CASE ClientRefreshFails(t)
  <2>1. /\ pc[t] = "refresh" /\ Still
        /\ proton' = proton \/ \E s \in Sids : proton' = Rotated(s)
    BY <1>0, <1>3, RefreshFailsEffect
  <2>2. pc'[t] = "idle"
    BY <1>3, HomeBound DEF ClientRefreshFails
  <2> QED
    BY <1>0, <2>1, <2>2, ProtonGrows, CalmSpot, StillCustody
<1>4. CASE ClientRejected(t)
  <2>1. /\ pc[t] = "refresh" /\ Still /\ proton' = proton
        /\ \/ pc'[t] \in Plain
           \/ pc'[t] = "relogin" /\ frame'[t].phase = frame[t].phase /\ frame'[t].why = "cold"
    BY <1>0, <1>4, RejectedEffect
  <2>2. pc'[t] \in {"idle", "relogin"}
    <3>1. FailsOtherwise(t, hist) \/ \E g : Go(t, "relogin", g)
      BY <1>4 DEF ClientRejected
    <3> QED
      BY <1>0, <3>1, HomeBound, GoMoves
  <2>3. CustodyOf(t)'
    BY <1>0, <2>1, <2>2, CalmSpot DEF CustodyOf, Plain, Still, tokens
  <2> QED
    BY <1>0, <2>1, <2>2, <2>3, ProtonGrows, StillCustody
<1>5. CASE ClientSave(t)
  <2>0. PICK b \in Bundles : b = frame[t].sess
    BY <1>0, FrameTyped
  <2>1. /\ pc[t] = "saveCold" /\ proton' = proton /\ client' = TokenOf(b)
        /\ open' = open \cup {client'} /\ persistDegraded' = hist'.saveFailed
        /\ \/ ~persistDegraded' /\ store' = [store EXCEPT !.sess = b]
           \/ persistDegraded' /\ store' = store
    BY <1>0, <1>5, <2>0, SaveEffect
  <2>2. pc'[t] = "idle"
    BY <1>0, <1>5, <2>1, HomeBound DEF ClientSave, CustodyOf
  <2>3. /\ client = NoToken /\ Used(b.sid) /\ store.sess.sid = b.sid
        /\ store.sess.gen <= b.gen /\ b.gen \in Nat /\ store.sess.gen \in Nat
    BY <1>0, <2>0, <2>1 DEF CustodyOf, TypeOK, Bundles
  <2>4. client' # NoToken /\ client'.sid = b.sid /\ client'.gen = b.gen
    BY <2>1, <2>3, RealSession DEF Used, TokenOf
  <2>5. \/ ~persistDegraded' /\ store'.sess = b
        \/ persistDegraded' /\ store'.sess = store.sess
    BY <1>0, <2>1 DEF TypeOK
  <2>6. Grows
    BY <1>0, <2>1, ProtonGrows
  <2>7. Used(b.sid)' /\ b.sid # 0
    BY <2>3, <2>6, RealSession DEF Grows, Used
  <2>8. /\ store'.sess.sid = b.sid /\ store.sess.gen <= store'.sess.gen
        /\ store'.sess.gen <= b.gen
    BY <2>3, <2>5
  <2>9. TrailOK'
    <3>1. open' = {client'}
      BY <1>0, <2>1, <2>3 DEF TrailOK
    <3>2. Used(client.sid)' /\ Used(store.sess.sid)'
      BY <2>4, <2>7, <2>8 DEF Used
    <3> QED
      BY <2>4, <2>7, <2>8, <3>1, <3>2 DEF TrailOK
  <2> QED
    BY <2>1, <2>2, <2>5, <2>6, <2>9, CalmSpot, WorkCustody
<1> QED
  BY <1>1, <1>2, <1>3, <1>4, <1>5

\* The relogin of a cold start: there is no client, and the session it gets is
\* one the store has not seen.
LEMMA LoginCustody ==
  ASSUME CustodyInv, NEW t \in Threads, Alone(t),
         \/ ReloginLoadCreds(t) \/ Authenticate(t) \/ AuthenticateFails(t) \/ PersistCreds(t)
         \/ PersistSession(t) \/ PersistSessionFails(t) \/ Rollback(t)
  PROVE  CustodyKept
<1>0. TypeOK /\ CustodyOf(t) /\ TrailOK /\ frame[t].sess \in Bundles /\ store.sess \in Bundles
  BY FrameTyped DEF CustodyInv, LockInv, TypeOK
<1>1. /\ pc[t] \in LoginLabels /\ client = NoToken
      /\ frame[t].phase = "direct" /\ frame[t].why = "cold"
  <2>1. pc[t] \in LoginLabels
    BY DEF ReloginLoadCreds, Authenticate, AuthenticateFails, PersistCreds, PersistSession,
           PersistSessionFails, Rollback, LoginLabels
  <2> QED
    BY <1>0, <2>1 DEF CustodyOf, ColdLabels
<1>2. \A h : LoginFails(t, h) => pc'[t] = "idle"
  BY <1>1, HomeBound
<1>3. pc[t] \in ColdLabels /\ pc[t] \notin RotationLabels
  BY <1>1 DEF ColdLabels, LoginLabels, RotationLabels
<1> USE DEF ColdLabels, LoginLabels, RotationLabels
<1>4. CASE ReloginLoadCreds(t)
  <2>1. /\ Still /\ proton' = proton
        /\ pc'[t] \in Plain \/ (pc'[t] = "auth" /\ SameCall(t))
    BY <1>0, <1>4, ReloginEffect
  <2>2. pc'[t] \in {"idle", "auth"}
    <3>1. LoginFails(t, hist) \/ \E g : Go(t, "auth", g)
      BY <1>4 DEF ReloginLoadCreds
    <3> QED
      BY <1>0, <1>2, <3>1, GoMoves
  <2>3. CustodyOf(t)'
    BY <1>1, <2>1, <2>2, CalmSpot DEF CustodyOf, Plain, Still, tokens, SameCall
  <2> QED
    BY <1>0, <1>3, <2>1, <2>2, <2>3, ProtonGrows, StillCustody
<1>5. CASE AuthenticateFails(t)
  <2>1. Still /\ pc'[t] = "idle"
    BY <1>0, <1>2, <1>5, AuthEffect DEF AuthenticateFails
  <2>2. proton' = proton
    BY <1>5 DEF AuthenticateFails
  <2> QED
    BY <1>0, <1>3, <2>1, <2>2, CalmSpot, ProtonGrows, StillCustody
<1>6. CASE Authenticate(t)
  <2>1. Still /\ pc'[t] = "saveCreds" /\ SameCall(t)
        /\ \E s \in Unused, sc \in LoginScopes :
             /\ frame'[t].sess.sid = s
             /\ proton' = [proton EXCEPT ![s] = [gen |-> 1, live |-> TRUE, scope |-> sc]]
    <3>1. pc'[t] \notin Plain
      <4>1. \E g : Go(t, "saveCreds", g)
        BY <1>6 DEF Authenticate
      <4> QED
        BY <1>0, <4>1, GoMoves DEF Plain
    <3> QED
      BY <1>0, <1>6, <3>1, AuthEffect
  <2>2. PICK s \in Sids, sc \in LoginScopes :
          /\ proton[s].gen = 0 /\ frame'[t].sess.sid = s
          /\ proton' = [proton EXCEPT ![s] = [gen |-> 1, live |-> TRUE, scope |-> sc]]
    BY <2>1 DEF Unused
  <2>3. Grows
    BY <1>0, <2>2, ProtonGrows
  <2>4. Used(s)' /\ store'.sess.sid # s
    <3>1. proton'[s].gen = 1
      BY <1>0, <2>2 DEF TypeOK
    <3>2. store.sess.sid # s
      BY <1>0, <2>2, RealSession DEF TrailOK, Used
    <3> QED
      BY <2>1, <2>2, <3>1, <3>2 DEF Used, Still
  <2>5. Used(frame[t].sess.sid)' /\ store'.sess.sid # frame'[t].sess.sid
    BY <2>2, <2>4 DEF Used
  <2>6. CustodyOf(t)'
    BY <1>1, <2>1, <2>5 DEF CustodyOf, SameCall, Still, tokens
  <2> QED
    BY <1>3, <2>1, <2>3, <2>6, StillCustody
<1>7. CASE PersistCreds(t)
  <2>1. /\ pc[t] = "saveCreds" /\ proton' = proton /\ hist'.saveFailed = hist.saveFailed
        /\ UNCHANGED <<client, open>>
        /\ \/ pc'[t] = "saveSess" /\ frame'[t] = frame[t]
              /\ store' = [store EXCEPT !.creds = frame[t].input]
           \/ pc'[t] = "rollback" /\ frame'[t] = frame[t] /\ store' = store
           \/ pc'[t] \in Plain /\ store' = store
    BY <1>0, <1>7, PersistCredsEffect DEF tokens
  <2>2. pc'[t] \in {"saveSess", "rollback", "idle"}
    <3>1. LoginFails(t, hist) \/ \E l \in {"saveSess", "rollback"} : \E g : Go(t, l, g)
      BY <1>7 DEF PersistCreds
    <3> QED
      BY <1>0, <1>2, <3>1, GoMoves
  <2>3. store'.sess = store.sess
    BY <1>0, <2>1 DEF TypeOK
  <2>4. Grows
    BY <1>0, <2>1, ProtonGrows
  <2>5. Used(frame[t].sess.sid)' \/ frame'[t] # frame[t]
    BY <1>0, <2>1, <2>4 DEF CustodyOf, Grows, Used
  <2>6. CustodyOf(t)'
    BY <1>0, <1>1, <2>1, <2>2, <2>3, <2>5, CalmSpot DEF CustodyOf, Plain
  <2>7. TrailOK'
    BY <1>0, <1>1, <2>1, <2>3, <2>4 DEF TrailOK, Grows, Bundles
  <2> QED
    BY <1>1, <1>3, <2>1, <2>4, <2>6, <2>7, WorkCustody
<1>8. CASE PersistSession(t)
  <2>0. PICK b \in Bundles : b = frame[t].sess
    BY <1>0
  <2>1. /\ pc[t] = "saveSess" /\ proton' = proton /\ client' = TokenOf(b)
        /\ open' = open \cup {client'} /\ persistDegraded' = FALSE /\ hist'.saveFailed = FALSE
        /\ store' = [store EXCEPT !.sess = b]
    BY <1>0, <1>8, <2>0, PersistSessionEffect
  <2>2. pc'[t] = "idle"
    BY <1>1, <1>8, HomeBound DEF PersistSession
  <2>3. Used(b.sid) /\ store.sess.sid # b.sid /\ store'.sess = b
    BY <1>0, <2>0, <2>1 DEF CustodyOf, TypeOK
  <2>4. Grows
    BY <1>0, <2>1, ProtonGrows
  <2>5. /\ client' # NoToken /\ client'.sid = b.sid /\ client'.gen = b.gen
        /\ Used(b.sid)' /\ b.sid # 0 /\ b.gen \in Nat
    BY <2>0, <2>1, <2>3, <2>4, RealSession DEF Used, TokenOf, Grows, Bundles
  <2>6. TrailOK'
    <3>1. open' = {client'}
      BY <1>0, <1>1, <2>1 DEF TrailOK
    <3>2. Used(client.sid)' /\ Used(store.sess.sid)'
      BY <2>3, <2>5 DEF Used
    <3> QED
      BY <2>3, <2>5, <3>1, <3>2 DEF TrailOK
  <2> QED
    BY <1>3, <2>1, <2>2, <2>3, <2>4, <2>6, CalmSpot, WorkCustody
<1>9. CASE PersistSessionFails(t)
  <2>1. /\ proton' = proton /\ UNCHANGED <<client, open, store>>
        /\ \/ pc'[t] = "rollback" /\ frame'[t] = frame[t]
           \/ pc'[t] \in Plain
    BY <1>0, <1>9, PersistSessionFailsEffect DEF tokens
  <2>2. pc'[t] \in {"rollback", "idle"}
    <3>1. \/ LoginFails(t, [hist EXCEPT !.saveFailed = TRUE]) \/ \E g : Go(t, "rollback", g)
      BY <1>9 DEF PersistSessionFails
    <3> QED
      BY <1>0, <1>2, <3>1, GoMoves
  <2>3. CustodyOf(t)'
    BY <1>1, <2>1, <2>2, CalmSpot DEF CustodyOf, Plain
  <2>4. Grows
    BY <1>0, <2>1, ProtonGrows
  <2>5. TrailOK'
    BY <1>0, <1>1, <2>1, <2>4 DEF TrailOK, Grows, Bundles
  <2> QED
    BY <1>1, <1>3, <2>1, <2>3, <2>4, <2>5, WorkCustody
<1>10. CASE Rollback(t)
  <2>1. /\ proton' = proton /\ UNCHANGED <<client, open>>
        /\ store' = EmptyStore \/ store' = store
    BY <1>0, <1>10, RollbackEffect DEF tokens
  <2>2. pc'[t] = "idle"
    BY <1>2, <1>10 DEF Rollback
  <2>3. Grows
    BY <1>0, <2>1, ProtonGrows
  <2>4. (store'.sess.sid = 0 /\ store'.sess.gen = 0) \/ store' = store
    <3>1. EmptyStore.sess = NoSession /\ NoSession.sid = 0 /\ NoSession.gen = 0
      BY DEF EmptyStore, NoSession
    <3> QED
      BY <2>1, <3>1
  <2>5. TrailOK'
    BY <1>0, <1>1, <2>1, <2>3, <2>4 DEF TrailOK, Grows, Bundles
  <2> QED
    BY <1>1, <1>3, <2>1, <2>2, <2>3, <2>5, CalmSpot, WorkCustody
<1> QED
  BY <1>4, <1>5, <1>6, <1>7, <1>8, <1>9, <1>10

\* Token rotation: the library's step, then OnAuthRotated's three.
LEMMA RotationCustody ==
  ASSUME CustodyInv, NEW t \in Threads, Alone(t),
         LibraryRotates(t) \/ RotatedApply(t) \/ RotatedSave(t) \/ RotatedFlag(t)
  PROVE  CustodyKept
<1>0. TypeOK /\ CustodyOf(t) /\ TrailOK /\ frame[t].sess \in Bundles /\ store.sess \in Bundles
  BY FrameTyped DEF CustodyInv, LockInv, TypeOK
<1> USE DEF RotationLabels
<1>1. CASE LibraryRotates(t)
  <2>1. pc[t] = "idle" /\ UNCHANGED <<raw, current, store, persistDegraded, poisoned, hist>>
    BY <1>0, <1>1, RotateEffect
  <2>2. PICK c \in open :
          /\ c \in Tokens /\ c.sid \in Sids /\ ~HandlingRotationOf(c)
          /\ proton' = Rotated(c.sid)
          /\ \/ UNCHANGED <<client, open, pc, frame>>
             \/ /\ open' = (open \ {c}) \cup {NextToken(c)}
                /\ client' = IF client = c THEN NextToken(c) ELSE client
                /\ pc'[t] = "rotated" /\ TokenOf(frame'[t].sess) = NextToken(c)
    BY <1>0, <1>1, RotateEffect
  <2>3. client = c /\ client # NoToken /\ open = {c}
    BY <1>0, <2>2 DEF TrailOK
  <2>4. Grows
    BY <1>0, <2>2, ProtonGrows
  <2>5. CASE UNCHANGED <<client, open, pc, frame>>
    <3>1. Still /\ CustodyOf(t)'
      BY <1>0, <2>1, <2>5 DEF Still, tokens, CustodyOf
    <3> QED
      BY <2>1, <2>4, <2>5, <3>1, StillCustody
  <2>6. CASE /\ open' = (open \ {c}) \cup {NextToken(c)}
             /\ client' = IF client = c THEN NextToken(c) ELSE client
             /\ pc'[t] = "rotated" /\ TokenOf(frame'[t].sess) = NextToken(c)
    <3>1. /\ NextToken(c).sid = c.sid /\ NextToken(c).gen = c.gen + 1 /\ c.gen \in Nat
          /\ NextToken(c) # NoToken
      <4>1. NextToken(c).sid = c.sid /\ NextToken(c).gen = c.gen + 1 /\ c.gen \in Nat
        BY <2>2 DEF NextToken, Tokens
      <4> QED
        BY <2>2, <4>1, RealSession
    <3>2. client' = NextToken(c) /\ open' = {client'}
      BY <2>3, <2>6
    <3>3. CustodyOf(t)'
      BY <2>6, <3>1, <3>2 DEF CustodyOf, ColdLabels, LoginLabels
    <3>4. TrailOK'
      <4>1. Used(client.sid)'
        <5>1. Used(c.sid)'
          BY <1>0, <2>3, <2>4 DEF TrailOK, Grows
        <5> QED
          BY <3>1, <3>2, <5>1 DEF Used
      <4>2. store.sess.sid # 0 => Used(store.sess.sid)'
        BY <1>0, <2>1, <2>4 DEF TrailOK, Grows, Used
      <4>3. store.sess.gen \in Nat
        BY <1>0 DEF Bundles
      <4> QED
        BY <1>0, <2>1, <2>3, <3>1, <3>2, <4>1, <4>2, <4>3 DEF TrailOK, Used
    <3>5. \A u \in Threads : u # t => pc[u] \in CalmLabels /\ pc'[u] = pc[u]
      <4>1. ASSUME NEW u \in Threads, u # t PROVE pc[u] \in CalmLabels
        <5>1. CustodyOf(u)
          BY DEF CustodyInv
        <5>2. pc[u] \notin ColdLabels
          BY <2>3, <5>1 DEF CustodyOf
        <5>3. pc[u] \notin RotationLabels
          BY <2>2, <2>3, <5>1 DEF CustodyOf, HandlingRotationOf
        <5> QED
          BY <5>1, <5>2, <5>3 DEF CustodyOf
      <4> QED
        BY <4>1 DEF Alone
    <3>6. \A u \in Threads : CustodyOf(u)'
      BY <2>4, <3>3, <3>5, OthersKeepCustody
    <3>7. \A u \in Threads : pc'[u] \in RotationLabels => u = t
      BY <3>5 DEF CalmLabels
    <3>8. FlagOK'
      BY <2>6 DEF FlagOK, Rotating
    <3> QED
      BY <3>4, <3>5, <3>6, <3>7, <3>8 DEF CustodyKept
  <2> QED
    BY <2>2, <2>5, <2>6
<1>2. CASE RotatedApply(t)
  <2>1. /\ pc[t] = "rotated" /\ pc'[t] = "rotSave"
        /\ TokenOf(frame'[t].sess) = TokenOf(frame[t].sess)
        /\ UNCHANGED <<client, open, store, hist, proton>>
    BY <1>0, <1>2, ApplyEffect
  <2>2. CustodyOf(t)' /\ Grows
    BY <1>0, <2>1, ProtonGrows DEF CustodyOf, ColdLabels, LoginLabels
  <2>3. TrailOK'
    BY <1>0, <2>1 DEF TrailOK, Bundles, Used
  <2> QED
    BY <2>1, <2>2, <2>3, WorkCustody
<1>3. CASE RotatedSave(t)
  <2>0. PICK b \in Bundles : b = frame[t].sess
    BY <1>0
  <2>1. /\ pc[t] = "rotSave" /\ frame'[t] = frame[t] /\ UNCHANGED <<client, open, proton>>
        /\ \/ pc'[t] = "rotSaved" /\ ~hist'.saveFailed /\ store' = [store EXCEPT !.sess = b]
           \/ pc'[t] = "rotFailed" /\ hist'.saveFailed /\ store' = store
    BY <1>0, <1>3, <2>0, RotSaveEffect DEF tokens
  <2>2. /\ client # NoToken /\ TokenOf(b) = client
        /\ b.sid = client.sid /\ b.gen = client.gen /\ b.gen \in Nat
    <3>1. client # NoToken /\ TokenOf(b) = client
      BY <1>0, <2>0, <2>1 DEF CustodyOf
    <3> QED
      BY <2>0, <3>1 DEF TokenOf, Bundles
  <2>3. \/ pc'[t] = "rotSaved" /\ store'.sess = b
        \/ pc'[t] = "rotFailed" /\ store' = store
    BY <1>0, <2>1 DEF TypeOK
  <2>4. CustodyOf(t)' /\ Grows
    BY <1>0, <2>1, <2>2, <2>3, ProtonGrows DEF CustodyOf, ColdLabels, LoginLabels
  <2>5. TrailOK'
    <3>1. Used(b.sid) /\ b.sid # 0 /\ store.sess.gen \in Nat
      BY <1>0, <2>2, RealSession DEF TrailOK, Used, Bundles
    <3> QED
      BY <1>0, <2>1, <2>2, <2>3, <3>1 DEF TrailOK, Used
  <2> QED
    BY <2>1, <2>3, <2>4, <2>5, WorkCustody
<1>4. CASE RotatedFlag(t)
  <2>1. /\ pc[t] \in {"rotSaved", "rotFailed"} /\ persistDegraded' = (pc[t] = "rotFailed")
        /\ UNCHANGED <<client, open, store, hist, proton>>
    BY <1>0, <1>4, RotFlagEffect DEF tokens
  <2>2. pc'[t] = "idle"
    BY <1>4, HomeBound DEF RotatedFlag
  <2>3. TrailOK'
    BY <1>0, <2>1 DEF TrailOK, Bundles, Used
  <2>4. /\ persistDegraded' <=> hist'.saveFailed
        /\ ~persistDegraded' => TokenOf(store'.sess) = client'
    BY <1>0, <2>1 DEF CustodyOf
  <2> QED
    BY <1>0, <2>1, <2>2, <2>3, <2>4, CalmSpot, ProtonGrows, WorkCustody
<1> QED
  BY <1>1, <1>2, <1>3, <1>4

LEMMA CustodyStep ==
  ASSUME CustodyProfile, CustodyInv, LockInv', [Next]_vars
  PROVE  CustodyInv'
<1>1. ASSUME NEW t \in Threads, Step(t) \/ Call(t) PROVE CustodyKept
  <2>1. Alone(t)
    BY <1>1, Stepped DEF CustodyInv
  <2> QED
    BY <1>1, <2>1, CustodySteps, CalmCustody, ColdCustody, LoginCustody, RotationCustody
<1>2. CASE Restart
  <2>1. /\ client' = NoToken /\ open' = {} /\ UNCHANGED <<store, proton>>
        /\ \A u \in Threads : pc'[u] = "idle"
    BY <1>2 DEF Restart
  <2>2. TrailOK' /\ FlagOK' /\ \A u \in Threads : CustodyOf(u)'
    BY <2>1, CalmSpot DEF CustodyInv, TrailOK, FlagOK, Used
  <2> QED
    BY <2>1, <2>2 DEF CustodyInv, RotationLabels
<1>3. CASE Revoke \/ UNCHANGED vars
  <2>1. /\ UNCHANGED <<client, open, store, persistDegraded, pc, frame, hist>>
        /\ \A s \in Sids : proton'[s].gen = proton[s].gen
    <3>1. proton \in [Sids -> ProtonSessions]
      BY DEF CustodyInv, LockInv, TypeOK
    <3> QED
      BY <1>3, <3>1 DEF Revoke, vars, tokens, flags, ProtonSessions
  <2>2. \A u \in Threads : CustodyOf(u)'
    BY <2>1 DEF CustodyInv, CustodyOf, Used
  <2>3. TrailOK' /\ FlagOK'
    BY <2>1 DEF CustodyInv, TrailOK, FlagOK, Used, Rotating
  <2> QED
    BY <2>1, <2>2, <2>3 DEF CustodyInv
<1> QED
  BY <1>1, <1>2, <1>3 DEF Next, CustodyKept, CustodyInv

LEMMA CustodyInit == Init => CustodyInv
<1> SUFFICES ASSUME Init PROVE CustodyInv
  OBVIOUS
<1>1. /\ client = NoToken /\ open = {} /\ \A u \in Threads : pc[u] = "idle"
  BY DEF Init, FreshMemory
<1>2. \A u \in Threads : CustodyOf(u)
  BY <1>1 DEF CustodyOf, CalmLabels, ColdLabels, LoginLabels, RotationLabels
<1>3. /\ store.sess.sid # 0 => Used(store.sess.sid)
      /\ store.sess.sid = 0 => store.sess.gen = 0
  <2>1. CASE store = [creds |-> "none", sess |-> NoSession]
    BY <2>1 DEF NoSession
  <2>2. ASSUME NEW sc \in InitScopes, NEW live \in BOOLEAN, NEW in \in LoginInputs,
               store = [creds |-> in, sess |-> [sid |-> 1, gen |-> 1, scope |-> sc]],
               proton = [s \in Sids |->
                 IF s = 1 THEN [gen |-> 1, live |-> live,
                                scope |-> IF sc = "" THEN "full" ELSE sc]
                          ELSE [gen |-> 0, live |-> FALSE, scope |-> ""]]
        PROVE  /\ store.sess.sid # 0 => Used(store.sess.sid)
               /\ store.sess.sid = 0 => store.sess.gen = 0
    <3>1. 1 \in Sids
      BY BoundsAssumption DEF BoundsAssumption, Sids
    <3>2. store.sess.sid = 1
      BY <2>2
    <3>3. proton[1].gen = 1
      BY <2>2, <3>1
    <3> QED
      BY <3>1, <3>2, <3>3 DEF Used
  <2> QED
    BY <2>1, <2>2 DEF Init
<1> QED
  BY <1>1, <1>2, <1>3, InitDisciplined DEF CustodyInv, TrailOK, FlagOK, RotationLabels

LEMMA CustodyInvariant ==
  ASSUME CustodyProfile PROVE Spec => [](LockInv /\ CustodyInv)
<1>1. CustodyInv /\ LockInv' /\ [Next]_vars => CustodyInv'
  BY CustodyStep
<1> QED
  BY <1>1, CustodyInit, LocksHeld, PTL DEF Spec

\* In such a process, unless the session is flagged degraded, the store holds
\* the very tokens its client uses, whatever OnAuthRotated, the cold starts,
\* restarts, revocations and store failures did in between.
THEOREM NewestPersisted == ASSUME CustodyProfile PROVE Spec => []PersistedIsNewest
<1>1. CustodyInv => PersistedIsNewest
  BY DEF CustodyInv, FlagOK, PersistedIsNewest, Settled, Rotating
<1> QED
  BY <1>1, CustodyInvariant, PTL

\* There the degraded flag, which OnAuthRotated writes in a section of its own
\* after its unlocked save, agrees with the last write of all the writers.
THEOREM FlagExact == ASSUME CustodyProfile PROVE Spec => []DegradedIsExact
<1>1. CustodyInv => DegradedIsExact
  BY DEF CustodyInv, FlagOK, DegradedIsExact, Settled, Rotating
<1> QED
  BY <1>1, CustodyInvariant, PTL
=============================================================================
