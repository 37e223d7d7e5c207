------------------------- MODULE SessionLockProofs -------------------------
(***************************************************************************)
(* The lock discipline of Session, for every number of goroutines and      *)
(* every choice of operations and faults, and what it protects: keyrings   *)
(* are unlocked by one goroutine at a time, and a poisoned session is not  *)
(* started from the store.                                                 *)
(***************************************************************************)
EXTENDS SessionProofs

\* Positions between UnlockAcquire and the end of Keyrings, outside Client()
\* and the login path; positions inside Client().
UnlockLabels == {"recheck", "unlock", "storeKr", "denied", "heal", "latch"}
ClientLabels == {"client", "clientLock", "refresh", "saveCold"}

\* What holds of one thread at every point.  The two properties are not
\* inductive alone: that nobody else fills the cache or poisons the session
\* follows from who holds which lock, and that a thread coming back from
\* Client() or from a self-heal still holds unlockMu from the phase it keeps.
Discipline(t) ==
  /\ pc[t] \in Critical => mu = t
  /\ pc[t] \in UnlockLabels => Unlocking(t)
  /\ Unlocking(t) => unlockMu = t
  /\ Unlocking(t) /\ pc[t] # "recheck" => keyrings = 0
  /\ pc[t] \in ClientLabels => frame[t].phase # ""
  /\ pc[t] \in LoginLabels /\ frame[t].why = "cold" => frame[t].phase # ""
  /\ pc[t] \in LoginLabels /\ frame[t].why = "heal" => Unlocking(t)
  /\ pc[t] \in {"refresh", "saveCold"} => ~poisoned

LockInv == TypeOK /\ \A t \in Threads : Discipline(t)

\* A step of t moves no other thread.
Alone(t) == \A u \in Threads \ {t} : pc'[u] = pc[u] /\ frame'[u] = frame[u]

\* It takes and gives back unlockMu and mu for itself only, fills the cache of
\* keyrings only inside the unlockMu section and poisons the session only
\* inside a mu section.
Released(t) == unlockMu' = unlockMu \/ (unlockMu = t /\ unlockMu' = NoThread)
Guarded(t) ==
  /\ mu' = mu \/ (mu = t /\ mu' = NoThread) \/ (mu = NoThread /\ mu' = t)
  /\ keyrings' = keyrings \/ keyrings' = 0 \/ Unlocking(t)
  /\ poisoned' => poisoned \/ pc[t] \in Critical
Footprint(t) ==
  /\ Alone(t) /\ Guarded(t)
  /\ Released(t) \/ (unlockMu = NoThread /\ unlockMu' = t)

\* Where a step leaves its own thread: at another position of the same phase;
\* returned; out of Client(); after a failed login; out of Keyrings.
Moved(t, l) ==
  /\ pc'[t] = l /\ Alone(t)
  /\ Unlocking(t)' = Unlocking(t) /\ frame'[t].phase = frame[t].phase
Returned(t) == pc'[t] = "idle" /\ ~Unlocking(t)' /\ Alone(t) /\ Released(t)
ClientDone(t) ==
  /\ Alone(t) /\ Released(t)
  /\ \/ pc'[t] \in {"idle", "resolve"} /\ ~Unlocking(t)'
     \/ pc'[t] = "unlock" /\ Unlocking(t) /\ Unlocking(t)' /\ unlockMu' = unlockMu
LoginDone(t) ==
  \/ Returned(t)
  \/ /\ pc'[t] = "latch" /\ frame[t].why = "heal" /\ Alone(t)
     /\ Unlocking(t)' = Unlocking(t) /\ unlockMu' = unlockMu
KeyringsDone(t) ==
  \/ Returned(t)
  \/ /\ pc'[t] = "client" /\ frame'[t].phase = "calendar" /\ ~Unlocking(t)'
     /\ Alone(t) /\ Released(t)

\* The rely step of the argument: a thread keeps its discipline while another
\* one moves, because the two cannot hold the same lock.
LEMMA OthersKeepDiscipline ==
  ASSUME LockInv, NEW t \in Threads, NEW u \in Threads, u # t, Footprint(t)
  PROVE  Discipline(u)'
  <1>1. /\ pc'[u] = pc[u] /\ frame'[u] = frame[u]
        /\ Discipline(t) /\ Discipline(u)
        /\ t # NoThread /\ u # NoThread
    BY ThreadsAssumption DEF ThreadsAssumption, Footprint, Alone, LockInv
  <1>2. Unlocking(u)' = Unlocking(u)
    BY <1>1 DEF Unlocking
  <1>3. pc[u] \in Critical => mu' = u
    BY <1>1 DEF Discipline, Footprint, Guarded
  <1>4. Unlocking(u) => unlockMu' = u
    BY <1>1 DEF Discipline, Footprint, Released
  <1>5. Unlocking(u) /\ pc[u] # "recheck" => keyrings' = 0
    BY <1>1 DEF Discipline, Footprint, Guarded
  <1>6. pc[u] \in {"refresh", "saveCold"} => ~poisoned'
    BY <1>1 DEF Discipline, Footprint, Guarded, Critical
  <1>7. QED
    BY <1>1, <1>2, <1>3, <1>4, <1>5, <1>6 DEF Discipline

\* Go moves its own thread and no other; a move that keeps the phase keeps
\* the thread inside or outside the unlockMu section.
LEMMA GoMoves ==
  ASSUME TypeOK, NEW t \in Threads, NEW l, NEW f, Go(t, l, f)
  PROVE  /\ pc'[t] = l /\ frame'[t] = f /\ Alone(t)
         /\ f.phase = frame[t].phase => Moved(t, l)
         /\ f.phase \in {"unlock", "retry"} => Unlocking(t)'
         /\ f.phase \notin {"unlock", "retry"} => ~Unlocking(t)'
  <1>1. pc'[t] = l /\ frame'[t] = f /\ Alone(t)
    BY DEF TypeOK, Go, Alone
  <1>2. QED BY <1>1 DEF Unlocking, Moved

\* The frames calls begin with are outside the unlockMu section.
LEMMA NoFramePhase ==
  /\ NoFrame.phase = "" /\ NoFrame.why = ""
  /\ [NoFrame EXCEPT !.phase = "direct"].phase = "direct"
  /\ [NoFrame EXCEPT !.cal = TRUE].phase = ""
  /\ [NoFrame EXCEPT !.phase = "calendar", !.cal = TRUE].phase = "calendar"
  BY DEF NoFrame

\* A method that returns, with or without an error, has released unlockMu.
LEMMA ReturnMoves ==
  ASSUME TypeOK, NEW t \in Threads, Return(t)
  PROVE  Returned(t)
  BY GoMoves, NoFramePhase DEF Return, Returned, Released

\* Handing an error up returns from the method too.
LEMMA FailsMoves ==
  ASSUME TypeOK, NEW t \in Threads, NEW h, FailsOtherwise(t, h)
  PROVE  Returned(t)
  BY ReturnMoves DEF FailsOtherwise

\* Client() returns to a caller, to CalendarKeyring, or into the unlock, where
\* unlockMu is still held.
LEMMA ClientReturnMoves ==
  ASSUME TypeOK, NEW t \in Threads, NEW s, ClientReturns(t, s), frame[t].phase # ""
  PROVE  ClientDone(t)
  <1>1. CASE Return(t)
    BY <1>1, ReturnMoves DEF Returned, ClientDone
  <1>2. CASE ~Return(t)
    <2> DEFINE f == [frame[t] EXCEPT !.sid = s, !.why = "", !.input = "none", !.sess = NoSession]
               l == IF frame[t].phase = "calendar" THEN "resolve" ELSE "unlock"
    <2>1. Go(t, l, f) /\ frame[t].phase # "direct" /\ unlockMu' = unlockMu
      BY <1>2 DEF ClientReturns
    <2>2. /\ f.phase = frame[t].phase
          /\ frame[t].phase \in {"direct", "unlock", "retry", "calendar"}
      BY FrameTyped DEF Frames
    <2>3. pc'[t] = l /\ Unlocking(t)' = Unlocking(t) /\ Alone(t)
      <3>1. PICK g : g.phase = frame[t].phase /\ Go(t, l, g)
        BY <2>1, <2>2
      <3>2. QED BY <3>1, GoMoves DEF Moved
    <2>4. CASE frame[t].phase = "calendar"
      <3>1. ~Unlocking(t)
        BY <2>4 DEF Unlocking
      <3>2. QED BY <2>1, <2>3, <2>4, <3>1 DEF ClientDone, Released
    <2>5. CASE frame[t].phase # "calendar"
      <3>1. Unlocking(t)
        BY <2>1, <2>2, <2>5 DEF Unlocking
      <3>2. QED BY <2>1, <2>3, <2>5, <3>1 DEF ClientDone, Released
    <2>6. QED BY <2>4, <2>5
  <1>3. QED BY <1>1, <1>2

\* A failed login returns its error, or goes on to latch the self-heal with
\* unlockMu held as before.
LEMMA LoginFailsMoves ==
  ASSUME TypeOK, NEW t \in Threads, NEW h, LoginFails(t, h)
  PROVE  LoginDone(t) /\ mu' = NoThread
  <1>0. mu' = NoThread
    BY DEF LoginFails
  <1>1. CASE Go(t, "latch", frame[t]) /\ frame[t].why = "heal" /\ UNCHANGED unlockMu
    BY <1>0, <1>1, GoMoves DEF LoginDone, Moved
  <1>2. CASE Return(t)
    BY <1>0, <1>2, ReturnMoves DEF LoginDone
  <1>3. CASE FailsOtherwise(t, h)
    BY <1>0, <1>3, FailsMoves DEF LoginDone
  <1>4. QED BY <1>1, <1>2, <1>3 DEF LoginFails

\* Keyrings returns, or CalendarKeyring goes on to Client(); unlockMu is
\* released either way.
LEMMA KeyringsReturnMoves ==
  ASSUME TypeOK, NEW t \in Threads, KeyringsReturn(t)
  PROVE  KeyringsDone(t)
  <1>1. CASE Return(t)
    BY <1>1, ReturnMoves DEF KeyringsDone
  <1>2. CASE /\ Go(t, "client", [NoFrame EXCEPT !.phase = "calendar", !.cal = TRUE])
             /\ unlockMu' = IF unlockMu = t THEN NoThread ELSE unlockMu
    BY ZenonT(60), <1>2, GoMoves, NoFramePhase DEF KeyringsDone, Released
  <1>3. QED BY <1>1, <1>2 DEF KeyringsReturn

\* A thread that has returned breaks no discipline, nor does one that has come
\* out of Client(), of a failed login or of Keyrings the way these end.
LEMMA ReturnedIsDisciplined ==
  ASSUME NEW t \in Threads, Guarded(t), Returned(t)
  PROVE  Footprint(t) /\ Discipline(t)'
  <1>1. Footprint(t)
    BY DEF Footprint, Returned
  <1>2. Discipline(t)'
    BY DEF Returned, Discipline, Critical, LoginLabels, UnlockLabels, ClientLabels
  <1>3. QED BY <1>1, <1>2

\* The end of Client().
LEMMA ClientDoneIsDisciplined ==
  ASSUME NEW t \in Threads, Discipline(t), Guarded(t), ClientDone(t), pc[t] # "recheck",
         keyrings' = keyrings \/ keyrings' = 0
  PROVE  Footprint(t) /\ Discipline(t)'
  <1>1. Footprint(t)
    BY DEF Footprint, ClientDone
  <1>2. Discipline(t)'
    BY DEF ClientDone, Discipline, Critical, LoginLabels, UnlockLabels, ClientLabels
  <1>3. QED BY <1>1, <1>2

\* The end of a failed login.
LEMMA LoginDoneIsDisciplined ==
  ASSUME NEW t \in Threads, Discipline(t), Guarded(t), LoginDone(t), pc[t] \in LoginLabels,
         keyrings' = keyrings
  PROVE  Footprint(t) /\ Discipline(t)'
  <1>1. CASE Returned(t)
    BY <1>1, ReturnedIsDisciplined
  <1>2. CASE /\ pc'[t] = "latch" /\ frame[t].why = "heal" /\ Alone(t)
             /\ Unlocking(t)' = Unlocking(t) /\ unlockMu' = unlockMu
    <2>1. Footprint(t)
      BY <1>2 DEF Footprint, Released
    <2>2. Discipline(t)'
      BY <1>2 DEF Discipline, Critical, LoginLabels, UnlockLabels, ClientLabels
    <2>3. QED BY <2>1, <2>2
  <1>3. QED BY <1>1, <1>2 DEF LoginDone

\* The end of Keyrings.
LEMMA KeyringsDoneIsDisciplined ==
  ASSUME NEW t \in Threads, Guarded(t), KeyringsDone(t)
  PROVE  Footprint(t) /\ Discipline(t)'
  <1>1. CASE Returned(t)
    BY <1>1, ReturnedIsDisciplined
  <1>2. CASE /\ pc'[t] = "client" /\ frame'[t].phase = "calendar" /\ ~Unlocking(t)'
             /\ Alone(t) /\ Released(t)
    <2>1. Footprint(t)
      BY <1>2 DEF Footprint
    <2>2. Discipline(t)'
      BY <1>2 DEF Discipline, Critical, LoginLabels, UnlockLabels, ClientLabels
    <2>3. QED BY <2>1, <2>2
  <1>3. QED BY <1>1, <1>2 DEF KeyringsDone

\* A move within the same phase keeps the discipline if mu is held where the
\* new position needs it and the position belongs to the same section.
LEMMA MovedIsDisciplined ==
  ASSUME NEW t \in Threads, NEW l, Discipline(t), Guarded(t), Moved(t, l),
         unlockMu' = unlockMu, keyrings' = keyrings \/ keyrings' = 0,
         pc[t] # "recheck" \/ keyrings = 0, l # "recheck",
         l \in Critical => mu' = t,
         l \in UnlockLabels => Unlocking(t),
         l \in ClientLabels => frame[t].phase # "",
         l \in LoginLabels => /\ frame'[t].why = "cold" => frame[t].phase # ""
                              /\ frame'[t].why = "heal" => Unlocking(t),
         l \in {"refresh", "saveCold"} => ~poisoned'
  PROVE  Footprint(t) /\ Discipline(t)'
  <1>1. Footprint(t)
    BY DEF Footprint, Moved, Released
  <1>2. Discipline(t)'
    BY DEF Moved, Discipline
  <1>3. QED BY <1>1, <1>2

\* Whether a thread is inside the unlockMu section depends on its phase alone,
\* and while it is inside it never has an empty one.
LEMMA UnlockingPhase ==
  ASSUME NEW t \in Threads
  PROVE  /\ Unlocking(t) => frame[t].phase # ""
         /\ frame' = frame => Unlocking(t)' = Unlocking(t)
  BY DEF Unlocking

\* The steps of Client().
LEMMA ClientStepsDisciplined ==
  ASSUME LockInv, NEW t \in Threads, ClientSteps(t)
  PROVE  Footprint(t) /\ Discipline(t)'
  <1>0. TypeOK /\ Discipline(t) /\ t # NoThread /\ frame[t] \in Frames
    BY ThreadsAssumption DEF ThreadsAssumption, LockInv, TypeOK
  <1>1. CASE ClientFast(t)
    <2>1. CASE Go(t, "clientLock", frame[t]) /\ UNCHANGED unlockMu
      <3>1. /\ Guarded(t) /\ pc[t] = "client" /\ keyrings' = keyrings
            /\ unlockMu' = unlockMu
        BY <1>0, <1>1, <2>1
        DEF ClientFast, flags, caches, Guarded, Discipline, Critical, LoginLabels
      <3>2. Moved(t, "clientLock") /\ frame'[t].why = frame[t].why
        BY <1>0, <2>1, GoMoves
      <3>3. QED BY <1>0, <3>1, <3>2, MovedIsDisciplined
           DEF Discipline, Critical, LoginLabels, UnlockLabels, ClientLabels
    <2>2. CASE ClientReturns(t, client.sid)
      <3>1. Guarded(t) /\ pc[t] = "client" /\ keyrings' = keyrings
        BY <1>0, <1>1, <2>2
        DEF ClientFast, flags, caches, Guarded, Discipline, Critical, LoginLabels
      <3>2. ClientDone(t)
        BY <1>0, <2>2, <3>1, ClientReturnMoves DEF Discipline, ClientLabels, LoginLabels
      <3>3. QED BY <1>0, <3>1, <3>2, ClientDoneIsDisciplined
    <2>3. QED BY <1>0, <1>1, <2>1, <2>2 DEF ClientFast
  <1>2. CASE ClientNoRefresh(t)
    <2>1. CASE ClientReturns(t, client.sid)
      <3>1. Guarded(t) /\ pc[t] = "clientLock" /\ keyrings' = keyrings
        BY <1>0, <1>2, <2>1
        DEF ClientNoRefresh, flags, caches, Guarded, Discipline, Critical, LoginLabels
      <3>2. ClientDone(t)
        BY <1>0, <2>1, <3>1, ClientReturnMoves DEF Discipline, ClientLabels, LoginLabels
      <3>3. QED BY <1>0, <3>1, <3>2, ClientDoneIsDisciplined
    <2>2. CASE FailsOtherwise(t, hist)
      <3>1. Guarded(t) /\ pc[t] = "clientLock" /\ keyrings' = keyrings
        BY <1>0, <1>2, <2>2
        DEF ClientNoRefresh, flags, caches, Guarded, Discipline, Critical, LoginLabels
      <3>2. Returned(t)
        BY <1>0, <2>2, FailsMoves
      <3>3. QED BY <1>0, <3>1, <3>2, ReturnedIsDisciplined
    <2>3. QED BY <1>0, <1>2, <2>1, <2>2 DEF ClientNoRefresh
  <1>3. CASE ClientLoad(t)
    <2>1. /\ Guarded(t) /\ pc[t] = "clientLock" /\ keyrings' = keyrings
          /\ unlockMu' = unlockMu /\ mu' = t /\ ~poisoned'
      BY <1>0, <1>3
      DEF ClientLoad, flags, caches, Guarded, Discipline, Critical, LoginLabels
    <2>2. PICK x : Go(t, "refresh", [frame[t] EXCEPT !.sess = x])
      BY <1>3 DEF ClientLoad
    <2>3. /\ [frame[t] EXCEPT !.sess = x].phase = frame[t].phase
          /\ [frame[t] EXCEPT !.sess = x].why = frame[t].why
      BY <1>0 DEF Frames
    <2>4. Moved(t, "refresh") /\ frame'[t].why = frame[t].why
      BY ZenonT(60), <1>0, <2>2, <2>3, GoMoves
    <2>5. QED BY <1>0, <2>1, <2>4, MovedIsDisciplined
           DEF Discipline, Critical, LoginLabels, UnlockLabels, ClientLabels
  <1>4. CASE ClientRefresh(t)
    <2>1. /\ Guarded(t) /\ pc[t] = "refresh" /\ keyrings' = keyrings
          /\ unlockMu' = unlockMu /\ mu' = t /\ ~poisoned'
      BY <1>0, <1>4
      DEF ClientRefresh, locks, flags, caches, Guarded, Discipline, Critical,
          LoginLabels
    <2>2. PICK g : /\ g.phase = frame[t].phase /\ g.why = frame[t].why
                   /\ Go(t, "saveCold", g)
      <3>1. CASE Go(t, "saveCold", frame[t])
        BY <3>1
      <3>2. CASE \E x : Go(t, "saveCold", [frame[t] EXCEPT !.sess = x])
        <4>1. PICK x : Go(t, "saveCold", [frame[t] EXCEPT !.sess = x])
          BY <3>2
        <4>2. /\ [frame[t] EXCEPT !.sess = x].phase = frame[t].phase
              /\ [frame[t] EXCEPT !.sess = x].why = frame[t].why
          BY <1>0 DEF Frames
        <4>3. QED BY <4>1, <4>2
      <3>3. QED BY <1>4, <3>1, <3>2 DEF ClientRefresh
    <2>3. Moved(t, "saveCold") /\ frame'[t].why = frame[t].why
      BY <1>0, <2>2, GoMoves
    <2>4. QED BY <1>0, <2>1, <2>3, MovedIsDisciplined
         DEF Discipline, Critical, LoginLabels, UnlockLabels, ClientLabels
  <1>5. CASE ClientRefreshFails(t)
    <2>1. Guarded(t) /\ pc[t] = "refresh" /\ keyrings' = keyrings
      BY <1>0, <1>5
      DEF ClientRefreshFails, flags, caches, Guarded, Discipline, Critical, LoginLabels
    <2>2. Returned(t)
      BY <1>0, <1>5, FailsMoves DEF ClientRefreshFails
    <2>3. QED BY <1>0, <2>1, <2>2, ReturnedIsDisciplined
  <1>6. CASE ClientRejected(t)
    <2>1. CASE Go(t, "relogin", [frame[t] EXCEPT !.why = "cold"]) /\ UNCHANGED locks
      <3>1. /\ Guarded(t) /\ pc[t] = "refresh" /\ keyrings' = keyrings
            /\ unlockMu' = unlockMu /\ mu' = t
        BY <1>0, <1>6, <2>1
        DEF ClientRejected, locks, flags, caches, Guarded, Discipline, Critical,
            LoginLabels
      <3>2. /\ [frame[t] EXCEPT !.why = "cold"].phase = frame[t].phase
            /\ [frame[t] EXCEPT !.why = "cold"].why = "cold"
        BY <1>0 DEF Frames
      <3>3. Moved(t, "relogin") /\ frame'[t].why = "cold"
        BY ZenonT(60), <1>0, <2>1, <3>2, GoMoves
      <3>4. QED BY <1>0, <3>1, <3>3, MovedIsDisciplined
           DEF Discipline, Critical, LoginLabels, UnlockLabels, ClientLabels
    <2>2. CASE mu' = NoThread /\ FailsOtherwise(t, hist)
      <3>1. Guarded(t) /\ pc[t] = "refresh" /\ keyrings' = keyrings
        BY <1>0, <1>6, <2>2
        DEF ClientRejected, locks, flags, caches, Guarded, Discipline, Critical,
            LoginLabels
      <3>2. Returned(t)
        BY <1>0, <2>2, FailsMoves
      <3>3. QED BY <1>0, <3>1, <3>2, ReturnedIsDisciplined
    <2>3. QED BY <1>0, <1>6, <2>1, <2>2 DEF ClientRejected
  <1>7. CASE ClientSave(t)
    <2>1. Guarded(t) /\ pc[t] = "saveCold" /\ keyrings' = keyrings
      BY <1>0, <1>7 DEF ClientSave, caches, Guarded, Discipline, Critical, LoginLabels
    <2>2. ClientDone(t)
      BY <1>0, <1>7, ClientReturnMoves DEF ClientSave, Discipline, ClientLabels
    <2>3. QED BY <1>0, <2>1, <2>2, ClientDoneIsDisciplined
  <1>8. QED BY <1>1, <1>2, <1>3, <1>4, <1>5, <1>6, <1>7 DEF ClientSteps

\* The login path and Logout's second half.
LEMMA LoginStepsDisciplined ==
  ASSUME LockInv, NEW t \in Threads, LoginSteps(t)
  PROVE  Footprint(t) /\ Discipline(t)'
  <1>0. TypeOK /\ Discipline(t) /\ t # NoThread /\ frame[t] \in Frames
    BY ThreadsAssumption DEF ThreadsAssumption, LockInv, TypeOK
  <1>1. CASE ReloginLoadCreds(t)
    <2>1. CASE Go(t, "auth", [frame[t] EXCEPT !.input = store.creds]) /\ UNCHANGED locks
      <3>1. /\ Guarded(t) /\ pc[t] = "relogin" /\ keyrings' = keyrings
            /\ unlockMu' = unlockMu /\ mu' = t
        BY <1>0, <1>1, <2>1
        DEF ReloginLoadCreds, locks, caches, Guarded, Discipline, Critical, LoginLabels
      <3>2. /\ [frame[t] EXCEPT !.input = store.creds].phase = frame[t].phase
            /\ [frame[t] EXCEPT !.input = store.creds].why = frame[t].why
        BY <1>0 DEF Frames
      <3>3. Moved(t, "auth") /\ frame'[t].why = frame[t].why
        <4>1. PICK g : /\ g.phase = frame[t].phase /\ g.why = frame[t].why
                       /\ Go(t, "auth", g)
          BY <2>1, <3>2
        <4>2. QED BY <1>0, <4>1, GoMoves
      <3>4. QED BY <1>0, <3>1, <3>3, MovedIsDisciplined
           DEF Discipline, Critical, LoginLabels, UnlockLabels, ClientLabels
    <2>2. CASE LoginFails(t, hist)
      <3>1. Guarded(t) /\ pc[t] = "relogin" /\ keyrings' = keyrings
        BY <1>0, <1>1, <2>2, LoginFailsMoves
        DEF ReloginLoadCreds, locks, caches, Guarded, Discipline, Critical, LoginLabels
      <3>2. LoginDone(t)
        BY <1>0, <2>2, LoginFailsMoves
      <3>3. QED BY <1>0, <3>1, <3>2, LoginDoneIsDisciplined DEF LoginLabels
    <2>3. QED BY <1>0, <1>1, <2>1, <2>2 DEF ReloginLoadCreds
  <1>2. CASE Authenticate(t)
    <2>1. /\ Guarded(t) /\ pc[t] = "auth" /\ keyrings' = keyrings
          /\ unlockMu' = unlockMu /\ mu' = t
      BY <1>0, <1>2
      DEF Authenticate, locks, flags, caches, Guarded, Discipline, Critical, LoginLabels
    <2>2. PICK x : Go(t, "saveCreds", [frame[t] EXCEPT !.sess = x])
      BY <1>2 DEF Authenticate
    <2>3. /\ [frame[t] EXCEPT !.sess = x].phase = frame[t].phase
          /\ [frame[t] EXCEPT !.sess = x].why = frame[t].why
      BY <1>0 DEF Frames
    <2>4. Moved(t, "saveCreds") /\ frame'[t].why = frame[t].why
      BY ZenonT(60), <1>0, <2>2, <2>3, GoMoves
    <2>5. QED BY <1>0, <2>1, <2>4, MovedIsDisciplined
           DEF Discipline, Critical, LoginLabels, UnlockLabels, ClientLabels
  <1>3. CASE AuthenticateFails(t)
    <2>1. Guarded(t) /\ pc[t] = "auth" /\ keyrings' = keyrings
      BY <1>0, <1>3, LoginFailsMoves
      DEF AuthenticateFails, caches, Guarded, Discipline, Critical, LoginLabels
    <2>2. LoginDone(t)
      BY <1>0, <1>3, LoginFailsMoves DEF AuthenticateFails
    <2>3. QED BY <1>0, <2>1, <2>2, LoginDoneIsDisciplined DEF LoginLabels
  <1>4. CASE PersistCreds(t)
    <2>1. CASE Go(t, "saveSess", frame[t]) /\ UNCHANGED locks
      <3>1. /\ Guarded(t) /\ pc[t] = "saveCreds" /\ keyrings' = keyrings
            /\ unlockMu' = unlockMu /\ mu' = t
        BY <1>0, <1>4, <2>1
        DEF PersistCreds, locks, caches, Guarded, Discipline, Critical, LoginLabels
      <3>2. Moved(t, "saveSess") /\ frame'[t].why = frame[t].why
        BY <1>0, <2>1, GoMoves
      <3>3. QED BY <1>0, <3>1, <3>2, MovedIsDisciplined
           DEF Discipline, Critical, LoginLabels, UnlockLabels, ClientLabels
    <2>2. CASE Go(t, "rollback", frame[t]) /\ UNCHANGED locks
      <3>1. /\ Guarded(t) /\ pc[t] = "saveCreds" /\ keyrings' = keyrings
            /\ unlockMu' = unlockMu /\ mu' = t
        BY <1>0, <1>4, <2>2
        DEF PersistCreds, locks, caches, Guarded, Discipline, Critical, LoginLabels
      <3>2. Moved(t, "rollback") /\ frame'[t].why = frame[t].why
        BY <1>0, <2>2, GoMoves
      <3>3. QED BY <1>0, <3>1, <3>2, MovedIsDisciplined
           DEF Discipline, Critical, LoginLabels, UnlockLabels, ClientLabels
    <2>3. CASE LoginFails(t, hist)
      <3>1. Guarded(t) /\ pc[t] = "saveCreds" /\ keyrings' = keyrings
        BY <1>0, <1>4, <2>3, LoginFailsMoves
        DEF PersistCreds, locks, caches, Guarded, Discipline, Critical, LoginLabels
      <3>2. LoginDone(t)
        BY <1>0, <2>3, LoginFailsMoves
      <3>3. QED BY <1>0, <3>1, <3>2, LoginDoneIsDisciplined DEF LoginLabels
    <2>4. QED BY <1>0, <1>4, <2>1, <2>2, <2>3 DEF PersistCreds
  <1>5. CASE PersistSession(t)
    <2>1. CASE Return(t)
      <3>1. Guarded(t) /\ pc[t] = "saveSess" /\ keyrings' = 0
        BY <1>0, <1>5, <2>1
        DEF PersistSession, Guarded, Discipline, Critical, LoginLabels
      <3>2. Returned(t)
        BY <1>0, <2>1, ReturnMoves
      <3>3. QED BY <1>0, <3>1, <3>2, ReturnedIsDisciplined
    <2>2. CASE frame[t].why = "cold" /\ ClientReturns(t, frame[t].sess.sid)
      <3>1. Guarded(t) /\ pc[t] = "saveSess" /\ keyrings' = 0
        BY <1>0, <1>5, <2>2
        DEF PersistSession, Guarded, Discipline, Critical, LoginLabels
      <3>2. ClientDone(t)
        BY <1>0, <2>2, <3>1, ClientReturnMoves DEF Discipline, ClientLabels, LoginLabels
      <3>3. QED BY <1>0, <3>1, <3>2, ClientDoneIsDisciplined
    <2>3. CASE /\ frame[t].why = "heal"
               /\ Go(t, "client", [frame[t] EXCEPT !.phase = "retry", !.why = "",
                                        !.input = "none", !.sess = NoSession])
               /\ UNCHANGED unlockMu
      <3>1. Guarded(t) /\ pc[t] = "saveSess" /\ keyrings' = 0 /\ unlockMu' = unlockMu
        BY <1>0, <1>5, <2>3
        DEF PersistSession, Guarded, Discipline, Critical, LoginLabels
      <3>0. [frame[t] EXCEPT !.phase = "retry", !.why = "", !.input = "none",
                             !.sess = NoSession].phase = "retry"
        BY <1>0 DEF Frames
      <3>2. /\ /\ pc'[t] = "client" /\ frame'[t].phase = "retry" /\ Unlocking(t)'
            /\ Alone(t)
            /\ Unlocking(t)
        <4>1. PICK g : g.phase = "retry" /\ Go(t, "client", g)
          BY <2>3, <3>0
        <4>2. QED BY <1>0, <2>3, <3>1, <4>1, GoMoves DEF Discipline, LoginLabels
      <3>3. Footprint(t)
        BY <3>1, <3>2 DEF Footprint, Released
      <3>4. Discipline(t)'
        BY <1>0, <3>1, <3>2
        DEF Discipline, Critical, LoginLabels, UnlockLabels, ClientLabels
      <3>5. QED BY <3>3, <3>4
    <2>4. QED BY <1>0, <1>5, <2>1, <2>2, <2>3 DEF PersistSession
  <1>6. CASE PersistSessionFails(t)
    <2>1. CASE Go(t, "rollback", frame[t]) /\ UNCHANGED locks
      <3>1. /\ Guarded(t) /\ pc[t] = "saveSess" /\ keyrings' = keyrings
            /\ unlockMu' = unlockMu /\ mu' = t
        BY <1>0, <1>6, <2>1
        DEF PersistSessionFails, locks, caches, Guarded, Discipline, Critical,
            LoginLabels
      <3>2. Moved(t, "rollback") /\ frame'[t].why = frame[t].why
        BY <1>0, <2>1, GoMoves
      <3>3. QED BY <1>0, <3>1, <3>2, MovedIsDisciplined
           DEF Discipline, Critical, LoginLabels, UnlockLabels, ClientLabels
    <2>2. CASE LoginFails(t, [hist EXCEPT !.saveFailed = TRUE])
      <3>1. Guarded(t) /\ pc[t] = "saveSess" /\ keyrings' = keyrings
        BY <1>0, <1>6, <2>2, LoginFailsMoves
        DEF PersistSessionFails, locks, caches, Guarded, Discipline, Critical,
            LoginLabels
      <3>2. LoginDone(t)
        BY <1>0, <2>2, LoginFailsMoves
      <3>3. QED BY <1>0, <3>1, <3>2, LoginDoneIsDisciplined DEF LoginLabels
    <2>3. QED BY <1>0, <1>6, <2>1, <2>2 DEF PersistSessionFails
  <1>7. CASE Rollback(t)
    <2>1. Guarded(t) /\ pc[t] = "rollback" /\ keyrings' = keyrings
      BY <1>0, <1>7, LoginFailsMoves
      DEF Rollback, caches, Guarded, Discipline, Critical, LoginLabels
    <2>2. LoginDone(t)
      BY <1>0, <1>7, LoginFailsMoves DEF Rollback
    <2>3. QED BY <1>0, <2>1, <2>2, LoginDoneIsDisciplined DEF LoginLabels
  <1>8. CASE LogoutClear(t)
    <2>1. Guarded(t) /\ pc[t] = "logoutClear" /\ keyrings' = keyrings
      BY <1>0, <1>8
      DEF LogoutClear, flags, caches, Guarded, Discipline, Critical, LoginLabels
    <2>2. Returned(t)
      BY <1>0, <1>8, ReturnMoves DEF LogoutClear
    <2>3. QED BY <1>0, <2>1, <2>2, ReturnedIsDisciplined
  <1>9. QED BY <1>1, <1>2, <1>3, <1>4, <1>5, <1>6, <1>7, <1>8 DEF LoginSteps

\* OnAuthRotated.
LEMMA RotationStepsDisciplined ==
  ASSUME LockInv, NEW t \in Threads, RotationSteps(t)
  PROVE  Footprint(t) /\ Discipline(t)'
  <1>0. TypeOK /\ Discipline(t) /\ t # NoThread /\ frame[t] \in Frames
    BY ThreadsAssumption DEF ThreadsAssumption, LockInv, TypeOK
  <1>1. CASE RotatedApply(t)
    <2>1. /\ Guarded(t) /\ pc[t] = "rotated" /\ keyrings' = keyrings
          /\ unlockMu' = unlockMu
      BY <1>0, <1>1
      DEF RotatedApply, locks, flags, caches, Guarded, Discipline, Critical, LoginLabels
    <2>2. PICK x : Go(t, "rotSave", [frame[t] EXCEPT !.sess = x])
      BY <1>1 DEF RotatedApply
    <2>3. /\ [frame[t] EXCEPT !.sess = x].phase = frame[t].phase
          /\ [frame[t] EXCEPT !.sess = x].why = frame[t].why
      BY <1>0 DEF Frames
    <2>4. Moved(t, "rotSave") /\ frame'[t].why = frame[t].why
      BY ZenonT(60), <1>0, <2>2, <2>3, GoMoves
    <2>5. QED BY <1>0, <2>1, <2>4, MovedIsDisciplined
           DEF Discipline, Critical, LoginLabels, UnlockLabels, ClientLabels
  <1>2. CASE RotatedSave(t)
    <2>1. /\ Guarded(t) /\ pc[t] = "rotSave" /\ keyrings' = keyrings
          /\ unlockMu' = unlockMu
      BY <1>0, <1>2
      DEF RotatedSave, locks, flags, caches, Guarded, Discipline, Critical, LoginLabels
    <2>2. PICK l \in {"rotSaved", "rotFailed"} : Go(t, l, frame[t])
      BY <1>2 DEF RotatedSave
    <2>3. Moved(t, l)
      BY <1>0, <2>2, GoMoves
    <2>4. QED BY <1>0, <2>1, <2>2, <2>3, MovedIsDisciplined
         DEF Discipline, Critical, LoginLabels, UnlockLabels, ClientLabels
  <1>3. CASE RotatedFlag(t)
    <2>1. Guarded(t) /\ pc[t] \in {"rotSaved", "rotFailed"} /\ keyrings' = keyrings
      BY <1>0, <1>3 DEF RotatedFlag, caches, Guarded, Discipline, Critical, LoginLabels
    <2>2. Returned(t)
      BY <1>0, <1>3, ReturnMoves DEF RotatedFlag
    <2>3. QED BY <1>0, <2>1, <2>2, ReturnedIsDisciplined
  <1>4. QED BY <1>1, <1>2, <1>3 DEF RotationSteps

\* Keyrings, the scope self-heal and CalendarKeyring.
LEMMA KeyringStepsDisciplined ==
  ASSUME LockInv, NEW t \in Threads, KeyringSteps(t)
  PROVE  Footprint(t) /\ Discipline(t)'
  <1>0. TypeOK /\ Discipline(t) /\ t # NoThread /\ frame[t] \in Frames
    BY ThreadsAssumption DEF ThreadsAssumption, LockInv, TypeOK
  <1>1. CASE UnlockAcquire(t)
    <2>1. /\ Guarded(t) /\ pc[t] = "unlockMu" /\ keyrings' = keyrings
          /\ unlockMu = NoThread /\ unlockMu' = t
      BY <1>0, <1>1
      DEF UnlockAcquire, flags, caches, Guarded, Discipline, Critical, LoginLabels
    <2>2. [frame[t] EXCEPT !.phase = "unlock"].phase = "unlock"
      BY <1>0 DEF Frames
    <2>3. pc'[t] = "recheck" /\ Unlocking(t)' /\ Alone(t)
      BY ZenonT(60), <1>0, <1>1, <2>2, GoMoves DEF UnlockAcquire
    <2>4. Footprint(t)
      BY <2>1, <2>3 DEF Footprint
    <2>5. Discipline(t)'
      BY <2>1, <2>3 DEF Discipline, Critical, LoginLabels, UnlockLabels, ClientLabels
    <2>6. QED BY <2>4, <2>5
  <1>2. CASE UnlockRecheck(t)
    <2>1. CASE keyrings = 0 /\ Go(t, "client", frame[t]) /\ UNCHANGED unlockMu
      <3>1. /\ Guarded(t) /\ pc[t] = "recheck" /\ keyrings' = keyrings
            /\ unlockMu' = unlockMu /\ keyrings = 0
        BY <1>0, <1>2, <2>1
        DEF UnlockRecheck, flags, caches, Guarded, Discipline, Critical, LoginLabels
      <3>2. Moved(t, "client")
        BY <1>0, <2>1, GoMoves
      <3>3. Unlocking(t) /\ frame[t].phase # ""
        BY <1>0, <3>1, UnlockingPhase DEF Discipline, UnlockLabels
      <3>4. QED BY <1>0, <3>1, <3>2, <3>3, MovedIsDisciplined
           DEF Critical, LoginLabels, UnlockLabels, ClientLabels
    <2>2. CASE KeyringsReturn(t)
      <3>1. Guarded(t) /\ pc[t] = "recheck" /\ keyrings' = keyrings
        BY <1>0, <1>2, <2>2
        DEF UnlockRecheck, flags, caches, Guarded, Discipline, Critical, LoginLabels
      <3>2. KeyringsDone(t)
        BY <1>0, <2>2, KeyringsReturnMoves
      <3>3. QED BY <1>0, <3>1, <3>2, KeyringsDoneIsDisciplined
    <2>3. QED BY <1>0, <1>2, <2>1, <2>2 DEF UnlockRecheck
  <1>3. CASE UnlockSucceeds(t)
    <2>1. Guarded(t) /\ pc[t] = "unlock" /\ keyrings' = keyrings /\ unlockMu' = unlockMu
      BY <1>0, <1>3
      DEF UnlockSucceeds, locks, flags, caches, Guarded, Discipline, Critical,
          LoginLabels
    <2>2. Go(t, "storeKr", frame[t])
      BY <1>3 DEF UnlockSucceeds
    <2>3. frame[t].phase = frame[t].phase /\ frame[t].why = frame[t].why
      BY <1>0 DEF Frames
    <2>4. Moved(t, "storeKr") /\ frame'[t].why = frame[t].why
      BY <1>0, <2>2, <2>3, GoMoves
    <2>5. QED BY <1>0, <2>1, <2>4, MovedIsDisciplined
           DEF Discipline, Critical, LoginLabels, UnlockLabels, ClientLabels
  <1>4. CASE UnlockDenied(t)
    <2>1. Guarded(t) /\ pc[t] = "unlock" /\ keyrings' = keyrings /\ unlockMu' = unlockMu
      BY <1>0, <1>4
      DEF UnlockDenied, locks, flags, caches, Guarded, Discipline, Critical, LoginLabels
    <2>2. PICK l \in {"latch", "denied"} : Go(t, l, frame[t])
      BY <1>4 DEF UnlockDenied
    <2>3. Moved(t, l)
      BY <1>0, <2>2, GoMoves
    <2>4. QED BY <1>0, <2>1, <2>2, <2>3, MovedIsDisciplined
         DEF Discipline, Critical, LoginLabels, UnlockLabels, ClientLabels
  <1>5. CASE UnlockFails(t)
    <2>1. Guarded(t) /\ pc[t] = "unlock" /\ keyrings' = keyrings
      BY <1>0, <1>5
      DEF UnlockFails, flags, caches, Guarded, Discipline, Critical, LoginLabels
    <2>2. Returned(t)
      BY <1>0, <1>5, FailsMoves DEF UnlockFails
    <2>3. QED BY <1>0, <2>1, <2>2, ReturnedIsDisciplined
  <1>6. CASE StoreKeyrings(t)
    <2>1. Guarded(t)
      BY <1>0, <1>6 DEF StoreKeyrings, flags, Guarded, Discipline, UnlockLabels
    <2>2. KeyringsDone(t)
      BY <1>0, <1>6, KeyringsReturnMoves DEF StoreKeyrings
    <2>3. QED BY <2>1, <2>2, KeyringsDoneIsDisciplined
  <1>7. CASE DeniedDecides(t)
    <2>1. CASE Return(t)
      <3>1. Guarded(t) /\ pc[t] = "denied" /\ keyrings' = keyrings
        BY <1>0, <1>7, <2>1
        DEF DeniedDecides, flags, caches, Guarded, Discipline, Critical, LoginLabels
      <3>2. Returned(t)
        BY <1>0, <2>1, ReturnMoves
      <3>3. QED BY <1>0, <3>1, <3>2, ReturnedIsDisciplined
    <2>2. CASE Go(t, "heal", frame[t]) /\ UNCHANGED unlockMu
      <3>1. /\ Guarded(t) /\ pc[t] = "denied" /\ keyrings' = keyrings
            /\ unlockMu' = unlockMu
        BY <1>0, <1>7, <2>2
        DEF DeniedDecides, flags, caches, Guarded, Discipline, Critical, LoginLabels
      <3>2. Moved(t, "heal") /\ frame'[t].why = frame[t].why
        BY <1>0, <2>2, GoMoves
      <3>3. QED BY <1>0, <3>1, <3>2, MovedIsDisciplined
           DEF Discipline, Critical, LoginLabels, UnlockLabels, ClientLabels
    <2>3. QED BY <1>0, <1>7, <2>1, <2>2 DEF DeniedDecides
  <1>8. CASE HealRelogin(t)
    <2>1. /\ Guarded(t) /\ pc[t] = "heal" /\ keyrings' = keyrings
          /\ unlockMu' = unlockMu /\ mu' = t
      BY <1>0, <1>8
      DEF HealRelogin, flags, caches, Guarded, Discipline, Critical, LoginLabels
    <2>2. Go(t, "relogin", [frame[t] EXCEPT !.why = "heal", !.sid = 0])
      BY <1>8 DEF HealRelogin
    <2>3. /\ [frame[t] EXCEPT !.why = "heal", !.sid = 0].phase = frame[t].phase
          /\ [frame[t] EXCEPT !.why = "heal", !.sid = 0].why = "heal"
      BY <1>0 DEF Frames
    <2>4. Moved(t, "relogin") /\ frame'[t].why = "heal"
      <3>1. PICK g : g.phase = frame[t].phase /\ g.why = "heal" /\ Go(t, "relogin", g)
        BY <2>2, <2>3
      <3>2. QED BY <1>0, <3>1, GoMoves
    <2>5. QED BY <1>0, <2>1, <2>4, MovedIsDisciplined
           DEF Discipline, Critical, LoginLabels, UnlockLabels, ClientLabels
  <1>9. CASE HealLatch(t)
    <2>1. Guarded(t) /\ pc[t] = "latch" /\ keyrings' = keyrings
      BY <1>0, <1>9 DEF HealLatch, caches, Guarded, Discipline, Critical, LoginLabels
    <2>2. Returned(t)
      BY <1>0, <1>9, ReturnMoves DEF HealLatch
    <2>3. QED BY <1>0, <2>1, <2>2, ReturnedIsDisciplined
  <1>10. CASE CalendarResolve(t)
    <2>1. CASE Go(t, "storeCal", frame[t]) /\ UNCHANGED unlockMu
      <3>1. /\ Guarded(t) /\ pc[t] = "resolve" /\ keyrings' = keyrings
            /\ unlockMu' = unlockMu
        BY <1>0, <1>10, <2>1
        DEF CalendarResolve, flags, caches, Guarded, Discipline, Critical, LoginLabels
      <3>2. Moved(t, "storeCal") /\ frame'[t].why = frame[t].why
        BY <1>0, <2>1, GoMoves
      <3>3. QED BY <1>0, <3>1, <3>2, MovedIsDisciplined
           DEF Discipline, Critical, LoginLabels, UnlockLabels, ClientLabels
    <2>2. CASE FailsOtherwise(t, hist)
      <3>1. Guarded(t) /\ pc[t] = "resolve" /\ keyrings' = keyrings
        BY <1>0, <1>10, <2>2
        DEF CalendarResolve, flags, caches, Guarded, Discipline, Critical, LoginLabels
      <3>2. Returned(t)
        BY <1>0, <2>2, FailsMoves
      <3>3. QED BY <1>0, <3>1, <3>2, ReturnedIsDisciplined
    <2>3. QED BY <1>0, <1>10, <2>1, <2>2 DEF CalendarResolve
  <1>11. CASE CalendarStore(t)
    <2>1. Guarded(t) /\ pc[t] = "storeCal" /\ keyrings' = keyrings
      BY <1>0, <1>11
      DEF CalendarStore, flags, Guarded, Discipline, Critical, LoginLabels
    <2>2. Returned(t)
      BY <1>0, <1>11, ReturnMoves DEF CalendarStore
    <2>3. QED BY <1>0, <2>1, <2>2, ReturnedIsDisciplined
  <1>12. QED BY <1>1, <1>2, <1>3, <1>4, <1>5, <1>6, <1>7, <1>8, <1>9, <1>10, <1>11 DEF KeyringSteps

\* The first step of every call.
LEMMA CallsDisciplined ==
  ASSUME LockInv, NEW t \in Threads, Call(t)
  PROVE  Footprint(t) /\ Discipline(t)'
  <1>0. TypeOK /\ Discipline(t) /\ t # NoThread /\ frame[t] \in Frames
    BY ThreadsAssumption DEF ThreadsAssumption, LockInv, TypeOK
  <1>1. CASE ClientCall(t)
    <2>1. Guarded(t) /\ pc[t] = "idle" /\ keyrings' = keyrings /\ unlockMu' = unlockMu
      BY <1>0, <1>1
      DEF ClientCall, locks, flags, caches, Guarded, Discipline, Critical, LoginLabels
    <2>2. PICK f : Go(t, "client", f) /\ f.phase = "direct"
      BY <1>1, NoFramePhase DEF ClientCall
    <2>3. /\ pc'[t] = "client" /\ frame'[t].phase = "direct"
          /\ ~Unlocking(t)' /\ Alone(t)
      BY <1>0, <2>2, GoMoves
    <2>4. Footprint(t)
      BY <2>1, <2>3 DEF Footprint, Released
    <2>5. Discipline(t)'
      BY <2>1, <2>3 DEF Discipline, Critical, LoginLabels, UnlockLabels, ClientLabels
    <2>6. QED BY <2>4, <2>5
  <1>2. CASE RawCall(t)
    <2>1. Guarded(t) /\ pc[t] = "idle" /\ keyrings' = keyrings /\ unlockMu' = unlockMu
      BY <1>0, <1>2
      DEF RawCall, locks, flags, caches, Guarded, Discipline, Critical, LoginLabels
    <2>2. PICK f : Go(t, "client", f) /\ f.phase = "direct"
      BY <1>2, NoFramePhase DEF RawCall
    <2>3. /\ pc'[t] = "client" /\ frame'[t].phase = "direct"
          /\ ~Unlocking(t)' /\ Alone(t)
      BY <1>0, <2>2, GoMoves
    <2>4. Footprint(t)
      BY <2>1, <2>3 DEF Footprint, Released
    <2>5. Discipline(t)'
      BY <2>1, <2>3 DEF Discipline, Critical, LoginLabels, UnlockLabels, ClientLabels
    <2>6. QED BY <2>4, <2>5
  <1>3. CASE LoginCall(t)
    <2>1. /\ Guarded(t) /\ pc[t] = "idle" /\ keyrings' = keyrings
          /\ unlockMu' = unlockMu /\ mu' = t
      BY <1>0, <1>3
      DEF LoginCall, flags, caches, Guarded, Discipline, Critical, LoginLabels
    <2>2. PICK f : Go(t, "auth", f) /\ f.phase = "" /\ f.why = "login"
      <3>1. PICK in : Go(t, "auth", [NoFrame EXCEPT !.why = "login", !.input = in])
        BY <1>3 DEF LoginCall
      <3>2. /\ [NoFrame EXCEPT !.why = "login", !.input = in].phase = ""
            /\ [NoFrame EXCEPT !.why = "login", !.input = in].why = "login"
        BY DEF NoFrame
      <3>3. QED BY <3>1, <3>2
    <2>3. /\ pc'[t] = "auth" /\ frame'[t].phase = "" /\ frame'[t].why = "login"
          /\ ~Unlocking(t)' /\ Alone(t)
      BY <1>0, <2>2, GoMoves
    <2>4. Footprint(t)
      BY <2>1, <2>3 DEF Footprint, Released
    <2>5. Discipline(t)'
      BY <2>1, <2>3 DEF Discipline, Critical, LoginLabels, UnlockLabels, ClientLabels
    <2>6. QED BY <2>4, <2>5
  <1>4. CASE LogoutCall(t)
    <2>1. /\ Guarded(t) /\ pc[t] = "idle" /\ keyrings' = 0 /\ unlockMu' = unlockMu
          /\ mu' = t
      BY <1>0, <1>4 DEF LogoutCall, flags, Guarded, Discipline, Critical, LoginLabels
    <2>2. PICK f : Go(t, "logoutClear", f) /\ f.phase = ""
      BY <1>4, NoFramePhase DEF LogoutCall
    <2>3. /\ pc'[t] = "logoutClear" /\ frame'[t].phase = ""
          /\ ~Unlocking(t)' /\ Alone(t)
      BY <1>0, <2>2, GoMoves
    <2>4. Footprint(t)
      BY <2>1, <2>3 DEF Footprint, Released
    <2>5. Discipline(t)'
      BY <2>1, <2>3 DEF Discipline, Critical, LoginLabels, UnlockLabels, ClientLabels
    <2>6. QED BY <2>4, <2>5
  <1>5. CASE KeyringsCall(t)
    <2>1. Guarded(t) /\ pc[t] = "idle" /\ keyrings' = keyrings /\ unlockMu' = unlockMu
      BY <1>0, <1>5
      DEF KeyringsCall, locks, flags, caches, Guarded, Discipline, Critical, LoginLabels
    <2>2. PICK f : Go(t, "unlockMu", f) /\ f.phase = ""
      BY <1>5, NoFramePhase DEF KeyringsCall
    <2>3. /\ pc'[t] = "unlockMu" /\ frame'[t].phase = ""
          /\ ~Unlocking(t)' /\ Alone(t)
      BY <1>0, <2>2, GoMoves
    <2>4. Footprint(t)
      BY <2>1, <2>3 DEF Footprint, Released
    <2>5. Discipline(t)'
      BY <2>1, <2>3 DEF Discipline, Critical, LoginLabels, UnlockLabels, ClientLabels
    <2>6. QED BY <2>4, <2>5
  <1>6. CASE CalendarCall(t)
    <2>1. Guarded(t) /\ pc[t] = "idle" /\ keyrings' = keyrings /\ unlockMu' = unlockMu
      BY <1>0, <1>6
      DEF CalendarCall, locks, flags, caches, Guarded, Discipline, Critical, LoginLabels
    <2>2. /\ Alone(t) /\ ~Unlocking(t)'
          /\ \/ pc'[t] = "unlockMu"
             \/ pc'[t] = "client" /\ frame'[t].phase = "calendar"
      <3>1. CASE Go(t, "unlockMu", [NoFrame EXCEPT !.cal = TRUE])
        BY <1>0, <3>1, GoMoves, NoFramePhase
      <3>2. CASE Go(t, "client", [NoFrame EXCEPT !.phase = "calendar", !.cal = TRUE])
        BY ZenonT(60), <1>0, <3>2, GoMoves, NoFramePhase
      <3>3. QED BY <1>6, <3>1, <3>2 DEF CalendarCall
    <2>3. Footprint(t)
      BY <2>1, <2>2 DEF Footprint, Released
    <2>4. Discipline(t)'
      BY <2>1, <2>2 DEF Discipline, Critical, LoginLabels, UnlockLabels, ClientLabels
    <2>5. QED BY <2>3, <2>4
  <1>7. CASE LibraryRotates(t)
    <2>1. Guarded(t) /\ pc[t] = "idle" /\ keyrings' = keyrings /\ unlockMu' = unlockMu
      BY <1>0, <1>7
      DEF LibraryRotates, locks, flags, caches, Guarded, Discipline, Critical,
          LoginLabels
    <2>2. CASE UNCHANGED <<pc, frame>>
      <3>1. Alone(t) /\ pc'[t] = "idle" /\ Unlocking(t)' = Unlocking(t)
        BY <2>1, <2>2, UnlockingPhase DEF Alone
      <3>2. Footprint(t)
        BY <2>1, <3>1 DEF Footprint, Released
      <3>3. Discipline(t)'
        BY <1>0, <2>1, <3>1
        DEF Discipline, Critical, LoginLabels, UnlockLabels, ClientLabels
      <3>4. QED BY <3>2, <3>3
    <2>3. CASE ~UNCHANGED <<pc, frame>>
      <3>1. PICK s : Go(t, "rotated", [NoFrame EXCEPT !.sess = s])
        BY <1>7, <2>3 DEF LibraryRotates
      <3>2. [NoFrame EXCEPT !.sess = s].phase = ""
        BY DEF NoFrame
      <3>3. pc'[t] = "rotated" /\ ~Unlocking(t)' /\ Alone(t)
        BY <1>0, <3>1, <3>2, GoMoves
      <3>4. Footprint(t)
        BY <2>1, <3>3 DEF Footprint, Released
      <3>5. Discipline(t)'
        BY <2>1, <3>3 DEF Discipline, Critical, LoginLabels, UnlockLabels, ClientLabels
      <3>6. QED BY <3>4, <3>5
    <2>4. QED BY <2>2, <2>3
  <1>8. QED BY <1>1, <1>2, <1>3, <1>4, <1>5, <1>6, <1>7 DEF Call

\* A process starts with no lock held and nobody inside a section.
LEMMA InitDisciplined == Init => LockInv
  <1> SUFFICES ASSUME Init PROVE LockInv
    OBVIOUS
  <1>1. ASSUME NEW t \in Threads PROVE Discipline(t)
    <2>1. pc[t] = "idle" /\ frame[t] = NoFrame
      BY DEF Init, FreshMemory
    <2>2. ~Unlocking(t)
      BY <2>1, NoFramePhase DEF Unlocking
    <2>3. QED BY <2>1, <2>2 DEF Discipline, Critical, LoginLabels, UnlockLabels,
                                ClientLabels
  <1>2. QED BY <1>1, InitTyped DEF LockInv

\* The lock discipline is inductive.
THEOREM LocksHeld == Spec => []LockInv
  <1>1. Init => LockInv
    BY InitDisciplined
  <1>2. LockInv /\ [Next]_vars => LockInv'
    <2> SUFFICES ASSUME LockInv, [Next]_vars PROVE \A u \in Threads : Discipline(u)'
      BY NextTyped DEF LockInv
    <2>1. ASSUME NEW t \in Threads, Step(t) \/ Call(t)
          PROVE  \A u \in Threads : Discipline(u)'
      <3>1. Footprint(t) /\ Discipline(t)'
        BY <2>1, ClientStepsDisciplined, LoginStepsDisciplined, RotationStepsDisciplined,
           KeyringStepsDisciplined, CallsDisciplined DEF Step
      <3>2. QED BY <3>1, OthersKeepDiscipline
    <2>2. CASE Restart
      <3>1. ASSUME NEW u \in Threads PROVE Discipline(u)'
        <4>1. pc'[u] = "idle" /\ frame'[u] = NoFrame
          BY <2>2 DEF Restart
        <4>2. ~Unlocking(u)'
          BY <4>1, NoFramePhase DEF Unlocking
        <4>3. QED BY <4>1, <4>2 DEF Discipline, Critical, LoginLabels, UnlockLabels,
                                    ClientLabels
      <3>2. QED BY <3>1
    <2>3. CASE Revoke \/ UNCHANGED vars
      <3>1. /\ pc' = pc /\ frame' = frame /\ mu' = mu /\ unlockMu' = unlockMu
            /\ keyrings' = keyrings /\ poisoned' = poisoned
        BY <2>3 DEF Revoke, vars, locks, flags, caches
      <3>2. ASSUME NEW u \in Threads PROVE Discipline(u)'
        BY <3>1, UnlockingPhase DEF LockInv, Discipline
      <3>3. QED BY <3>2
    <2>4. QED BY <2>1, <2>2, <2>3 DEF Next
  <1>3. QED BY <1>1, <1>2, PTL DEF Spec

\* Keyrings' single flight (unlockMu and the second look at the cache): no
\* goroutine ever unlocks, or logs in to heal an unlock, while the keyrings
\* are cached, whatever Login, Logout, rotations and restarts do meanwhile.
THEOREM UnlockSingleFlight == Spec => []KeyringsUnlockedOnce
  <1>1. LockInv => KeyringsUnlockedOnce
    BY DEF LockInv, Discipline, KeyringsUnlockedOnce, UnlockLabels
  <1>2. QED BY <1>1, LocksHeld, PTL

\* After a rollback that could not clear the store, Client() never refreshes
\* from it: the check of poisoned and the use of what was loaded are under one
\* hold of mu, which every writer of poisoned needs too.
THEOREM PoisonRespected == Spec => []PoisonedNeverColdStarts
  <1>1. LockInv => PoisonedNeverColdStarts
    BY DEF LockInv, Discipline, PoisonedNeverColdStarts
  <1>2. QED BY <1>1, LocksHeld, PTL

\* s.mu and s.unlockMu exclude: two goroutines are never both in a section of
\* the same lock, although Client() and the login path release and keep them
\* along many branches.
MutualExclusion ==
  \A t, u \in Threads :
     \/ pc[t] \in Critical /\ pc[u] \in Critical
     \/ Unlocking(t) /\ Unlocking(u)
   => t = u

\* Every thread in a section of mu, or of unlockMu, is the only one there.
THEOREM LocksExclude == Spec => []MutualExclusion
  <1>1. LockInv => MutualExclusion
    BY DEF LockInv, Discipline, MutualExclusion
  <1>2. QED BY <1>1, LocksHeld, PTL
=============================================================================
