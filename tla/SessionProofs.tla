--------------------------- MODULE SessionProofs ---------------------------
(***************************************************************************)
(* Theorems about Session, for every number of goroutines, every bound and *)
(* every choice of operations and faults.                                  *)
(***************************************************************************)
EXTENDS Session, TLAPS

\* Thread-local typing is the same argument in every action: Go keeps it.
LEMMA GoTyped ==
  ASSUME TypeOK, NEW t \in Threads, NEW l \in Labels, NEW f \in Frames, Go(t, l, f)
  PROVE  pc' \in [Threads -> Labels] /\ frame' \in [Threads -> Frames]
  BY DEF TypeOK, Go

\* The locals of a thread outside every call.
LEMMA NoFrameTyped == NoFrame \in Frames
  BY BoundsAssumption
  DEF BoundsAssumption, NoFrame, Frames, Inputs, Bundles, NoSession, Scopes

\* A thread's position and locals, one by one.
LEMMA FrameTyped ==
  ASSUME TypeOK, NEW t \in Threads
  PROVE  /\ frame[t] \in Frames
         /\ frame[t].sess \in Bundles /\ frame[t].sid \in 0..MaxSession
         /\ pc[t] \in Labels
  BY DEF TypeOK, Frames

\* The zero values of New and of Logout are in the state space.
LEMMA BundleTyped ==
  /\ NoSession \in Bundles /\ NoToken \in Tokens
  /\ \A b \in Bundles : TokenOf(b) \in Tokens
  /\ HistZero \in [cold: Nat, heal: Nat, blip: Nat, saveFailed: BOOLEAN]
  <1>1. NoSession \in Bundles /\ NoToken \in Tokens
    BY BoundsAssumption
    DEF BoundsAssumption, NoSession, NoToken, Bundles, Tokens, Scopes
  <1>2. \A b \in Bundles : TokenOf(b) \in Tokens
    BY DEF TokenOf, Bundles, Tokens
  <1>3. HistZero \in [cold: Nat, heal: Nat, blip: Nat, saveFailed: BOOLEAN]
    BY DEF HistZero
  <1>4. QED BY <1>1, <1>2, <1>3

\* Returning from an exported method.
LEMMA ReturnTyped ==
  ASSUME TypeOK, NEW t \in Threads, Return(t)
  PROVE  /\ pc' \in [Threads -> Labels] /\ frame' \in [Threads -> Frames]
         /\ unlockMu' \in Threads \cup {NoThread}
  <1>1. "idle" \in Labels /\ NoFrame \in Frames
    BY NoFrameTyped DEF Labels
  <1>2. QED
    BY <1>1, GoTyped DEF Return, TypeOK

\* Handing an error up.
LEMMA FailsTyped ==
  ASSUME TypeOK, NEW t \in Threads,
         NEW h \in [cold: Nat, heal: Nat, blip: Nat, saveFailed: BOOLEAN],
         FailsOtherwise(t, h)
  PROVE  /\ pc' \in [Threads -> Labels] /\ frame' \in [Threads -> Frames]
         /\ unlockMu' \in Threads \cup {NoThread}
         /\ hist' \in [cold: Nat, heal: Nat, blip: Nat, saveFailed: BOOLEAN]
  BY ReturnTyped DEF FailsOtherwise

\* Client() returning to whichever code called it.
LEMMA ClientReturnsTyped ==
  ASSUME TypeOK, NEW t \in Threads, NEW s \in 0..MaxSession, ClientReturns(t, s)
  PROVE  /\ pc' \in [Threads -> Labels] /\ frame' \in [Threads -> Frames]
         /\ unlockMu' \in Threads \cup {NoThread}
  <1>1. CASE Return(t)
    BY <1>1, ReturnTyped
  <1>2. CASE ~Return(t)
    <2> DEFINE l == IF frame[t].phase = "calendar" THEN "resolve" ELSE "unlock"
               f == [frame[t] EXCEPT !.sid = s, !.why = "", !.input = "none", !.sess = NoSession]
    <2>1. Go(t, l, f) /\ UNCHANGED unlockMu
      BY <1>2 DEF ClientReturns
    <2>2. l \in Labels
      BY DEF Labels
    <2>3. f \in Frames
      BY FrameTyped, BundleTyped DEF Frames, Inputs
    <2>4. QED
      BY <2>1, <2>2, <2>3, GoTyped DEF TypeOK
  <1>3. QED BY <1>1, <1>2

\* A failed login, for its three callers.
LEMMA LoginFailsTyped ==
  ASSUME TypeOK, NEW t \in Threads,
         NEW h \in [cold: Nat, heal: Nat, blip: Nat, saveFailed: BOOLEAN],
         LoginFails(t, h)
  PROVE  /\ pc' \in [Threads -> Labels] /\ frame' \in [Threads -> Frames]
         /\ unlockMu' \in Threads \cup {NoThread} /\ mu' \in Threads \cup {NoThread}
         /\ reloginExhausted' \in BOOLEAN
         /\ hist' \in [cold: Nat, heal: Nat, blip: Nat, saveFailed: BOOLEAN]
  <1>1. mu' \in Threads \cup {NoThread} /\ reloginExhausted' \in BOOLEAN
    BY DEF LoginFails, TypeOK
  <1>2. CASE Go(t, "latch", frame[t]) /\ UNCHANGED unlockMu /\ hist' = h
    <2>1. "latch" \in Labels
      BY DEF Labels
    <2>2. QED BY <1>1, <1>2, <2>1, FrameTyped, GoTyped DEF TypeOK
  <1>3. CASE FailsOtherwise(t, h)
    BY <1>1, <1>3, FailsTyped
  <1>4. CASE Return(t) /\ hist' = h
    BY <1>1, <1>4, ReturnTyped
  <1>5. QED BY <1>2, <1>3, <1>4 DEF LoginFails

\* Proton's side keeps its type when a session is rotated.
LEMMA RotatedTyped ==
  ASSUME TypeOK, NEW tok, tok.gen \in 0..MaxGen, CanRotate(tok)
  PROVE  /\ tok.sid \in Sids
         /\ Rotated(tok.sid) \in [Sids -> ProtonSessions]
         /\ tok.gen + 1 \in 0..MaxGen
         /\ proton[tok.sid].scope \in Scopes
  BY BoundsAssumption
  DEF BoundsAssumption, TypeOK, CanRotate, Honoured, Rotated, ProtonSessions

\* The first step of every call, and a rotation by the library.
LEMMA CallTyped ==
  ASSUME TypeOK, NEW t \in Threads, Call(t)
  PROVE  TypeOK'
  <1>1. CASE ClientCall(t)
    <2>1. [NoFrame EXCEPT !.phase = "direct"] \in Frames
      BY <1>1, NoFrameTyped, FrameTyped, BundleTyped DEF Frames, ClientCall
    <2>2. pc' \in [Threads -> Labels] /\ frame' \in [Threads -> Frames]
      BY <1>1, <2>1, GoTyped
      DEF Labels, Critical, LoginLabels, RotationLabels, ClientCall
    <2>3. QED BY <1>1, <2>2 DEF ClientCall, TypeOK, locks, tokens, flags, latches, caches
  <1>2. CASE RawCall(t)
    <2>1. [NoFrame EXCEPT !.phase = "direct"] \in Frames
      BY <1>2, NoFrameTyped, FrameTyped, BundleTyped DEF Frames, RawCall
    <2>2. pc' \in [Threads -> Labels] /\ frame' \in [Threads -> Frames]
      BY <1>2, <2>1, GoTyped DEF Labels, Critical, LoginLabels, RotationLabels, RawCall
    <2>3. QED BY <1>2, <2>2 DEF RawCall, TypeOK, locks, tokens, flags, latches, caches
  <1>3. CASE LoginCall(t)
    <2>1. PICK in \in LoginInputs :
            Go(t, "auth", [NoFrame EXCEPT !.why = "login", !.input = in])
      BY <1>3 DEF LoginCall
    <2>2. [NoFrame EXCEPT !.why = "login", !.input = in] \in Frames
      BY NoFrameTyped, ChoicesAssumption DEF ChoicesAssumption, Frames, Inputs
    <2>3. pc' \in [Threads -> Labels] /\ frame' \in [Threads -> Frames]
      BY <2>1, <2>2, GoTyped DEF Labels, Critical, LoginLabels
    <2>4. QED BY <1>3, <2>3 DEF LoginCall, TypeOK, locks, tokens, flags, latches, caches
  <1>4. CASE LogoutCall(t)
    <2>1. pc' \in [Threads -> Labels] /\ frame' \in [Threads -> Frames]
      BY <1>4, NoFrameTyped, GoTyped DEF LogoutCall, Labels, Critical
    <2>2. QED BY <1>4, <2>1, BundleTyped, BoundsAssumption
             DEF BoundsAssumption, LogoutCall, TypeOK, locks, tokens, flags, latches, caches
  <1>5. CASE KeyringsCall(t)
    <2>1. pc' \in [Threads -> Labels] /\ frame' \in [Threads -> Frames]
      BY <1>5, NoFrameTyped, GoTyped DEF KeyringsCall, Labels
    <2>2. QED BY <1>5, <2>1 DEF KeyringsCall, TypeOK, locks, tokens, flags, latches, caches
  <1>6. CASE CalendarCall(t)
    <2>1. /\ [NoFrame EXCEPT !.cal = TRUE] \in Frames
          /\ [NoFrame EXCEPT !.phase = "calendar", !.cal = TRUE] \in Frames
      BY NoFrameTyped DEF Frames
    <2>2. pc' \in [Threads -> Labels] /\ frame' \in [Threads -> Frames]
      BY <1>6, <2>1, GoTyped DEF CalendarCall, Labels
    <2>3. QED BY <1>6, <2>2 DEF CalendarCall, TypeOK, locks, tokens, flags, latches, caches
  <1>7. CASE LibraryRotates(t)
    <2>1. PICK c \in open :
            LET new == [c EXCEPT !.gen = @ + 1] IN
            /\ CanRotate(c) /\ ~HandlingRotationOf(c)
            /\ proton' = Rotated(c.sid)
            /\ \/ /\ open' = (open \ {c}) \cup {new}
                  /\ client' = IF client = c THEN new ELSE client
                  /\ \E sc \in {"", proton[c.sid].scope} :
                       Go(t, "rotated", [NoFrame EXCEPT !.sess =
                            [sid |-> new.sid, gen |-> new.gen, scope |-> sc]])
               \/ "lost" \in NetFaults /\ UNCHANGED <<client, open, pc, frame>>
      BY <1>7 DEF LibraryRotates
    <2>2. c \in Tokens
      BY DEF TypeOK
    <2>3. /\ c.sid \in Sids /\ Rotated(c.sid) \in [Sids -> ProtonSessions]
          /\ c.gen + 1 \in 0..MaxGen /\ proton[c.sid].scope \in Scopes
      BY <2>1, <2>2, RotatedTyped DEF Tokens
    <2>4. [c EXCEPT !.gen = @ + 1] \in Tokens
      BY <2>2, <2>3 DEF Tokens
    <2>5. ASSUME NEW sc \in {"", proton[c.sid].scope}
          PROVE  [NoFrame EXCEPT !.sess = [sid |-> c.sid, gen |-> c.gen + 1, scope |-> sc]]
                   \in Frames
      BY <2>2, <2>3, NoFrameTyped DEF Frames, Bundles, Scopes, Tokens
    <2>6. pc' \in [Threads -> Labels] /\ frame' \in [Threads -> Frames]
      BY <2>1, <2>2, <2>5, GoTyped DEF Labels, RotationLabels, Tokens, TypeOK
    <2>7. client' \in Tokens /\ open' \subseteq Tokens
      BY <2>1, <2>4 DEF TypeOK
    <2>8. QED BY <1>7, <2>1, <2>3, <2>6, <2>7 DEF LibraryRotates, TypeOK, locks, tokens, flags, latches, caches
  <1>8. QED BY <1>1, <1>2, <1>3, <1>4, <1>5, <1>6, <1>7 DEF Call

\* Client(): the fast path, the second look under mu, the refresh and its save.
LEMMA ClientStepsTyped ==
  ASSUME TypeOK, NEW t \in Threads, ClientSteps(t)
  PROVE  TypeOK'
  <1> DEFINE H == [cold: Nat, heal: Nat, blip: Nat, saveFailed: BOOLEAN]
  <1>0. /\ frame[t] \in Frames /\ frame[t].sess \in Bundles
        /\ client \in Tokens /\ client.sid \in 0..MaxSession /\ hist \in H
    BY FrameTyped DEF TypeOK, Tokens
  <1>1. CASE ClientFast(t)
    <2>1. /\ pc' \in [Threads -> Labels] /\ frame' \in [Threads -> Frames]
          /\ unlockMu' \in Threads \cup {NoThread}
      <3>1. CASE ClientReturns(t, client.sid)
        BY <1>0, <3>1, ClientReturnsTyped
      <3>2. CASE Go(t, "clientLock", frame[t]) /\ UNCHANGED unlockMu
        BY <1>0, <3>2, GoTyped DEF Labels, TypeOK
      <3>3. QED BY <1>1, <3>1, <3>2 DEF ClientFast
    <2>2. QED BY <1>1, <2>1 DEF ClientFast, TypeOK, tokens, flags, latches, caches
  <1>2. CASE ClientNoRefresh(t)
    <2>1. /\ pc' \in [Threads -> Labels] /\ frame' \in [Threads -> Frames]
          /\ unlockMu' \in Threads \cup {NoThread} /\ hist' \in H
      <3>1. CASE ClientReturns(t, client.sid) /\ UNCHANGED hist
        BY <1>0, <3>1, ClientReturnsTyped
      <3>2. CASE FailsOtherwise(t, hist)
        BY <1>0, <3>2, FailsTyped
      <3>3. QED BY <1>2, <3>1, <3>2 DEF ClientNoRefresh
    <2>2. QED BY <1>2, <2>1 DEF ClientNoRefresh, TypeOK, tokens, flags, latches, caches
  <1>3. CASE ClientLoad(t)
    <2>1. [frame[t] EXCEPT !.sess = store.sess] \in Frames
      BY <1>0 DEF Frames, TypeOK
    <2>2. pc' \in [Threads -> Labels] /\ frame' \in [Threads -> Frames]
      BY <1>3, <2>1, GoTyped DEF ClientLoad, Labels, Critical
    <2>3. QED BY <1>3, <2>2 DEF ClientLoad, TypeOK, tokens, flags, latches, caches
  <1>4. CASE ClientRefresh(t)
    <2>1. "saveCold" \in Labels
      BY DEF Labels, Critical
    <2>2. CASE /\ CanRotate(frame[t].sess)
               /\ \E sc \in {"", proton[frame[t].sess.sid].scope} :
                    Go(t, "saveCold", [frame[t] EXCEPT !.sess =
                        [frame[t].sess EXCEPT !.gen = @ + 1,
                                              !.scope = IF sc = "" THEN @ ELSE sc]])
               /\ proton' = Rotated(frame[t].sess.sid)
      <3>1. frame[t].sess.gen \in 0..MaxGen
        BY <1>0 DEF Bundles
      <3>2. /\ Rotated(frame[t].sess.sid) \in [Sids -> ProtonSessions]
            /\ frame[t].sess.gen + 1 \in 0..MaxGen
            /\ proton[frame[t].sess.sid].scope \in Scopes
        BY <2>2, <3>1, RotatedTyped
      <3>3. ASSUME NEW sc \in {"", proton[frame[t].sess.sid].scope}
            PROVE  [frame[t] EXCEPT !.sess =
                      [frame[t].sess EXCEPT !.gen = @ + 1,
                                            !.scope = IF sc = "" THEN @ ELSE sc]] \in Frames
        BY <1>0, <3>2 DEF Frames, Bundles
      <3>4. pc' \in [Threads -> Labels] /\ frame' \in [Threads -> Frames]
        BY <2>1, <2>2, <3>3, GoTyped
      <3>5. QED BY <1>4, <2>2, <3>2, <3>4
                DEF ClientRefresh, TypeOK, locks, tokens, flags, latches, caches
    <2>3. CASE Go(t, "saveCold", frame[t]) /\ UNCHANGED proton
      <3>1. pc' \in [Threads -> Labels] /\ frame' \in [Threads -> Frames]
        BY <1>0, <2>1, <2>3, GoTyped
      <3>2. QED BY <1>4, <2>3, <3>1
                DEF ClientRefresh, TypeOK, locks, tokens, flags, latches, caches
    <2>4. QED BY <1>4, <2>2, <2>3 DEF ClientRefresh
  <1>5. CASE ClientRefreshFails(t)
    <2>1. /\ pc' \in [Threads -> Labels] /\ frame' \in [Threads -> Frames]
          /\ unlockMu' \in Threads \cup {NoThread} /\ hist' \in H
      BY <1>0, <1>5, FailsTyped DEF ClientRefreshFails
    <2>2. proton' \in [Sids -> ProtonSessions]
      <3>1. CASE UNCHANGED proton
        BY <3>1 DEF TypeOK
      <3>2. CASE CanRotate(frame[t].sess) /\ proton' = Rotated(frame[t].sess.sid)
        BY <1>0, <3>2, RotatedTyped DEF Bundles
      <3>3. QED BY <1>5, <3>1, <3>2 DEF ClientRefreshFails
    <2>3. QED BY <1>5, <2>1, <2>2 DEF ClientRefreshFails, TypeOK, tokens, flags, latches, caches
  <1>6. CASE ClientRejected(t)
    <2>1. CASE /\ Go(t, "relogin", [frame[t] EXCEPT !.why = "cold"])
               /\ hist' = [hist EXCEPT !.cold = @ + 1]
               /\ UNCHANGED locks
      <3>1. [frame[t] EXCEPT !.why = "cold"] \in Frames
        BY <1>0 DEF Frames
      <3>2. pc' \in [Threads -> Labels] /\ frame' \in [Threads -> Frames]
        BY <2>1, <3>1, GoTyped DEF Labels, Critical, LoginLabels
      <3>3. hist' \in H
        BY <1>0, <2>1
      <3>4. QED BY <1>6, <2>1, <3>2, <3>3
                DEF ClientRejected, TypeOK, locks, tokens, flags, latches, caches
    <2>2. CASE mu' = NoThread /\ FailsOtherwise(t, hist)
      <3>1. /\ pc' \in [Threads -> Labels] /\ frame' \in [Threads -> Frames]
            /\ unlockMu' \in Threads \cup {NoThread} /\ hist' \in H
        BY <1>0, <2>2, FailsTyped
      <3>2. QED BY <1>6, <2>2, <3>1 DEF ClientRejected, TypeOK, tokens, flags, latches, caches
    <2>3. QED BY <1>6, <2>1, <2>2 DEF ClientRejected
  <1>7. CASE ClientSave(t)
    <2>1. frame[t].sess.sid \in 0..MaxSession /\ TokenOf(frame[t].sess) \in Tokens
      BY <1>0, BundleTyped DEF Bundles
    <2>2. /\ pc' \in [Threads -> Labels] /\ frame' \in [Threads -> Frames]
          /\ unlockMu' \in Threads \cup {NoThread}
      BY <1>7, <2>1, ClientReturnsTyped DEF ClientSave
    <2>3. /\ store' \in [creds: Inputs, sess: Bundles]
          /\ persistDegraded' \in BOOLEAN
      BY <1>0, <1>7 DEF ClientSave, TypeOK
    <2>4. hist' \in H
      BY <1>0, <1>7 DEF ClientSave
    <2>5. QED BY <1>0, <1>7, <2>1, <2>2, <2>3, <2>4
              DEF ClientSave, TypeOK, latches, caches
  <1>8. QED BY <1>1, <1>2, <1>3, <1>4, <1>5, <1>6, <1>7 DEF ClientSteps

\* The login path, from the stored credentials to the rollback, and Logout's
\* second half.
LEMMA LoginStepsTyped ==
  ASSUME TypeOK, NEW t \in Threads, LoginSteps(t)
  PROVE  TypeOK'
  <1> DEFINE H == [cold: Nat, heal: Nat, blip: Nat, saveFailed: BOOLEAN]
             Stores == [creds: Inputs, sess: Bundles]
  <1>0. /\ frame[t] \in Frames /\ frame[t].sess \in Bundles /\ hist \in H
        /\ frame[t].sess.sid \in 0..MaxSession /\ TokenOf(frame[t].sess) \in Tokens
    BY FrameTyped, BundleTyped DEF TypeOK, Bundles
  <1>1. CASE ReloginLoadCreds(t)
    <2>1. CASE /\ Go(t, "auth", [frame[t] EXCEPT !.input = store.creds])
               /\ store.creds # "none"
               /\ UNCHANGED <<locks, reloginExhausted, hist>>
      <3>1. [frame[t] EXCEPT !.input = store.creds] \in Frames
        BY <1>0, <2>1 DEF Frames, TypeOK
      <3>2. pc' \in [Threads -> Labels] /\ frame' \in [Threads -> Frames]
        BY <2>1, <3>1, GoTyped DEF Labels, Critical, LoginLabels
      <3>3. QED BY <1>1, <2>1, <3>2 DEF ReloginLoadCreds, TypeOK, locks, tokens, caches
    <2>2. CASE LoginFails(t, hist)
      BY <1>0, <1>1, <2>2, LoginFailsTyped DEF ReloginLoadCreds, TypeOK, tokens, caches
    <2>3. QED BY <1>1, <2>1, <2>2 DEF ReloginLoadCreds
  <1>2. CASE Authenticate(t)
    <2>1. PICK s \in Unused, sc \in LoginScopes :
            /\ proton' = [proton EXCEPT ![s] = [gen |-> 1, live |-> TRUE, scope |-> sc]]
            /\ Go(t, "saveCreds", [frame[t] EXCEPT
                    !.sess = [sid |-> s, gen |-> 1, scope |-> sc]])
      BY <1>2 DEF Authenticate
    <2>2. /\ s \in Sids /\ s \in 0..MaxSession /\ 1 \in 0..MaxGen /\ sc \in Scopes
      <3>1. s \in Sids /\ s \in 0..MaxSession /\ 1 \in 0..MaxGen
        BY <2>1, BoundsAssumption DEF BoundsAssumption, Unused, Sids
      <3>2. sc \in Scopes
        BY <2>1, ChoicesAssumption DEF ChoicesAssumption, Scopes
      <3>3. QED BY <3>1, <3>2
    <2>3. [frame[t] EXCEPT !.sess = [sid |-> s, gen |-> 1, scope |-> sc]] \in Frames
      BY <1>0, <2>2 DEF Frames, Bundles
    <2>4. pc' \in [Threads -> Labels] /\ frame' \in [Threads -> Frames]
      BY <2>1, <2>3, GoTyped DEF Labels, Critical, LoginLabels
    <2>5. [gen |-> 1, live |-> TRUE, scope |-> sc] \in ProtonSessions
      BY <2>2 DEF ProtonSessions
    <2>6. proton' \in [Sids -> ProtonSessions]
      BY <2>1, <2>2, <2>5 DEF TypeOK
    <2>7. QED BY <1>2, <2>4, <2>6 DEF Authenticate, TypeOK, locks, tokens, flags, latches, caches
  <1>3. CASE AuthenticateFails(t)
    BY <1>0, <1>3, LoginFailsTyped DEF AuthenticateFails, TypeOK, tokens, caches
  <1>4. CASE PersistCreds(t)
    <2>1. CASE /\ store' = [store EXCEPT !.creds = frame[t].input]
               /\ Go(t, "saveSess", frame[t])
               /\ UNCHANGED <<locks, reloginExhausted, hist>>
      <3>1. store' \in Stores
        BY <1>0, <2>1 DEF TypeOK, Frames
      <3>2. pc' \in [Threads -> Labels] /\ frame' \in [Threads -> Frames]
        BY <1>0, <2>1, GoTyped DEF Labels, Critical, LoginLabels
      <3>3. QED BY <1>4, <2>1, <3>1, <3>2 DEF PersistCreds, TypeOK, locks, tokens, caches
    <2>2. CASE /\ Go(t, "rollback", frame[t])
               /\ UNCHANGED <<locks, reloginExhausted, store, hist>>
      <3>1. pc' \in [Threads -> Labels] /\ frame' \in [Threads -> Frames]
        BY <1>0, <2>2, GoTyped DEF Labels, Critical, LoginLabels
      <3>2. QED BY <1>4, <2>2, <3>1 DEF PersistCreds, TypeOK, locks, tokens, caches
    <2>3. CASE LoginFails(t, hist) /\ UNCHANGED store
      BY <1>0, <1>4, <2>3, LoginFailsTyped DEF PersistCreds, TypeOK, tokens, caches
    <2>4. QED BY <1>4, <2>1, <2>2, <2>3 DEF PersistCreds
  <1>5. CASE PersistSession(t)
    <2>1. /\ pc' \in [Threads -> Labels] /\ frame' \in [Threads -> Frames]
          /\ unlockMu' \in Threads \cup {NoThread}
      <3>1. CASE Return(t)
        BY <3>1, ReturnTyped
      <3>2. CASE ClientReturns(t, frame[t].sess.sid)
        BY <1>0, <3>2, ClientReturnsTyped
      <3>3. CASE /\ Go(t, "client", [frame[t] EXCEPT !.phase = "retry", !.why = "",
                                                     !.input = "none", !.sess = NoSession])
                 /\ UNCHANGED unlockMu
        <4>1. [frame[t] EXCEPT !.phase = "retry", !.why = "", !.input = "none",
                               !.sess = NoSession] \in Frames
          BY <1>0, BundleTyped DEF Frames, Inputs
        <4>2. QED BY <3>3, <4>1, GoTyped DEF Labels, TypeOK
      <3>4. QED BY <1>5, <3>1, <3>2, <3>3 DEF PersistSession
    <2>2. store' \in Stores /\ 0 \in 0..MaxSession
      BY <1>0, <1>5, BoundsAssumption DEF BoundsAssumption, PersistSession, TypeOK
    <2>3. hist' \in H
      BY <1>0, <1>5, BundleTyped DEF PersistSession, HistAfterLogin
    <2>4. /\ client' \in Tokens /\ raw' \in Tokens /\ current' \in Bundles
          /\ open' \subseteq Tokens /\ mu' = NoThread
      BY <1>0, <1>5 DEF PersistSession, TypeOK
    <2>5. QED BY <1>5, <2>1, <2>2, <2>3, <2>4 DEF PersistSession, TypeOK
  <1>6. CASE PersistSessionFails(t)
    <2>0. [hist EXCEPT !.saveFailed = TRUE] \in H
      BY <1>0
    <2>1. CASE /\ Go(t, "rollback", frame[t])
               /\ hist' = [hist EXCEPT !.saveFailed = TRUE]
               /\ UNCHANGED <<locks, reloginExhausted>>
      <3>1. pc' \in [Threads -> Labels] /\ frame' \in [Threads -> Frames]
        BY <1>0, <2>1, GoTyped DEF Labels, Critical, LoginLabels
      <3>2. QED BY <1>6, <2>0, <2>1, <3>1 DEF PersistSessionFails, TypeOK, locks, tokens, caches
    <2>2. CASE LoginFails(t, [hist EXCEPT !.saveFailed = TRUE])
      BY <1>6, <2>0, <2>2, LoginFailsTyped
      DEF PersistSessionFails, TypeOK, tokens, caches
    <2>3. QED BY <1>6, <2>1, <2>2 DEF PersistSessionFails
  <1>7. CASE Rollback(t)
    <2>1. store' \in Stores
      BY <1>7, BundleTyped DEF Rollback, TypeOK, Inputs
    <2>2. poisoned' \in BOOLEAN
      BY <1>7 DEF Rollback, TypeOK
    <2>3. QED BY <1>0, <1>7, <2>1, <2>2, LoginFailsTyped DEF Rollback, TypeOK, tokens, caches
  <1>8. CASE LogoutClear(t)
    <2>1. store' \in Stores /\ hist' \in H
      BY <1>0, <1>8, BundleTyped DEF LogoutClear, TypeOK, Inputs
    <2>2. /\ persistDegraded' \in BOOLEAN /\ poisoned' \in BOOLEAN
          /\ reloginExhausted' \in BOOLEAN /\ scopeReloginExhausted' \in BOOLEAN
      BY <1>8 DEF LogoutClear, TypeOK, flags, latches
    <2>3. /\ pc' \in [Threads -> Labels] /\ frame' \in [Threads -> Frames]
          /\ unlockMu' \in Threads \cup {NoThread} /\ mu' = NoThread
      BY <1>8, ReturnTyped DEF LogoutClear
    <2>4. QED BY <1>8, <2>1, <2>2, <2>3 DEF LogoutClear, TypeOK, tokens, caches
  <1>9. QED BY <1>1, <1>2, <1>3, <1>4, <1>5, <1>6, <1>7, <1>8 DEF LoginSteps

\* OnAuthRotated: swap, save, flag.
LEMMA RotationStepsTyped ==
  ASSUME TypeOK, NEW t \in Threads, RotationSteps(t)
  PROVE  TypeOK'
  <1>0. /\ frame[t] \in Frames /\ frame[t].sess \in Bundles
        /\ hist \in [cold: Nat, heal: Nat, blip: Nat, saveFailed: BOOLEAN]
    BY FrameTyped DEF TypeOK
  <1>1. CASE RotatedApply(t)
    <2> DEFINE next == [frame[t].sess EXCEPT !.scope = IF @ = "" THEN current.scope ELSE @]
    <2>1. next \in Bundles
      BY <1>0 DEF TypeOK, Bundles
    <2>2. [frame[t] EXCEPT !.sess = next] \in Frames /\ TokenOf(next) \in Tokens
      BY <1>0, <2>1, BundleTyped DEF Frames
    <2>3. pc' \in [Threads -> Labels] /\ frame' \in [Threads -> Frames]
      BY <1>1, <2>2, GoTyped DEF RotatedApply, Labels, RotationLabels
    <2>4. current' \in Bundles /\ raw' \in Tokens
      BY <1>1, <2>1, <2>2 DEF RotatedApply
    <2>5. QED BY <1>1, <2>3, <2>4 DEF RotatedApply, TypeOK, locks, flags, latches, caches
  <1>2. CASE RotatedSave(t)
    <2>1. pc' \in [Threads -> Labels] /\ frame' \in [Threads -> Frames]
      BY <1>0, <1>2, GoTyped DEF RotatedSave, Labels, RotationLabels
    <2>2. /\ store' \in [creds: Inputs, sess: Bundles]
          /\ hist' \in [cold: Nat, heal: Nat, blip: Nat, saveFailed: BOOLEAN]
      BY <1>0, <1>2 DEF RotatedSave, TypeOK
    <2>3. QED BY <1>2, <2>1, <2>2 DEF RotatedSave, TypeOK, locks, tokens, flags, latches, caches
  <1>3. CASE RotatedFlag(t)
    <2>1. persistDegraded' \in BOOLEAN
      BY <1>3 DEF RotatedFlag
    <2>2. QED BY <1>3, <2>1, ReturnTyped DEF RotatedFlag, TypeOK, tokens, latches, caches
  <1>4. QED BY <1>1, <1>2, <1>3 DEF RotationSteps

\* Keyrings, the scope self-heal and CalendarKeyring.
LEMMA KeyringStepsTyped ==
  ASSUME TypeOK, NEW t \in Threads, KeyringSteps(t)
  PROVE  TypeOK'
  <1> DEFINE H == [cold: Nat, heal: Nat, blip: Nat, saveFailed: BOOLEAN]
             Control == /\ pc' \in [Threads -> Labels] /\ frame' \in [Threads -> Frames]
                        /\ unlockMu' \in Threads \cup {NoThread}
  <1>0. frame[t] \in Frames /\ frame[t].sid \in 0..MaxSession /\ hist \in H
    BY FrameTyped DEF TypeOK
  <1>k. ASSUME KeyringsReturn(t) PROVE Control
    <2>1. CASE Return(t)
      BY <2>1, ReturnTyped
    <2>2. CASE /\ Go(t, "client", [NoFrame EXCEPT !.phase = "calendar", !.cal = TRUE])
               /\ unlockMu' = IF unlockMu = t THEN NoThread ELSE unlockMu
      <3>1. [NoFrame EXCEPT !.phase = "calendar", !.cal = TRUE] \in Frames
        BY NoFrameTyped DEF Frames
      <3>2. QED BY <2>2, <3>1, GoTyped DEF Labels, TypeOK
    <2>3. QED BY <1>k, <2>1, <2>2 DEF KeyringsReturn
  <1>1. CASE UnlockAcquire(t)
    <2>1. [frame[t] EXCEPT !.phase = "unlock"] \in Frames
      BY <1>0 DEF Frames
    <2>2. Control
      BY <1>1, <2>1, GoTyped DEF UnlockAcquire, Labels
    <2>3. QED BY <1>1, <2>2 DEF UnlockAcquire, TypeOK, tokens, flags, latches, caches
  <1>2. CASE UnlockRecheck(t)
    <2>1. CASE Go(t, "client", frame[t]) /\ UNCHANGED unlockMu
      BY <1>0, <1>2, <2>1, GoTyped
      DEF UnlockRecheck, Labels, TypeOK, tokens, flags, latches, caches
    <2>2. CASE KeyringsReturn(t)
      BY <1>2, <1>k, <2>2 DEF UnlockRecheck, TypeOK, tokens, flags, latches, caches
    <2>3. QED BY <1>2, <2>1, <2>2 DEF UnlockRecheck
  <1>3. CASE UnlockSucceeds(t)
    BY <1>0, <1>3, GoTyped
    DEF UnlockSucceeds, Labels, TypeOK, locks, tokens, flags, latches, caches
  <1>4. CASE UnlockDenied(t)
    BY <1>0, <1>4, GoTyped
    DEF UnlockDenied, Labels, TypeOK, locks, tokens, flags, latches, caches
  <1>5. CASE UnlockFails(t)
    BY <1>0, <1>5, FailsTyped DEF UnlockFails, TypeOK, tokens, flags, latches, caches
  <1>6. CASE StoreKeyrings(t)
    BY <1>0, <1>6, <1>k DEF StoreKeyrings, TypeOK, tokens, flags, latches
  <1>7. CASE DeniedDecides(t)
    <2>1. CASE Return(t)
      BY <1>7, <2>1, ReturnTyped
      DEF DeniedDecides, TypeOK, tokens, flags, latches, caches
    <2>2. CASE Go(t, "heal", frame[t]) /\ UNCHANGED unlockMu
      BY <1>0, <1>7, <2>2, GoTyped
      DEF DeniedDecides, Labels, TypeOK, tokens, flags, latches, caches
    <2>3. QED BY <1>7, <2>1, <2>2 DEF DeniedDecides
  <1>8. CASE HealRelogin(t)
    <2>0. 0 \in 0..MaxSession
      BY BoundsAssumption DEF BoundsAssumption
    <2>1. [frame[t] EXCEPT !.why = "heal", !.sid = 0] \in Frames
      BY <1>0, <2>0 DEF Frames
    <2>2. pc' \in [Threads -> Labels] /\ frame' \in [Threads -> Frames]
      BY <1>8, <2>1, GoTyped DEF HealRelogin, Labels, Critical, LoginLabels
    <2>3. hist' \in H
      BY <1>0, <1>8 DEF HealRelogin
    <2>4. QED BY <1>8, <2>2, <2>3 DEF HealRelogin, TypeOK, tokens, flags, latches, caches
  <1>9. CASE HealLatch(t)
    BY <1>9, ReturnTyped DEF HealLatch, TypeOK, tokens, caches
  <1>10. CASE CalendarResolve(t)
    <2>1. CASE Go(t, "storeCal", frame[t]) /\ UNCHANGED <<unlockMu, hist>>
      BY <1>0, <1>10, <2>1, GoTyped
      DEF CalendarResolve, Labels, TypeOK, tokens, flags, latches, caches
    <2>2. CASE FailsOtherwise(t, hist)
      BY <1>0, <1>10, <2>2, FailsTyped
      DEF CalendarResolve, TypeOK, tokens, flags, latches, caches
    <2>3. QED BY <1>10, <2>1, <2>2 DEF CalendarResolve
  <1>11. CASE CalendarStore(t)
    <2>1. calKeyrings' \in 0..MaxSession
      BY <1>0, <1>11 DEF CalendarStore, TypeOK
    <2>2. QED BY <1>11, <2>1, ReturnTyped DEF CalendarStore, TypeOK, tokens, flags, latches
  <1>12. QED BY <1>1, <1>2, <1>3, <1>4, <1>5, <1>6, <1>7, <1>8, <1>9, <1>10, <1>11
             DEF KeyringSteps

\* The environment: a restart forgets everything but the store, a revocation
\* touches Proton's side only.
LEMMA EnvironmentTyped ==
  ASSUME TypeOK, Restart \/ Revoke
  PROVE  TypeOK'
  <1>1. CASE Restart
    <2>1. /\ pc' \in [Threads -> Labels] /\ frame' \in [Threads -> Frames]
          /\ 0 \in 0..MaxSession
      BY <1>1, NoFrameTyped, BoundsAssumption DEF BoundsAssumption, Restart, Labels
    <2>2. QED BY <1>1, <2>1, BundleTyped DEF Restart, TypeOK
  <1>2. CASE Revoke
    <2>1. proton' \in [Sids -> ProtonSessions]
      <3>1. PICK s \in Sids : proton' = [proton EXCEPT ![s].live = FALSE]
        BY <1>2 DEF Revoke
      <3>2. [proton[s] EXCEPT !.live = FALSE] \in ProtonSessions
        BY DEF TypeOK, ProtonSessions
      <3>3. QED BY <3>1, <3>2 DEF TypeOK
    <2>2. QED BY <1>2, <2>1 DEF Revoke, TypeOK, locks, tokens, flags, latches, caches
  <1>3. QED BY <1>1, <1>2

\* The state a process starts in, over any store an earlier process left.
LEMMA InitTyped == Init => TypeOK
  <1> SUFFICES ASSUME Init PROVE TypeOK
    OBVIOUS
  <1>1. /\ 0 \in 0..MaxSession /\ 0 \in 0..MaxGen /\ 1 \in 0..MaxSession
        /\ 1 \in 0..MaxGen
    BY BoundsAssumption DEF BoundsAssumption
  <1>1a. InitScopes \subseteq Scopes /\ LoginInputs \subseteq Inputs
    BY ChoicesAssumption DEF ChoicesAssumption, Scopes, Inputs
  <1>2. /\ store \in [creds: Inputs, sess: Bundles]
        /\ proton \in [Sids -> ProtonSessions]
    <2>1. CASE /\ store = [creds |-> "none", sess |-> NoSession]
               /\ proton = [s \in Sids |-> [gen |-> 0, live |-> FALSE, scope |-> ""]]
      <3>1. [gen |-> 0, live |-> FALSE, scope |-> ""] \in ProtonSessions
        BY <1>1 DEF ProtonSessions, Scopes
      <3>2. QED BY <2>1, <3>1, BundleTyped DEF Inputs
    <2>2. ASSUME NEW sc \in InitScopes, NEW live \in BOOLEAN, NEW in \in LoginInputs,
                 /\ store = [creds |-> in, sess |-> [sid |-> 1, gen |-> 1, scope |-> sc]]
                 /\ proton = [s \in Sids |->
                      IF s = 1 THEN [gen |-> 1, live |-> live,
                                     scope |-> IF sc = "" THEN "full" ELSE sc]
                               ELSE [gen |-> 0, live |-> FALSE, scope |-> ""]]
          PROVE  /\ store \in [creds: Inputs, sess: Bundles]
                 /\ proton \in [Sids -> ProtonSessions]
      <3>1. /\ [gen |-> 0, live |-> FALSE, scope |-> ""] \in ProtonSessions
            /\ [gen |-> 1, live |-> live, scope |-> IF sc = "" THEN "full" ELSE sc]
                 \in ProtonSessions
        BY <1>1, <1>1a DEF ProtonSessions, Scopes
      <3>2. [sid |-> 1, gen |-> 1, scope |-> sc] \in Bundles
        BY <1>1, <1>1a DEF Bundles
      <3>3. QED BY <1>1a, <2>2, <3>1, <3>2
    <2>3. QED BY <2>1, <2>2 DEF Init
  <1>3. pc \in [Threads -> Labels] /\ frame \in [Threads -> Frames]
    BY NoFrameTyped DEF Init, FreshMemory, Labels
  <1>4. QED BY <1>1, <1>2, <1>3, BundleTyped DEF Init, FreshMemory, TypeOK

\* The induction step.
LEMMA NextTyped == TypeOK /\ [Next]_vars => TypeOK'
  <1> SUFFICES ASSUME TypeOK, [Next]_vars PROVE TypeOK'
    OBVIOUS
  <1>1. ASSUME NEW t \in Threads, Step(t) PROVE TypeOK'
    BY <1>1, ClientStepsTyped, LoginStepsTyped, RotationStepsTyped, KeyringStepsTyped
    DEF Step
  <1>2. ASSUME NEW t \in Threads, Call(t) PROVE TypeOK'
    BY <1>2, CallTyped
  <1>3. CASE UNCHANGED vars
    BY <1>3 DEF vars, TypeOK, locks, tokens, flags, latches, caches
  <1>4. QED BY <1>1, <1>2, <1>3, EnvironmentTyped DEF Next

\* Whatever the operations and faults, no step leaves the declared state space:
\* in particular a thread's locals are those of its call, and no rotation goes
\* past the last generation, which the guards of the rotations have to ensure.
THEOREM TypeCorrect == Spec => []TypeOK
  BY InitTyped, NextTyped, PTL DEF Spec

=============================================================================
