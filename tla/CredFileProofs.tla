--------------------------- MODULE CredFileProofs ---------------------------
(***************************************************************************)
(* The file store implements the abstract store, for every set of          *)
(* processes and bundles.  The invariant behind it: a process between its  *)
(* load and its rename holds the lock, so the document it loaded is still  *)
(* the file's, unless a Clear has removed it meanwhile.                    *)
(***************************************************************************)
EXTENDS CredFile, TLAPS

Empty == Relaxed!Empty
Holding == {"load", "write", "sync", "rename", "renamed"}

\* What a process knows at its position.
LockOf(p) == pc[p] \in Holding => lock = p
CallOf(p) ==
  /\ pc[p] \in Merging => op[p] \in Relaxed!Saves
  /\ pc[p] = "remove" => op[p] \in Relaxed!Clears
  /\ pc[p] = "read" => op[p] \in Relaxed!Loads
LoadedOf(p) ==
  pc[p] \in {"write", "sync", "rename"} =>
    \/ buf[p] = Relaxed!Saved(Doc, op[p])
    \/ /\ Doc = Empty /\ cleared[p] # Empty
       /\ buf[p] = Relaxed!Saved(cleared[p], op[p])
SyncedOf(p) == pc[p] = "rename" => p \notin dirty

Whole == file # Torn /\ disk # Torn /\ ~fileDirty

FileInv ==
  /\ TypeOK
  /\ Whole
  /\ \A p \in Procs : LockOf(p) /\ CallOf(p) /\ LoadedOf(p) /\ SyncedOf(p)

-----------------------------------------------------------------------------
\* A save turns a document into a document.
LEMMA SavedDoc ==
  ASSUME NEW d \in Relaxed!Docs, NEW c \in Relaxed!Saves
  PROVE  Relaxed!Saved(d, c) \in Relaxed!Docs
<1>1. CASE c \in [op: {"saveCreds"}, val: Creds]
  <2>1. c.op = "saveCreds" /\ c.val \in Creds  BY <1>1
  <2> QED  BY <2>1 DEF Relaxed!Docs, Relaxed!Saved
<1>2. CASE c \in [op: {"saveSession"}, val: Sessions]
  <2>1. c.op = "saveSession" /\ c.val \in Sessions  BY <1>2
  <2> QED  BY <2>1 DEF Relaxed!Docs, Relaxed!Saved
<1> QED  BY <1>1, <1>2 DEF Relaxed!Saves

\* The file, when it parses, is a document; so is what a power loss leaves.
LEMMA DocTyped ==
  ASSUME TypeOK
  PROVE  /\ Empty \in Relaxed!Docs
         /\ file # Torn => Doc \in Relaxed!Docs
BY DEF TypeOK, Doc, Relaxed!Docs, Relaxed!Empty, Empty

\* The calls of the three kinds of operation are different.
LEMMA CallKinds ==
  ASSUME NEW c
  PROVE  /\ c \in Relaxed!Saves => c.op \in {"saveCreds", "saveSession"}
         /\ c \in Relaxed!Clears => c.op = "clear"
         /\ c \in Relaxed!Loads => c.op \in {"loadCreds", "loadSession"}
BY DEF Relaxed!Saves, Relaxed!Clears, Relaxed!Loads

(***************************************************************************)
(* Type correctness.                                                       *)
(***************************************************************************)
LEMMA InitInv == Init => FileInv
<1> SUFFICES ASSUME Init PROVE FileInv  OBVIOUS
<1> USE NamesAssumption
<1>1. Empty \in Relaxed!Docs  BY DEF Empty, Relaxed!Empty, Relaxed!Docs
<1>2. TypeOK  BY <1>1 DEF Init, TypeOK, Labels, Empty
<1>3. Whole  BY DEF Init, Whole
<1>4. ASSUME NEW p \in Procs
      PROVE  LockOf(p) /\ CallOf(p) /\ LoadedOf(p) /\ SyncedOf(p)
  <2>1. pc[p] = "idle"  BY DEF Init
  <2> QED  BY <2>1 DEF LockOf, CallOf, LoadedOf, SyncedOf, Holding, Merging
<1> QED  BY <1>2, <1>3, <1>4 DEF FileInv

\* Every return leaves well-typed state.
LEMMA ReturnTyped ==
  ASSUME TypeOK, NEW p \in Procs, NEW v, Return(p, v),
         v \in Creds \cup Sessions \cup {None, "none", "ok", "error"},
         UNCHANGED <<file, fileDirty, disk>>
  PROVE  TypeOK'
<1>1. Empty \in Relaxed!Docs  BY DocTyped
<1>2. pc' \in [Procs -> Labels]  BY DEF TypeOK, Return, Goto, Labels
<1>3. op' \in [Procs -> Relaxed!Calls \cup {Relaxed!Idle}]  BY DEF TypeOK, Return
<1>4. buf' \in [Procs -> Relaxed!Docs] /\ cleared' \in [Procs -> Relaxed!Docs]
  BY <1>1 DEF TypeOK, Return, Empty
<1>5. lock' \in Procs \cup {NoProc} /\ dirty' \subseteq Procs  BY DEF TypeOK, Return
<1> QED  BY <1>2, <1>3, <1>4, <1>5 DEF TypeOK, Return

\* Every step of a call, and every beginning of one, leaves well-typed state.
LEMMA CallTyped ==
  ASSUME FileInv, NEW p \in Procs, Calling(p) \/ Step(p) \/ FlockFails(p) \/ Die(p)
  PROVE  TypeOK'
<1> USE DEF Goto
<1>0. TypeOK /\ Whole /\ CallOf(p)  BY DEF FileInv
<1>1. ASSUME NEW c \in Relaxed!Calls, NEW l \in Labels, Begin(p, c, l) PROVE TypeOK'
  <2>1. pc' \in [Procs -> Labels]  BY <1>0, <1>1 DEF TypeOK, Begin
  <2>2. op' \in [Procs -> Relaxed!Calls \cup {Relaxed!Idle}]
    BY <1>0, <1>1 DEF TypeOK, Begin
  <2> QED  BY <1>0, <1>1, <2>1, <2>2 DEF TypeOK, Begin
<1>2. CASE Calling(p)
  <2>1. "merge" \in Labels /\ "remove" \in Labels /\ "read" \in Labels
    BY DEF Labels, Merging
  <2> QED  BY <1>1, <1>2, <2>1
           DEF Calling, BeginSave, BeginClear, BeginLoad, Relaxed!Calls
<1>13. CASE Open(p)
  <2>1. pc' \in [Procs -> Labels]  BY <1>0, <1>13 DEF TypeOK, Open, Labels, Merging
  <2> QED  BY <1>0, <1>13, <2>1 DEF TypeOK, Open
<1>3. CASE Lock(p)
  <2>1. pc' \in [Procs -> Labels]  BY <1>0, <1>3 DEF TypeOK, Lock, Labels, Merging
  <2> QED  BY <1>0, <1>3, <2>1 DEF TypeOK, Lock
<1>4. CASE Load(p)
  <2>1. pc' \in [Procs -> Labels]  BY <1>0, <1>4 DEF TypeOK, Load, Labels, Merging
  <2>2. Relaxed!Saved(Doc, op[p]) \in Relaxed!Docs
    BY <1>0, <1>4, DocTyped, SavedDoc DEF Load, CallOf, Merging
  <2>3. buf' \in [Procs -> Relaxed!Docs]  BY <1>0, <1>4, <2>2 DEF TypeOK, Load
  <2> QED  BY <1>0, <1>4, <2>1, <2>3 DEF TypeOK, Load
<1>5. CASE Write(p)
  <2>1. pc' \in [Procs -> Labels]  BY <1>0, <1>5 DEF TypeOK, Write, Labels, Merging
  <2> QED  BY <1>0, <1>5, <2>1 DEF TypeOK, Write
<1>6. CASE Sync(p)
  <2>1. pc' \in [Procs -> Labels]  BY <1>0, <1>6 DEF TypeOK, Sync, Labels, Merging
  <2> QED  BY <1>0, <1>6, <2>1 DEF TypeOK, Sync
<1>7. CASE Rename(p)
  <2>1. pc' \in [Procs -> Labels]  BY <1>0, <1>7 DEF TypeOK, Rename, Labels
  <2>2. buf[p] \in Relaxed!Docs /\ Relaxed!Empty \in Relaxed!Docs
    BY <1>0, DocTyped DEF TypeOK, Empty
  <2>3. cleared' \in [Procs -> Relaxed!Docs]  BY <1>0, <1>7, <2>2 DEF TypeOK, Rename
  <2>4. file' \in Relaxed!Docs /\ fileDirty' \in BOOLEAN  BY <1>7, <2>2 DEF Rename
  <2> QED  BY <1>0, <1>7, <2>1, <2>3, <2>4 DEF TypeOK, Rename
<1>8. CASE Clear(p)
  <2>1. pc' \in [Procs -> Labels]  BY <1>0, <1>8 DEF TypeOK, Clear, Labels
  <2>2. Doc \in Relaxed!Docs  BY <1>0, DocTyped DEF Whole
  <2>3. cleared' \in [Procs -> Relaxed!Docs]  BY <1>0, <1>8, <2>2 DEF TypeOK, Clear
  <2> QED  BY <1>0, <1>8, <2>1, <2>3 DEF TypeOK, Clear
<1>9. CASE MergeFails(p) \/ FlockFails(p) \/ ClearFails(p) \/ LoadFails(p)
  BY <1>0, <1>9, ReturnTyped DEF MergeFails, FlockFails, ClearFails, LoadFails
<1>10. CASE Succeeds(p)  BY <1>0, <1>10, ReturnTyped DEF Succeeds
<1>11. CASE Die(p)  BY <1>0, <1>11, ReturnTyped DEF Die
<1>12. CASE LoadBundle(p)
  <2>1. Doc \in Relaxed!Docs  BY <1>0, DocTyped DEF Whole
  <2>2. Doc.creds \in Creds \cup {None} /\ Doc.sess \in Sessions \cup {None}
    BY <2>1 DEF Relaxed!Docs
  <2> QED  BY <1>0, <1>12, <2>2, ReturnTyped DEF LoadBundle
<1> QED  BY <1>2, <1>3, <1>4, <1>5, <1>6, <1>7, <1>8, <1>9, <1>10, <1>11, <1>12, <1>13
         DEF Step

LEMMA EnvironmentTyped ==
  ASSUME FileInv, Flush \/ PowerLoss
  PROVE  TypeOK'
<1>0. TypeOK /\ Empty \in Relaxed!Docs  BY DocTyped DEF FileInv
<1>1. CASE Flush  BY <1>0, <1>1 DEF Flush, TypeOK
<1>2. CASE PowerLoss
  <2>1. pc' \in [Procs -> Labels]  BY <1>2 DEF PowerLoss, Labels
  <2>2. op' \in [Procs -> Relaxed!Calls \cup {Relaxed!Idle}]  BY <1>2 DEF PowerLoss
  <2>3. buf' \in [Procs -> Relaxed!Docs] /\ cleared' \in [Procs -> Relaxed!Docs]
    BY <1>0, <1>2 DEF PowerLoss, Empty
  <2> QED  BY <1>0, <1>2, <2>1, <2>2, <2>3 DEF TypeOK, PowerLoss
<1> QED  BY <1>1, <1>2

(***************************************************************************)
(* What a step of process q does to another process p: p's position, call, *)
(* document and temporary file are its own, its lock stays its own, and    *)
(* the file changes only by q's rename, made with the lock, or by a Clear. *)
(***************************************************************************)
Untouched(p) ==
  /\ pc'[p] = pc[p] /\ op'[p] = op[p] /\ buf'[p] = buf[p]
  /\ lock = p => lock' = p
  /\ p \in dirty' <=> p \in dirty
FileKept(p) == Doc' = Doc /\ cleared'[p] = cleared[p]
FileCleared(p) ==
  /\ Doc' = Empty
  /\ cleared'[p] = IF pc[p] \in Merging /\ Doc # Empty THEN Doc ELSE cleared[p]
Bystander(q, p) ==
  /\ Untouched(p)
  /\ FileKept(p) \/ FileCleared(p) \/ lock = q

LEMMA ReturnBystander ==
  ASSUME TypeOK, NEW q \in Procs, NEW p \in Procs, p # q, NEW v, Return(q, v),
         UNCHANGED <<file, fileDirty, disk>>
  PROVE  Bystander(q, p)
<1>1. Untouched(p)  BY DEF TypeOK, Return, Goto, Untouched
<1>2. FileKept(p)  BY DEF TypeOK, Return, FileKept, Doc
<1> QED  BY <1>1, <1>2 DEF Bystander

LEMMA Footprint ==
  ASSUME FileInv, NEW q \in Procs, NEW p \in Procs, p # q,
         Calling(q) \/ Step(q) \/ FlockFails(q) \/ Die(q)
  PROVE  Bystander(q, p)
<1> USE DEF Goto
<1>0. TypeOK /\ LockOf(q)  BY DEF FileInv
<1>1. ASSUME NEW c, NEW l, Begin(q, c, l) PROVE Bystander(q, p)
  <2>1. Untouched(p)  BY <1>0, <1>1 DEF TypeOK, Begin, Untouched
  <2>2. FileKept(p)  BY <1>0, <1>1 DEF TypeOK, Begin, FileKept, Doc
  <2> QED  BY <2>1, <2>2 DEF Bystander
<1>2. CASE Calling(q)  BY <1>1, <1>2 DEF Calling, BeginSave, BeginClear, BeginLoad
<1>10. CASE Open(q)
  <2>1. Untouched(p)  BY <1>0, <1>10 DEF TypeOK, Open, Untouched
  <2>2. FileKept(p)  BY <1>0, <1>10 DEF TypeOK, Open, FileKept, Doc
  <2> QED  BY <2>1, <2>2 DEF Bystander
<1>3. CASE Lock(q)
  <2>1. Untouched(p)  BY <1>0, <1>3, NamesAssumption DEF TypeOK, Lock, Untouched
  <2>2. FileKept(p)  BY <1>0, <1>3 DEF TypeOK, Lock, FileKept, Doc
  <2> QED  BY <2>1, <2>2 DEF Bystander
<1>4. CASE Load(q)
  <2>1. Untouched(p)  BY <1>0, <1>4 DEF TypeOK, Load, Untouched
  <2>2. FileKept(p)  BY <1>0, <1>4 DEF TypeOK, Load, FileKept, Doc
  <2> QED  BY <2>1, <2>2 DEF Bystander
<1>5. CASE Write(q)
  <2>1. Untouched(p)  BY <1>0, <1>5 DEF TypeOK, Write, Untouched
  <2>2. FileKept(p)  BY <1>0, <1>5 DEF TypeOK, Write, FileKept, Doc
  <2> QED  BY <2>1, <2>2 DEF Bystander
<1>6. CASE Sync(q)
  <2>1. Untouched(p)  BY <1>0, <1>6 DEF TypeOK, Sync, Untouched
  <2>2. FileKept(p)  BY <1>0, <1>6 DEF TypeOK, Sync, FileKept, Doc
  <2> QED  BY <2>1, <2>2 DEF Bystander
<1>7. CASE Rename(q)
  <2>1. Untouched(p)  BY <1>0, <1>7 DEF TypeOK, Rename, Untouched
  <2>2. lock = q  BY <1>0, <1>7 DEF Rename, LockOf, Holding
  <2> QED  BY <2>1, <2>2 DEF Bystander
<1>8. CASE Clear(q)
  <2>1. Untouched(p)  BY <1>0, <1>8 DEF TypeOK, Clear, Untouched
  <2>2. Doc' = Empty  BY <1>8 DEF Clear, Doc, Empty, Relaxed!Empty
  <2>3. FileCleared(p)  BY <1>0, <1>8, <2>2 DEF TypeOK, Clear, FileCleared, Empty
  <2> QED  BY <2>1, <2>3 DEF Bystander
<1>9. CASE MergeFails(q) \/ FlockFails(q) \/ ClearFails(q) \/ LoadFails(q)
           \/ Succeeds(q) \/ LoadBundle(q) \/ Die(q)
  BY <1>0, <1>9, ReturnBystander
     DEF MergeFails, FlockFails, ClearFails, LoadFails, Succeeds, LoadBundle, Die
<1> QED  BY <1>2, <1>3, <1>4, <1>5, <1>6, <1>7, <1>8, <1>9, <1>10 DEF Step

\* A step of q keeps what another process p knows.
Knows(p) == LockOf(p) /\ CallOf(p) /\ LoadedOf(p) /\ SyncedOf(p)

LEMMA BystanderKnows ==
  ASSUME FileInv, NEW q \in Procs, NEW p \in Procs, p # q, Bystander(q, p)
  PROVE  Knows(p)'
<1>0. Knows(p)  BY DEF FileInv, Knows
<1>1. Untouched(p)  BY DEF Bystander
<1>2. LockOf(p)'  BY <1>0, <1>1 DEF Knows, LockOf, Untouched
<1>3. CallOf(p)'  BY <1>0, <1>1 DEF Knows, CallOf, Untouched
<1>4. SyncedOf(p)'  BY <1>0, <1>1 DEF Knows, SyncedOf, Untouched
<1>5. LoadedOf(p)'
  <2> SUFFICES ASSUME pc[p] \in {"write", "sync", "rename"}
               PROVE  \/ buf[p] = Relaxed!Saved(Doc', op[p])
                      \/ /\ Doc' = Empty /\ cleared'[p] # Empty
                         /\ buf[p] = Relaxed!Saved(cleared'[p], op[p])
    BY <1>1 DEF LoadedOf, Untouched, Relaxed!Saved
  <2>1. lock = p  BY <1>0 DEF Knows, LockOf, Holding
  <2>2. \/ buf[p] = Relaxed!Saved(Doc, op[p])
        \/ /\ Doc = Empty /\ cleared[p] # Empty
           /\ buf[p] = Relaxed!Saved(cleared[p], op[p])
    BY <1>0 DEF Knows, LoadedOf
  <2>3. CASE FileKept(p)  BY <2>2, <2>3 DEF FileKept
  <2>4. CASE FileCleared(p)
    <3>1. pc[p] \in Merging  BY DEF Merging
    <3>2. CASE Doc = Empty
      BY <2>2, <2>4, <3>2 DEF FileCleared
    <3>3. CASE Doc # Empty
      BY <2>2, <2>4, <3>1, <3>3 DEF FileCleared
    <3> QED  BY <3>2, <3>3
  <2> QED  BY <2>1, <2>3, <2>4 DEF Bystander
<1> QED  BY <1>2, <1>3, <1>4, <1>5 DEF Knows

(***************************************************************************)
(* What the acting process knows after its step.                           *)
(***************************************************************************)
\* A process that makes no call knows everything.
LEMMA IdleKnows ==
  ASSUME NEW p, pc'[p] = "idle"
  PROVE  Knows(p)'
BY DEF Knows, LockOf, CallOf, LoadedOf, SyncedOf, Holding, Merging

LEMMA ActorKnows ==
  ASSUME FileInv, NEW p \in Procs, Calling(p) \/ Step(p) \/ FlockFails(p) \/ Die(p)
  PROVE  Knows(p)'
<1> USE DEF Goto
<1>0. TypeOK /\ Whole /\ Knows(p)  BY DEF FileInv, Knows
<1>1. ASSUME NEW v, Return(p, v) PROVE Knows(p)'
  <2>1. pc'[p] = "idle"  BY <1>0, <1>1 DEF TypeOK, Return
  <2> QED  BY <2>1, IdleKnows
<1>2. CASE Calling(p)
  <2>1. ASSUME NEW c, NEW l, Begin(p, c, l) PROVE pc'[p] = l /\ op'[p] = c
    BY <1>0, <2>1 DEF TypeOK, Begin
  <2>2. CASE BeginSave(p)
    <3>1. pc'[p] = "merge" /\ op'[p] \in Relaxed!Saves  BY <2>1, <2>2 DEF BeginSave
    <3> QED  BY <3>1 DEF Knows, LockOf, CallOf, LoadedOf, SyncedOf, Holding
  <2>3. CASE BeginClear(p)
    <3>1. pc'[p] = "remove" /\ op'[p] \in Relaxed!Clears  BY <2>1, <2>3 DEF BeginClear
    <3> QED  BY <3>1 DEF Knows, LockOf, CallOf, LoadedOf, SyncedOf, Holding, Merging
  <2>4. CASE BeginLoad(p)
    <3>1. pc'[p] = "read" /\ op'[p] \in Relaxed!Loads  BY <2>1, <2>4 DEF BeginLoad
    <3> QED  BY <3>1 DEF Knows, LockOf, CallOf, LoadedOf, SyncedOf, Holding, Merging
  <2> QED  BY <1>2, <2>2, <2>3, <2>4 DEF Calling
<1>10. CASE Open(p)
  <2>1. pc'[p] = "flock" /\ op'[p] = op[p] /\ pc[p] = "merge"
    BY <1>0, <1>10 DEF TypeOK, Open
  <2> QED  BY <1>0, <2>1 DEF Knows, LockOf, CallOf, LoadedOf, SyncedOf, Merging, Holding
<1>3. CASE Lock(p)
  <2>1. pc'[p] = "load" /\ op'[p] = op[p] /\ lock' = p /\ pc[p] = "flock"
    BY <1>0, <1>3 DEF TypeOK, Lock
  <2> QED  BY <1>0, <2>1 DEF Knows, LockOf, CallOf, LoadedOf, SyncedOf, Merging
<1>4. CASE Load(p)
  <2>1. pc'[p] = "write" /\ op'[p] = op[p] /\ lock' = lock /\ pc[p] = "load"
    BY <1>0, <1>4 DEF TypeOK, Load
  <2>2. buf'[p] = Relaxed!Saved(Doc, op[p]) /\ Doc' = Doc
    BY <1>0, <1>4 DEF TypeOK, Load, Doc
  <2>3. LoadedOf(p)'  BY <2>1, <2>2 DEF LoadedOf, Relaxed!Saved
  <2> QED  BY <1>0, <2>1, <2>3 DEF Knows, LockOf, CallOf, SyncedOf, Merging, Holding
<1>5. CASE Write(p)
  <2>1. pc'[p] = "sync" /\ op' = op /\ lock' = lock /\ pc[p] = "write"
    BY <1>0, <1>5 DEF TypeOK, Write
  <2>2. buf' = buf /\ cleared' = cleared /\ Doc' = Doc  BY <1>5 DEF Write, Doc
  <2>3. LoadedOf(p)'  BY <1>0, <2>1, <2>2 DEF Knows, LoadedOf, Relaxed!Saved
  <2> QED  BY <1>0, <2>1, <2>3 DEF Knows, LockOf, CallOf, SyncedOf, Merging, Holding
<1>6. CASE Sync(p)
  <2>1. /\ pc'[p] = "rename" /\ op' = op /\ lock' = lock /\ pc[p] = "sync"
        /\ p \notin dirty'
    BY <1>0, <1>6 DEF TypeOK, Sync
  <2>2. buf' = buf /\ cleared' = cleared /\ Doc' = Doc  BY <1>6 DEF Sync, Doc
  <2>3. LoadedOf(p)'  BY <1>0, <2>1, <2>2 DEF Knows, LoadedOf, Relaxed!Saved
  <2> QED  BY <1>0, <2>1, <2>3 DEF Knows, LockOf, CallOf, SyncedOf, Merging, Holding
<1>7. CASE Rename(p)
  <2>1. pc'[p] = "renamed" /\ lock' = lock /\ pc[p] = "rename"
    BY <1>0, <1>7 DEF TypeOK, Rename
  <2> QED  BY <1>0, <2>1 DEF Knows, LockOf, CallOf, LoadedOf, SyncedOf, Merging, Holding
<1>8. CASE Clear(p)
  <2>1. pc'[p] = "removed"  BY <1>0, <1>8 DEF TypeOK, Clear
  <2> QED  BY <2>1 DEF Knows, LockOf, CallOf, LoadedOf, SyncedOf, Merging, Holding
<1>9. CASE MergeFails(p) \/ FlockFails(p) \/ ClearFails(p) \/ LoadFails(p)
           \/ Succeeds(p) \/ LoadBundle(p) \/ Die(p)
  BY <1>1, <1>9 DEF MergeFails, FlockFails, ClearFails, LoadFails, Succeeds, LoadBundle, Die
<1> QED  BY <1>2, <1>3, <1>4, <1>5, <1>6, <1>7, <1>8, <1>9, <1>10 DEF Step

\* The document is never torn: only a synced file is renamed over it.
LEMMA WholeKept ==
  ASSUME FileInv, Next
  PROVE  Whole'
<1>0. Whole /\ TypeOK  BY DEF FileInv
<1>1. CASE \E p \in Procs : Rename(p)
  <2> PICK p \in Procs : Rename(p)  BY <1>1
  <2>1. buf[p] \in Relaxed!Docs  BY <1>0 DEF TypeOK
  <2>2. file' # Torn  BY <2>1, NamesAssumption DEF Rename
  <2>3. SyncedOf(p) /\ pc[p] = "rename"  BY DEF FileInv, Rename
  <2>4. p \notin dirty  BY <2>3 DEF SyncedOf
  <2>5. fileDirty' = (p \in dirty)  BY DEF Rename
  <2>6. ~fileDirty'  BY <2>4, <2>5
  <2> QED  BY <1>0, <2>2, <2>6 DEF Whole, Rename
<1>2. CASE \E p \in Procs : Clear(p)
  BY <1>0, <1>2, NamesAssumption DEF Whole, Clear
<1>3. CASE Flush \/ PowerLoss  BY <1>0, <1>3 DEF Whole, Flush, PowerLoss
<1>4. CASE \E p \in Procs : \/ Calling(p) \/ Open(p) \/ Lock(p) \/ Load(p) \/ Write(p)
                            \/ Sync(p) \/ MergeFails(p) \/ FlockFails(p)
                            \/ ClearFails(p) \/ Succeeds(p)
                            \/ LoadBundle(p) \/ LoadFails(p) \/ Die(p)
  <2>1. UNCHANGED <<file, fileDirty, disk>>
    BY <1>4 DEF Calling, BeginSave, BeginClear, BeginLoad, Begin, Open, Lock, Load, Write,
                Sync, MergeFails, FlockFails, ClearFails, Succeeds, LoadBundle, LoadFails, Die
  <2> QED  BY <1>0, <2>1 DEF Whole
<1> QED  BY <1>1, <1>2, <1>3, <1>4 DEF Next, Step

LEMMA NextInv == FileInv /\ [Next]_vars => FileInv'
<1> SUFFICES ASSUME FileInv, [Next]_vars PROVE FileInv'  OBVIOUS
<1>1. CASE \E q \in Procs : Calling(q) \/ Step(q) \/ FlockFails(q) \/ Die(q)
  <2> PICK q \in Procs : Calling(q) \/ Step(q) \/ FlockFails(q) \/ Die(q)  BY <1>1
  <2>1. TypeOK'  BY CallTyped
  <2>2. Whole'  BY <1>1, WholeKept DEF Next
  <2>3. ASSUME NEW p \in Procs PROVE Knows(p)'
    <3>1. CASE p = q  BY <3>1, ActorKnows
    <3>2. CASE p # q
      <4>1. Bystander(q, p)  BY <3>2, Footprint
      <4> QED  BY <3>2, <4>1, BystanderKnows
    <3> QED  BY <3>1, <3>2
  <2> QED  BY <2>1, <2>2, <2>3 DEF FileInv, Knows
<1>2. CASE Flush
  <2>1. TypeOK'  BY <1>2, EnvironmentTyped
  <2>2. Whole'  BY <1>2, WholeKept DEF Next
  <2>3. ASSUME NEW p \in Procs PROVE Knows(p)'
    <3>1. Knows(p)  BY DEF FileInv, Knows
    <3>2. LockOf(p)' /\ CallOf(p)' /\ SyncedOf(p)'
      BY <1>2, <3>1 DEF Knows, LockOf, CallOf, SyncedOf, Flush
    <3>3. LoadedOf(p)'
      BY <1>2, <3>1 DEF Knows, LoadedOf, Flush, Doc, Relaxed!Saved
    <3> QED  BY <3>2, <3>3 DEF Knows
  <2> QED  BY <2>1, <2>2, <2>3 DEF FileInv, Knows
<1>3. CASE PowerLoss
  <2>1. TypeOK'  BY <1>3, EnvironmentTyped
  <2>2. Whole'  BY <1>3, WholeKept DEF Next
  <2>3. ASSUME NEW p \in Procs PROVE Knows(p)'
    <3>1. pc'[p] = "idle"  BY <1>3 DEF PowerLoss
    <3> QED  BY <3>1, IdleKnows
  <2> QED  BY <2>1, <2>2, <2>3 DEF FileInv, Knows
<1>4. CASE UNCHANGED vars
  <2>1. TypeOK' /\ Whole'  BY <1>4 DEF FileInv, TypeOK, Whole, vars
  <2>2. ASSUME NEW p \in Procs PROVE Knows(p)'
    <3>1. Knows(p)  BY DEF FileInv, Knows
    <3>2. LockOf(p)' /\ CallOf(p)' /\ SyncedOf(p)'
      BY <1>4, <3>1 DEF Knows, LockOf, CallOf, SyncedOf, vars
    <3>3. LoadedOf(p)'
      BY <1>4, <3>1 DEF Knows, LoadedOf, vars, Doc, Relaxed!Saved
    <3> QED  BY <3>2, <3>3 DEF Knows
  <2> QED  BY <2>1, <2>2 DEF FileInv, Knows
<1> QED  BY <1>1, <1>2, <1>3, <1>4 DEF Next

\* The invariant of the file store: who is between load and rename holds the
\* lock and has the file's document with its change, or what a Clear removed.
THEOREM FileInvariant == Spec => []FileInv
<1> QED  BY InitInv, NextInv, PTL DEF Spec

\* Type correctness of the calls, the file, the temporary file and what a power
\* failure would leave of them, for every set of processes and values.
THEOREM TypeCorrect == Spec => []TypeOK
<1>1. FileInv => TypeOK  BY DEF FileInv
<1> QED  BY <1>1, FileInvariant, PTL

\* Whatever dies and whenever the power fails, the document parses.
THEOREM DocumentWhole == Spec => []NeverTorn
<1>1. FileInv => NeverTorn  BY DEF FileInv, Whole, NeverTorn
<1> QED  BY <1>1, FileInvariant, PTL

(***************************************************************************)
(* Refinement: every step of the file store is one of the abstract store,  *)
(* or leaves its variables alone.                                          *)
(***************************************************************************)
LEMMA InitRefines == Init => Relaxed!Init
<1> SUFFICES ASSUME Init PROVE Relaxed!Init  OBVIOUS
<1>1. Doc \in Relaxed!Docs
  BY InitInv, DocTyped, NamesAssumption DEF FileInv, Whole
<1>2. DurableDoc = Doc  BY DEF Init, DurableDoc, Doc
<1>3. AbstractCall = [p \in Procs |-> Relaxed!Idle]
  BY DEF Init, AbstractCall, Relaxed!Idle
<1> QED  BY <1>1, <1>2, <1>3 DEF Init, Relaxed!Init

\* The abstract call of a process, by its position.
LEMMA CallMapped ==
  ASSUME TypeOK, NEW p \in Procs
  PROVE  /\ pc[p] = "idle" => AbstractCall[p] = Relaxed!Idle
         /\ pc[p] \in {"renamed", "removed"} => AbstractCall[p] = Relaxed!Done
         /\ pc[p] \in Merging \cup {"remove", "read"} => AbstractCall[p] = op[p]
<1>1. pc[p] \in Labels  BY DEF TypeOK
<1> QED  BY <1>1 DEF AbstractCall, Relaxed!Idle, Relaxed!Done, Labels, Merging

\* A step of p changes no other process's abstract call.
LEMMA CallsMove ==
  ASSUME FileInv, NEW p \in Procs, Calling(p) \/ Step(p) \/ FlockFails(p) \/ Die(p), NEW c,
         AbstractCall'[p] = c
  PROVE  AbstractCall' = [AbstractCall EXCEPT ![p] = c]
<1>1. ASSUME NEW q \in Procs, q # p PROVE AbstractCall'[q] = AbstractCall[q]
  <2>1. Untouched(q)  BY <1>1, Footprint DEF Bystander
  <2>2. pc'[q] = pc[q] /\ op'[q] = op[q]  BY <2>1 DEF Untouched
  <2>3. TypeOK /\ TypeOK'  BY CallTyped DEF FileInv
  <2>4. pc[q] \in Labels  BY <2>3 DEF TypeOK
  <2> QED  BY <2>2, <2>4 DEF AbstractCall
<1>2. AbstractCall = [q \in Procs |-> AbstractCall[q]]  BY DEF AbstractCall
<1>3. AbstractCall' = [q \in Procs |-> AbstractCall'[q]]  BY DEF AbstractCall
<1> QED  BY <1>1, <1>2, <1>3

\* The abstract call after a step, in the position the step leads to.
LEMMA CallMappedNext ==
  ASSUME FileInv, NEW p \in Procs, Calling(p) \/ Step(p) \/ FlockFails(p) \/ Die(p)
  PROVE  /\ pc'[p] = "idle" => AbstractCall'[p] = Relaxed!Idle
         /\ pc'[p] \in {"renamed", "removed"} => AbstractCall'[p] = Relaxed!Done
         /\ pc'[p] \in Merging \cup {"remove", "read"} => AbstractCall'[p] = op'[p]
<1>1. TypeOK'  BY CallTyped
<1>2. pc'[p] \in Labels  BY <1>1 DEF TypeOK
<1> QED  BY <1>2 DEF AbstractCall, Relaxed!Idle, Relaxed!Done, Labels, Merging

\* A return is a return of the abstract store.
LEMMA ReturnRefines ==
  ASSUME FileInv, NEW p \in Procs, Calling(p) \/ Step(p) \/ FlockFails(p) \/ Die(p),
         NEW v, Return(p, v), UNCHANGED <<file, fileDirty, disk>>
  PROVE  Relaxed!Return(p, v)
<1>1. TypeOK  BY DEF FileInv
<1>2. pc'[p] = "idle"  BY <1>1 DEF TypeOK, Return, Goto
<1>3. AbstractCall' = [AbstractCall EXCEPT ![p] = Relaxed!Idle]
  BY <1>2, CallMappedNext, CallsMove
<1>4. Doc' = Doc /\ DurableDoc' = DurableDoc  BY DEF Doc, DurableDoc
<1>5. ret' = v /\ cleared' = [cleared EXCEPT ![p] = Relaxed!Empty]  BY DEF Return
<1> QED  BY <1>3, <1>4, <1>5 DEF Relaxed!Return, Relaxed!Empty, Relaxed!Idle

\* Which calls have not taken effect yet, on both levels.
LEMMA SavesMapped ==
  ASSUME FileInv, NEW q \in Procs
  PROVE  AbstractCall[q] \in Relaxed!Saves <=> pc[q] \in Merging
<1>0. TypeOK /\ CallOf(q)  BY DEF FileInv
<1>1. pc[q] \in Labels  BY <1>0 DEF TypeOK
<1>2. CASE pc[q] \in Merging  BY <1>0, <1>2, CallMapped DEF CallOf
<1>3. CASE pc[q] \in {"remove", "read"}
  <2>1. AbstractCall[q] = op[q]  BY <1>0, <1>3, CallMapped
  <2>2. op[q] \in Relaxed!Clears \cup Relaxed!Loads  BY <1>0, <1>3 DEF CallOf
  <2>3. op[q] \notin Relaxed!Saves  BY <2>2, CallKinds
  <2> QED  BY <1>3, <2>1, <2>3 DEF Merging
<1>4. CASE pc[q] \in {"idle", "renamed", "removed"}
  <2>1. AbstractCall[q] \in {Relaxed!Idle, Relaxed!Done}  BY <1>0, <1>4, CallMapped
  <2>2. AbstractCall[q].op \in {"idle", "done"}
    BY <2>1 DEF Relaxed!Idle, Relaxed!Done
  <2>3. AbstractCall[q] \notin Relaxed!Saves  BY <2>2, CallKinds
  <2> QED  BY <1>4, <2>3 DEF Merging
<1> QED  BY <1>1, <1>2, <1>3, <1>4 DEF Labels

\* The steps of a save before its rename are invisible.
LEMMA HiddenSteps ==
  ASSUME FileInv, NEW p \in Procs, Open(p) \/ Lock(p) \/ Load(p) \/ Write(p) \/ Sync(p)
  PROVE  UNCHANGED Relaxed!vars
<1>0. TypeOK  BY DEF FileInv
<1>1. pc[p] \in Merging /\ pc'[p] \in Merging /\ op' = op
  BY <1>0 DEF TypeOK, Open, Lock, Load, Write, Sync, Goto, Merging
<1>2. UNCHANGED <<file, disk, ret, cleared>>  BY DEF Open, Lock, Load, Write, Sync
<1>3. Doc' = Doc /\ DurableDoc' = DurableDoc  BY <1>2 DEF Doc, DurableDoc
<1>4. Step(p)  BY DEF Step
<1>5. AbstractCall'[p] = AbstractCall[p]
  BY <1>0, <1>1, <1>4, CallMapped, CallMappedNext
<1>6. AbstractCall' = [AbstractCall EXCEPT ![p] = AbstractCall[p]]
  BY <1>4, <1>5, CallsMove
<1>7. AbstractCall' = AbstractCall  BY <1>6 DEF AbstractCall
<1> QED  BY <1>2, <1>3, <1>7 DEF Relaxed!vars

\* The rename is where a save takes effect: on the file as it is, or, if a
\* Clear came between, on what that Clear removed.
LEMMA RenameRefines ==
  ASSUME FileInv, NEW p \in Procs, Rename(p)
  PROVE  Relaxed!Save(p)
<1>0. TypeOK /\ Whole /\ CallOf(p) /\ LoadedOf(p)  BY DEF FileInv
<1>1. pc[p] = "rename" /\ pc'[p] = "renamed"  BY <1>0 DEF TypeOK, Rename, Goto
<1>2. Step(p)  BY DEF Step
<1>3. AbstractCall[p] = op[p] /\ op[p] \in Relaxed!Saves
  BY <1>0, <1>1, CallMapped DEF CallOf, Merging
<1>4. AbstractCall' = [AbstractCall EXCEPT ![p] = Relaxed!Done]
  BY <1>1, <1>2, CallMappedNext, CallsMove
<1>5. Doc' = buf[p]
  <2>1. buf[p] \in Relaxed!Docs  BY <1>0 DEF TypeOK
  <2> QED  BY <2>1, NamesAssumption DEF Rename, Doc
<1>6. DurableDoc' = DurableDoc /\ ret' = ret  BY DEF Rename, DurableDoc
<1>7. cleared' = [cleared EXCEPT ![p] = Relaxed!Empty]  BY DEF Rename
<1>8. \E d \in {Doc} \cup (IF FALSE \/ cleared[p] = Relaxed!Empty THEN {} ELSE {cleared[p]}) :
         Doc' = Relaxed!Saved(d, op[p])
  <2>1. \/ buf[p] = Relaxed!Saved(Doc, op[p])
        \/ cleared[p] # Relaxed!Empty /\ buf[p] = Relaxed!Saved(cleared[p], op[p])
    BY <1>0, <1>1 DEF LoadedOf, Empty
  <2> QED  BY <1>5, <2>1
<1> QED  BY <1>3, <1>4, <1>6, <1>7, <1>8
         DEF Relaxed!Save, Relaxed!Done, Relaxed!Empty

\* Clear takes effect when it removes the file.
LEMMA ClearRefines ==
  ASSUME FileInv, NEW p \in Procs, Clear(p)
  PROVE  Relaxed!Clear(p)
<1>0. TypeOK /\ CallOf(p)  BY DEF FileInv
<1>1. pc[p] = "remove" /\ pc'[p] = "removed"  BY <1>0 DEF TypeOK, Clear, Goto
<1>2. Step(p)  BY DEF Step
<1>3. AbstractCall[p] = op[p] /\ op[p] \in Relaxed!Clears
  BY <1>0, <1>1, CallMapped DEF CallOf
<1>4. AbstractCall' = [AbstractCall EXCEPT ![p] = Relaxed!Done]
  BY <1>1, <1>2, CallMappedNext, CallsMove
<1>5. Doc' = Relaxed!Empty  BY DEF Clear, Doc, Relaxed!Empty
<1>6. DurableDoc' = DurableDoc /\ ret' = ret  BY DEF Clear, DurableDoc
<1>7. cleared' = [q \in Procs |->
                    IF AbstractCall[q] \in Relaxed!Saves /\ Doc # Relaxed!Empty
                    THEN Doc ELSE cleared[q]]
  BY SavesMapped DEF Clear
<1> QED  BY <1>3, <1>4, <1>5, <1>6, <1>7 DEF Relaxed!Clear, Relaxed!Done, Relaxed!Empty

\* A call begins on both levels.
LEMMA BeginRefines ==
  ASSUME FileInv, NEW p \in Procs, Calling(p)
  PROVE  Relaxed!Begin(p)
<1>0. TypeOK  BY DEF FileInv
<1>1. PICK c \in Relaxed!Calls, l \in Merging \cup {"remove", "read"} : Begin(p, c, l)
  BY DEF Calling, BeginSave, BeginClear, BeginLoad, Relaxed!Calls, Merging
<1>2. pc[p] = "idle" /\ pc'[p] = l /\ op'[p] = c
  BY <1>0, <1>1 DEF TypeOK, Begin, Goto
<1>3. AbstractCall[p] = Relaxed!Idle  BY <1>0, <1>2, CallMapped
<1>4. AbstractCall' = [AbstractCall EXCEPT ![p] = c]
  BY <1>2, CallMappedNext, CallsMove
<1>5. UNCHANGED <<Doc, DurableDoc, ret, cleared>>
  BY <1>1 DEF Begin, Doc, DurableDoc
<1> QED  BY <1>3, <1>4, <1>5
         DEF Relaxed!Begin, Relaxed!Idle, Relaxed!Calls, Relaxed!Saves, Relaxed!Clears,
             Relaxed!Loads

\* A call ends on both levels, with the same answer.
LEMMA EndRefines ==
  ASSUME FileInv, NEW p \in Procs,
         \/ MergeFails(p) \/ FlockFails(p) \/ ClearFails(p) \/ LoadFails(p)
         \/ Succeeds(p) \/ LoadBundle(p) \/ Die(p)
  PROVE  Relaxed!Fail(p) \/ Relaxed!Succeed(p) \/ Relaxed!Load(p) \/ Relaxed!Die(p)
<1>0. TypeOK /\ CallOf(p) /\ Whole  BY DEF FileInv
<1>1. Step(p) \/ FlockFails(p) \/ Die(p)  BY DEF Step
<1>2. ASSUME pc[p] \in Merging \cup {"remove", "read"}
      PROVE  AbstractCall[p] = op[p] /\ op[p] \in Relaxed!Calls
  BY <1>0, <1>2, CallMapped DEF CallOf, Relaxed!Calls
<1>3. CASE MergeFails(p) \/ FlockFails(p) \/ ClearFails(p) \/ LoadFails(p)
  <2>1. /\ Return(p, "error") /\ UNCHANGED <<file, fileDirty, disk>>
        /\ pc[p] \in Merging \cup {"remove", "read"}
    BY <1>3 DEF MergeFails, FlockFails, ClearFails, LoadFails, Merging
  <2>2. Relaxed!Return(p, "error")  BY <1>1, <2>1, ReturnRefines
  <2> QED  BY <1>2, <2>1, <2>2 DEF Relaxed!Fail
<1>4. CASE Succeeds(p)
  <2>1. /\ Return(p, "ok") /\ UNCHANGED <<file, fileDirty, disk>>
        /\ pc[p] \in {"renamed", "removed"}
    BY <1>4 DEF Succeeds
  <2>2. Relaxed!Return(p, "ok")  BY <1>1, <2>1, ReturnRefines
  <2>3. AbstractCall[p] = Relaxed!Done  BY <1>0, <2>1, CallMapped
  <2> QED  BY <2>2, <2>3 DEF Relaxed!Succeed, Relaxed!Done
<1>5. CASE LoadBundle(p)
  <2> DEFINE v == IF op[p].op = "loadCreds" THEN Doc.creds ELSE Doc.sess
  <2>1. Return(p, v) /\ UNCHANGED <<file, fileDirty, disk>> /\ pc[p] = "read"
    BY <1>5 DEF LoadBundle
  <2> HIDE DEF v
  <2>2. Relaxed!Return(p, v)  BY <1>1, <2>1, ReturnRefines
  <2>3. AbstractCall[p] = op[p] /\ op[p] \in Relaxed!Loads
    BY <1>0, <2>1, CallMapped DEF CallOf
  <2>4. Relaxed!Return(p, IF AbstractCall[p].op = "loadCreds" THEN Doc.creds ELSE Doc.sess)
    BY <2>2, <2>3 DEF v
  <2> QED  BY <2>3, <2>4 DEF Relaxed!Load, Relaxed!Loads
<1>6. CASE Die(p)
  <2>1. Return(p, "none") /\ UNCHANGED <<file, fileDirty, disk>> /\ pc[p] # "idle"
    BY <1>6 DEF Die
  <2>2. Relaxed!Return(p, "none")  BY <1>1, <2>1, ReturnRefines
  <2>3. AbstractCall[p] # Relaxed!Idle
    <3>1. pc[p] \in Labels  BY <1>0 DEF TypeOK
    <3>2. CASE pc[p] \in {"renamed", "removed"}
      BY <1>0, <3>2, CallMapped DEF Relaxed!Done, Relaxed!Idle
    <3>3. CASE pc[p] \in Merging \cup {"remove", "read"}
      <4>1. AbstractCall[p] = op[p] /\ op[p] \in Relaxed!Calls  BY <1>2, <3>3
      <4>2. op[p].op # "idle"  BY <4>1, CallKinds DEF Relaxed!Calls
      <4> QED  BY <4>1, <4>2 DEF Relaxed!Idle
    <3> QED  BY <2>1, <3>1, <3>2, <3>3 DEF Labels
  <2> QED  BY <2>2, <2>3 DEF Relaxed!Die, Relaxed!Idle
<1> QED  BY <1>3, <1>4, <1>5, <1>6

\* Flushing and losing the document happens on both levels.
LEMMA EnvironmentRefines ==
  ASSUME FileInv, Flush \/ PowerLoss
  PROVE  Relaxed!Persist \/ Relaxed!PowerLoss
<1>0. TypeOK /\ Whole  BY DEF FileInv
<1>1. CASE Flush
  <2>1. disk' = file  BY <1>0, <1>1 DEF Flush, Whole
  <2>2. DurableDoc' = Doc  BY <2>1 DEF DurableDoc, Doc
  <2>3. Doc' = Doc /\ AbstractCall' = AbstractCall /\ UNCHANGED <<ret, cleared>>
    BY <1>1 DEF Flush, Doc, AbstractCall
  <2> QED  BY <2>2, <2>3 DEF Relaxed!Persist
<1>2. CASE PowerLoss
  <2>1. Doc' = DurableDoc /\ DurableDoc' = DurableDoc
    BY <1>2 DEF PowerLoss, Doc, DurableDoc
  <2>2. AbstractCall' = [p \in Procs |-> Relaxed!Idle]
    BY <1>2 DEF PowerLoss, AbstractCall, Relaxed!Idle
  <2>3. ret' = "none" /\ cleared' = [p \in Procs |-> Relaxed!Empty]  BY <1>2 DEF PowerLoss
  <2> QED  BY <2>1, <2>2, <2>3 DEF Relaxed!PowerLoss, Relaxed!Idle, Relaxed!Empty
<1> QED  BY <1>1, <1>2

LEMMA NextRefines ==
  ASSUME FileInv, [Next]_vars
  PROVE  [Relaxed!Next]_Relaxed!vars
<1>1. ASSUME NEW p \in Procs, Step(p) \/ Calling(p) \/ FlockFails(p) \/ Die(p)
      PROVE  Relaxed!Next \/ UNCHANGED Relaxed!vars
  <2>1. CASE Calling(p)  BY <2>1, BeginRefines DEF Relaxed!Next
  <2>2. CASE Open(p) \/ Lock(p) \/ Load(p) \/ Write(p) \/ Sync(p)  BY <2>2, HiddenSteps
  <2>3. CASE Rename(p)  BY <2>3, RenameRefines DEF Relaxed!Next
  <2>4. CASE Clear(p)  BY <2>4, ClearRefines DEF Relaxed!Next
  <2>5. CASE \/ MergeFails(p) \/ FlockFails(p) \/ ClearFails(p) \/ LoadFails(p)
             \/ Succeeds(p) \/ LoadBundle(p) \/ Die(p)
    BY <2>5, EndRefines DEF Relaxed!Next
  <2> QED  BY <1>1, <2>1, <2>2, <2>3, <2>4, <2>5 DEF Step
<1>2. CASE Flush \/ PowerLoss  BY <1>2, EnvironmentRefines DEF Relaxed!Next
<1>3. CASE UNCHANGED vars
  <2>1. UNCHANGED Relaxed!vars
    BY <1>3 DEF vars, Relaxed!vars, Doc, DurableDoc, AbstractCall
  <2> QED  BY <2>1
<1> QED  BY <1>1, <1>2, <1>3 DEF Next

\* The file store, with its lock, temporary file and rename, implements the
\* abstract store in which a save takes effect as a whole: no save of another
\* process is lost and no answer is wrong, whatever dies in between.
THEOREM Refinement == Spec => ImplementsStore
<1>1. FileInv /\ [Next]_vars => [Relaxed!Next]_Relaxed!vars  BY NextRefines
<1> QED  BY InitRefines, <1>1, FileInvariant, PTL DEF Spec, ImplementsStore, Relaxed!Spec
=============================================================================
