------------------------------ MODULE CredFile ------------------------------
(***************************************************************************)
(* internal/credfile.Store: the file-backed credential store.  Both        *)
(* bundles are one JSON document; a save locks a sidecar file, loads the   *)
(* document, changes it, writes a temporary file, syncs it and renames it  *)
(* over the document.  Several processes (the server, a status command, a  *)
(* login) use one state directory at once.                                 *)
(*                                                                         *)
(* An opened file keeps its contents when another is renamed over its      *)
(* name, so reading the document is one step.  The kernel drops a dead     *)
(* process's lock.  A rename becomes durable some time after it happened;  *)
(* what it makes durable of a file that was not synced is torn.            *)
(***************************************************************************)
CONSTANTS Procs, Creds, Sessions, None, NoProc, Absent, Torn

VARIABLES
  file,     \* credentials.json: a document, Absent, or Torn (does not parse)
  fileDirty,\* its bytes were never synced
  disk,     \* what a power loss leaves of it
  lock,     \* holder of the lock on credentials.lock
  pc,
  op,       \* the call each process is in
  buf,      \* the document it loaded and changed
  dirty,    \* processes whose temporary file is not synced
  ret,      \* what the call that ended last returned
  cleared   \* history: what a Clear removed last since a save began

vars == <<file, fileDirty, disk, lock, pc, op, buf, dirty, ret, cleared>>

\* The documents and the calls are those of the abstract store.
Doc == IF file = Absent THEN [creds |-> None, sess |-> None] ELSE file
DurableDoc == IF disk = Absent THEN [creds |-> None, sess |-> None] ELSE disk
AbstractCall ==
  [p \in Procs |-> CASE pc[p] = "idle" -> [op |-> "idle", val |-> None]
                     [] pc[p] \in {"renamed", "removed"} -> [op |-> "done", val |-> None]
                     [] OTHER -> op[p]]
Relaxed == INSTANCE CredStore WITH
  AtomicClear <- FALSE, store <- Doc, durable <- DurableDoc, call <- AbstractCall
Atomic == INSTANCE CredStore WITH
  AtomicClear <- TRUE, store <- Doc, durable <- DurableDoc, call <- AbstractCall

ASSUME NamesAssumption ==
  /\ NoProc \notin Procs /\ None \notin Creds \cup Sessions
  /\ Absent \notin Relaxed!Docs \cup {Torn} /\ Torn \notin Relaxed!Docs

\* A save before its rename, which is when it takes effect.
Merging == {"merge", "flock", "load", "write", "sync", "rename"}
Labels == Merging \cup {"idle", "renamed", "remove", "removed", "read"}

Init ==
  /\ file \in Relaxed!Docs \cup {Absent} /\ disk = file /\ fileDirty = FALSE
  /\ lock = NoProc
  /\ pc = [p \in Procs |-> "idle"]
  /\ op = [p \in Procs |-> Relaxed!Idle]
  /\ buf = [p \in Procs |-> Relaxed!Empty]
  /\ dirty = {}
  /\ ret = "none"
  /\ cleared = [p \in Procs |-> Relaxed!Empty]

Goto(p, label) == pc' = [pc EXCEPT ![p] = label]

\* Every return and every death: the lock and the temporary file are gone.
Return(p, value) ==
  /\ Goto(p, "idle")
  /\ ret' = value
  /\ lock' = IF lock = p THEN NoProc ELSE lock
  /\ op' = [op EXCEPT ![p] = Relaxed!Idle]
  /\ buf' = [buf EXCEPT ![p] = Relaxed!Empty]
  /\ dirty' = dirty \ {p}
  /\ cleared' = [cleared EXCEPT ![p] = Relaxed!Empty]

(***************************************************************************)
(* Mutants.                                                                *)
(***************************************************************************)
\* merge goes on without waiting for the lock.
Lock_NotTaken(p) ==
  /\ pc[p] = "flock"
  /\ Goto(p, "load")
  /\ UNCHANGED <<file, fileDirty, disk, lock, op, buf, dirty, ret, cleared>>

\* The temporary file is renamed without having been synced.
Write_WithoutSync(p) ==
  /\ pc[p] = "write"
  /\ dirty' = dirty \cup {p}
  /\ Goto(p, "rename")
  /\ UNCHANGED <<file, fileDirty, disk, lock, op, buf, ret, cleared>>

\* An error of load returns without unlocking; every other error unlocks.
MergeFails_KeepsLock(p) ==
  /\ pc[p] \in Merging \ {"flock"}
  /\ \/ pc[p] # "load" /\ Return(p, "error")
     \/ /\ pc[p] = "load"
        /\ Goto(p, "idle")
        /\ ret' = "error"
        /\ op' = [op EXCEPT ![p] = Relaxed!Idle]
        /\ UNCHANGED <<lock, buf, dirty, cleared>>
  /\ UNCHANGED <<file, fileDirty, disk>>

\* The changed bundle alone, not the document with it, is kept for writing.
Load_BundleOnly(p) ==
  /\ pc[p] = "load"
  /\ buf' = [buf EXCEPT ![p] = op[p]]
  /\ Goto(p, "write")
  /\ UNCHANGED <<file, fileDirty, disk, lock, op, dirty, ret, cleared>>

(***************************************************************************)
(* merge: SaveCreds and SaveSession.                                       *)
(***************************************************************************)
Begin(p, c, label) ==
  /\ pc[p] = "idle"
  /\ Goto(p, label)
  /\ op' = [op EXCEPT ![p] = c]
  /\ UNCHANGED <<file, fileDirty, disk, lock, buf, dirty, ret, cleared>>

BeginSave(p) == \E c \in Relaxed!Saves : Begin(p, c, "merge")

\* prepareDir, and opening the lock file.
Open(p) ==
  /\ pc[p] = "merge"
  /\ Goto(p, "flock")
  /\ UNCHANGED <<file, fileDirty, disk, lock, op, buf, dirty, ret, cleared>>

\* flock waits, with no timeout, for as long as another process holds the lock.
Lock(p) ==
  /\ pc[p] = "flock" /\ lock = NoProc
  /\ lock' = p
  /\ Goto(p, "load")
  /\ UNCHANGED <<file, fileDirty, disk, op, buf, dirty, ret, cleared>>

\* load and the change; an absent file starts from an empty document.
Load(p) ==
  /\ pc[p] = "load" /\ file # Torn
  /\ buf' = [buf EXCEPT ![p] = Relaxed!Saved(Doc, op[p])]
  /\ Goto(p, "write")
  /\ UNCHANGED <<file, fileDirty, disk, lock, op, dirty, ret, cleared>>

\* CreateTemp, Chmod, Write.
Write(p) ==
  /\ pc[p] = "write"
  /\ dirty' = dirty \cup {p}
  /\ Goto(p, "sync")
  /\ UNCHANGED <<file, fileDirty, disk, lock, op, buf, ret, cleared>>

Sync(p) ==
  /\ pc[p] = "sync"
  /\ dirty' = dirty \ {p}
  /\ Goto(p, "rename")
  /\ UNCHANGED <<file, fileDirty, disk, lock, op, buf, ret, cleared>>

Rename(p) ==
  /\ pc[p] = "rename"
  /\ file' = buf[p] /\ fileDirty' = (p \in dirty)
  /\ cleared' = [cleared EXCEPT ![p] = Relaxed!Empty]
  /\ Goto(p, "renamed")
  /\ UNCHANGED <<disk, lock, op, buf, dirty, ret>>

\* An unusable directory, a lock file that cannot be opened, a document that
\* cannot be read or parsed, a disk error: nothing was changed.
MergeFails(p) ==
  /\ pc[p] \in Merging \ {"flock"}
  /\ Return(p, "error")
  /\ UNCHANGED <<file, fileDirty, disk>>

\* flock itself returns an error; nothing makes it do so.
FlockFails(p) ==
  /\ pc[p] = "flock"
  /\ Return(p, "error")
  /\ UNCHANGED <<file, fileDirty, disk>>

(***************************************************************************)
(* Clear removes the file; it does not take the lock.                      *)
(***************************************************************************)
BeginClear(p) == \E c \in Relaxed!Clears : Begin(p, c, "remove")

Clear(p) ==
  /\ pc[p] = "remove"
  /\ file' = Absent /\ fileDirty' = FALSE
  /\ cleared' = [q \in Procs |-> IF pc[q] \in Merging /\ Doc # Relaxed!Empty THEN Doc
                                                                       ELSE cleared[q]]
  /\ Goto(p, "removed")
  /\ UNCHANGED <<disk, lock, op, buf, dirty, ret>>

ClearFails(p) ==
  /\ pc[p] = "remove"
  /\ Return(p, "error")
  /\ UNCHANGED <<file, fileDirty, disk>>

Succeeds(p) ==
  /\ pc[p] \in {"renamed", "removed"}
  /\ Return(p, "ok")
  /\ UNCHANGED <<file, fileDirty, disk>>

(***************************************************************************)
(* LoadCreds and LoadSession: an absent file, like an absent bundle, is    *)
(* ErrNotFound; a file that does not parse is an error of its own.         *)
(***************************************************************************)
BeginLoad(p) == \E c \in Relaxed!Loads : Begin(p, c, "read")

LoadBundle(p) ==
  /\ pc[p] = "read" /\ file # Torn
  /\ Return(p, IF op[p].op = "loadCreds" THEN Doc.creds ELSE Doc.sess)
  /\ UNCHANGED <<file, fileDirty, disk>>

LoadFails(p) ==
  /\ pc[p] = "read"
  /\ Return(p, "error")
  /\ UNCHANGED <<file, fileDirty, disk>>

(***************************************************************************)
(* The environment.                                                        *)
(***************************************************************************)
Die(p) ==
  /\ pc[p] # "idle"
  /\ Return(p, "none")
  /\ UNCHANGED <<file, fileDirty, disk>>

Flush ==
  /\ disk' = IF fileDirty THEN Torn ELSE file
  /\ UNCHANGED <<file, fileDirty, lock, pc, op, buf, dirty, ret, cleared>>

PowerLoss ==
  /\ file' = disk /\ fileDirty' = FALSE
  /\ lock' = NoProc /\ dirty' = {}
  /\ pc' = [p \in Procs |-> "idle"]
  /\ op' = [p \in Procs |-> Relaxed!Idle]
  /\ buf' = [p \in Procs |-> Relaxed!Empty]
  /\ ret' = "none"
  /\ cleared' = [p \in Procs |-> Relaxed!Empty]
  /\ UNCHANGED disk

Calling(p) == BeginSave(p) \/ BeginClear(p) \/ BeginLoad(p)
Step(p) ==
  \/ Open(p) \/ Lock(p) \/ Load(p) \/ Write(p) \/ Sync(p) \/ Rename(p) \/ MergeFails(p)
  \/ Clear(p) \/ ClearFails(p) \/ Succeeds(p) \/ LoadBundle(p) \/ LoadFails(p)

Next ==
  \/ \E p \in Procs : Calling(p) \/ Step(p) \/ FlockFails(p) \/ Die(p)
  \/ Flush \/ PowerLoss

Spec == Init /\ [][Next]_vars

\* A process that has begun a call goes on, and one that waits in flock is
\* not passed over for ever: the kernel queues the waiters.  A waiter has no
\* step but Lock, so only the holder's unlocking lets it on; that flock fails
\* or that a process dies is not part of the fairness.
FairSpec == Spec /\ \A p \in Procs : SF_vars(Step(p))

-----------------------------------------------------------------------------
TypeOK ==
  /\ file \in Relaxed!Docs \cup {Absent, Torn} /\ disk \in Relaxed!Docs \cup {Absent, Torn}
  /\ fileDirty \in BOOLEAN
  /\ lock \in Procs \cup {NoProc}
  /\ pc \in [Procs -> Labels]
  /\ op \in [Procs -> Relaxed!Calls \cup {Relaxed!Idle}]
  /\ buf \in [Procs -> Relaxed!Docs]
  /\ dirty \subseteq Procs
  /\ ret \in Creds \cup Sessions \cup {None, "none", "ok", "error"}
  /\ cleared \in [Procs -> Relaxed!Docs]

\* Whatever dies and whenever the power fails, credentials.json parses: a
\* daemon never has to be repaired by hand before it can log in again.
NeverTorn == file # Torn

\* Saves of several processes never lose each other's update, a call reports
\* success exactly when it took effect, a load returns what one moment held,
\* and a save overlapped by a Clear at worst brings back what the Clear removed.
ImplementsStore == Relaxed!Spec

\* No process waits for ever for the lock, whatever errors and deaths there are:
\* flock has no timeout, so every way out of a merge has to unlock.
CallsReturn == \A p \in Procs : pc[p] # "idle" ~> pc[p] = "idle"

\* "two concurrent writers ... can't lose an update via the read-modify-write"
\* (credfile.go:88), the removal of the bundles by a logout included.
ImplementsAtomicStore == Atomic!Spec
=============================================================================
