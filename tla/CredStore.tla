----------------------------- MODULE CredStore -----------------------------
(***************************************************************************)
(* What internal/session asks of a credential store (its Store interface)  *)
(* that several processes share: every call takes effect as a whole at one *)
(* moment between its start and its end, or fails without an effect.       *)
(*                                                                         *)
(* A call that is cut short by the death of its process may or may not     *)
(* have taken effect.  A power loss ends every process and may lose the    *)
(* latest effects, but only from the end and never part of one.            *)
(***************************************************************************)
CONSTANTS
  Procs,       \* processes that have the store open
  Creds,       \* credential bundles
  Sessions,    \* session bundles
  None,        \* an absent bundle, and the answer ErrNotFound
  AtomicClear  \* whether Clear is atomic towards saves, too

VARIABLES
  store,    \* the two bundles
  durable,  \* what a power loss would leave of them
  call,     \* the call each process has begun, or Idle, or Done
  ret,      \* what the call that ended last returned
  cleared   \* history: what a Clear removed last since a save began, or Empty

vars == <<store, durable, call, ret, cleared>>

Docs == [creds: Creds \cup {None}, sess: Sessions \cup {None}]
Empty == [creds |-> None, sess |-> None]

Saves == [op: {"saveCreds"}, val: Creds] \cup [op: {"saveSession"}, val: Sessions]
Clears == [op: {"clear"}, val: {None}]
Loads == [op: {"loadCreds", "loadSession"}, val: {None}]
Calls == Saves \cup Clears \cup Loads
Idle == [op |-> "idle", val |-> None]
Done == [op |-> "done", val |-> None]

\* The contents d after the save c.
Saved(d, c) == IF c.op = "saveCreds" THEN [d EXCEPT !.creds = c.val]
                                     ELSE [d EXCEPT !.sess = c.val]

Init ==
  /\ store \in Docs /\ durable = store
  /\ call = [p \in Procs |-> Idle]
  /\ ret = "none"
  /\ cleared = [p \in Procs |-> Empty]

Begin(p) ==
  /\ call[p] = Idle
  /\ \E c \in Calls : call' = [call EXCEPT ![p] = c]
  /\ UNCHANGED <<store, durable, ret, cleared>>

\* With AtomicClear FALSE a save may bring back what a Clear removed after
\* the save began.
Save(p) ==
  /\ call[p] \in Saves
  /\ \E d \in {store} \cup (IF AtomicClear \/ cleared[p] = Empty THEN {} ELSE {cleared[p]}) :
       store' = Saved(d, call[p])
  /\ call' = [call EXCEPT ![p] = Done]
  /\ cleared' = [cleared EXCEPT ![p] = Empty]
  /\ UNCHANGED <<durable, ret>>

Clear(p) ==
  /\ call[p] \in Clears
  /\ store' = Empty
  /\ cleared' = [q \in Procs |-> IF call[q] \in Saves /\ store # Empty THEN store
                                                                     ELSE cleared[q]]
  /\ call' = [call EXCEPT ![p] = Done]
  /\ UNCHANGED <<durable, ret>>

Return(p, value) ==
  /\ call' = [call EXCEPT ![p] = Idle]
  /\ ret' = value
  /\ cleared' = [cleared EXCEPT ![p] = Empty]
  /\ UNCHANGED <<store, durable>>

Succeed(p) == call[p] = Done /\ Return(p, "ok")
Fail(p) == call[p] \in Calls /\ Return(p, "error")
Load(p) ==
  /\ call[p] \in Loads
  /\ Return(p, IF call[p].op = "loadCreds" THEN store.creds ELSE store.sess)

Die(p) == call[p] # Idle /\ Return(p, "none")

Persist == durable' = store /\ UNCHANGED <<store, call, ret, cleared>>

PowerLoss ==
  /\ store' = durable
  /\ call' = [p \in Procs |-> Idle]
  /\ ret' = "none"
  /\ cleared' = [p \in Procs |-> Empty]
  /\ UNCHANGED durable

Next ==
  \/ \E p \in Procs : \/ Begin(p) \/ Save(p) \/ Clear(p) \/ Load(p)
                      \/ Succeed(p) \/ Fail(p) \/ Die(p)
  \/ Persist \/ PowerLoss

Spec == Init /\ [][Next]_vars
=============================================================================
