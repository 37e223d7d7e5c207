------------------------------ MODULE Keychain ------------------------------
(***************************************************************************)
(* internal/keychain: the default credential store.  A bundle is spread    *)
(* over entries of the OS keychain, which processes write, read and delete *)
(* one at a time, with no lock around them: the steps of two calls         *)
(* interleave, and a call may end after any of its entries.                *)
(***************************************************************************)
EXTENDS Naturals, Sequences

CONSTANTS
  Procs,   \* processes that use the keychain
  Values,  \* what an entry may hold
  None,    \* no entry
  Faults   \* "fail" (an operation fails), "down" (no Secret Service answers)

VARIABLES
  keys,    \* the entries
  call     \* the call each process is in: operation, position, values, result

\* The entries, in the order in which the code goes through them.  totp stands
\* for the mailbox password too, which is saved the same way, and refresh for the
\* access token written just before it.  The scope, which a session writes last
\* and without which it can be loaded, is left out, and with it a save that fails
\* there.
CredEntries == <<"username", "password", "totp">>
SessEntries == <<"uid", "refresh">>
Optional == {"totp"}
InSession == {"uid", "refresh"}
Entries == {"username", "password", "totp"} \cup InSession

Ops == {"saveCreds", "saveSession", "loadCreds", "loadSession", "clear"}
Order(op) == CASE op \in {"saveCreds", "loadCreds"} -> CredEntries
               [] op \in {"saveSession", "loadSession"} -> SessEntries
               [] op = "clear" -> CredEntries \o SessEntries

Bundles == [Entries -> Values \cup {None}]
Blank == [e \in Entries |-> None]
Results == {"", "ok", "absent", "failed", "down"}
NoCall == [op |-> "none", pos |-> 0, val |-> Blank, res |-> ""]

\* Whether LoadSession can return the entries ks as a session.
SessionReadable(ks) == \A e \in InSession : ks[e] # None

Entry(p) == Order(call[p].op)[call[p].pos]
Running(p, ops) == call[p].op \in ops /\ call[p].res = ""
Returned(p, op) == call[p].op = op /\ call[p].res # ""

Begin(p, op, val) ==
  call' = [call EXCEPT ![p] = [op |-> op, pos |-> 1, val |-> val, res |-> ""]]

\* The call c after its current entry.
Advanced(c) == IF c.pos = Len(Order(c.op)) THEN [c EXCEPT !.res = "ok"]
                                           ELSE [c EXCEPT !.pos = @ + 1]

\* saveOptional keeps what a bundle without the value should have removed.
WriteEntry_LeavesStale(p) ==
  /\ Running(p, {"saveCreds", "saveSession"})
  /\ keys' = IF call[p].val[Entry(p)] = None THEN keys
             ELSE [keys EXCEPT ![Entry(p)] = call[p].val[Entry(p)]]
  /\ call' = [call EXCEPT ![p] = Advanced(@)]

\* A save first deletes the entries it is about to replace.
WriteEntry_DeletesFirst(p) ==
  /\ Running(p, {"saveCreds", "saveSession"})
  /\ keys' = [e \in Entries |->
       IF e = Entry(p) THEN call[p].val[e]
       ELSE IF call[p].pos = 1 /\ call[p].op = "saveSession" /\ e = "refresh"
            THEN None ELSE keys[e]]
  /\ call' = [call EXCEPT ![p] = Advanced(@)]

\* Clear goes on past an entry it could not delete and forgets the error.
EntryFails_ClearGoesOn(p) ==
  /\ Running(p, Ops) /\ "fail" \in Faults
  /\ call' = [call EXCEPT ![p] = IF @.op = "clear" THEN Advanced(@)
                                 ELSE [@ EXCEPT !.res = "failed"]]
  /\ UNCHANGED keys

\* One Set of SaveCreds or SaveSession.  An optional value that the bundle
\* lacks deletes the entry, so that none of a prior login is left.
WriteEntry(p) ==
  /\ Running(p, {"saveCreds", "saveSession"})
  /\ keys' = [keys EXCEPT ![Entry(p)] = call[p].val[Entry(p)]]
  /\ call' = [call EXCEPT ![p] = Advanced(@)]

\* One Delete of Clear; an entry that is not there is no error.
DeleteEntry(p) ==
  /\ Running(p, {"clear"})
  /\ keys' = [keys EXCEPT ![Entry(p)] = None]
  /\ call' = [call EXCEPT ![p] = Advanced(@)]

\* One Get of LoadCreds or LoadSession.
ReadEntry(p) ==
  /\ Running(p, {"loadCreds", "loadSession"})
  /\ LET e == Entry(p) IN
       call' = [call EXCEPT ![p] =
         CASE keys[e] = None /\ call[p].pos = 1 -> [@ EXCEPT !.res = "absent"]
           [] keys[e] = None /\ call[p].pos # 1 /\ e \notin Optional -> [@ EXCEPT !.res = "failed"]
           [] OTHER -> Advanced([@ EXCEPT !.val[e] = keys[e]])]
  /\ UNCHANGED keys

\* Any operation may fail, and ends its call there.  IsBackendUnavailable tells
\* a dead backend from other failures; only after a save does anybody ask.
EntryFails(p) ==
  /\ Running(p, Ops)
  /\ \/ "fail" \in Faults /\ call' = [call EXCEPT ![p].res = "failed"]
     \/ /\ "down" \in Faults /\ call[p].op \in {"saveCreds", "saveSession"}
        /\ call' = [call EXCEPT ![p].res = "down"]
  /\ UNCHANGED keys
=============================================================================
