-------------------------- MODULE DeploymentProofs --------------------------
(***************************************************************************)
(* Theorems about Deployment and its Keychain, for every set of processes  *)
(* and accounts, every bound and every choice of faults.                   *)
(***************************************************************************)
EXTENDS Deployment, TLAPS

-----------------------------------------------------------------------------
(* The inductive invariant.                                                *)

\* What each entry may hold.
UIDs == {Plain(s) : s \in Sids}
RefreshTokens == {Token(s, g) : s \in Sids, g \in 1..MaxGen}
CredValues == {Plain(a) : a \in Accounts}
Holds(e) == IF e = "uid" THEN UIDs ELSE IF e = "refresh" THEN RefreshTokens ELSE CredValues

Shaped == {b \in Bundles : \A e \in Entries : b[e] \in Holds(e) \cup {None}}
SessBundles == {SessBundle(s, g) : s \in Sids, g \in 1..MaxGen}
CredBundles == {b \in Shaped : /\ b["username"] # None /\ b["password"] # None
                               /\ \A e \in InSession : b[e] = None}

Changes == {"saveCreds", "saveSession", "clear"}
CallRecords == [op: Ops \cup {"none"}, pos: 0..5, val: Bundles, res: Results]
MemRecords == [current: Bundles, next: Bundles, creds: Bundles, clients: SUBSET Bundles,
               degraded: BOOLEAN, exhausted: BOOLEAN, scopeSpent: BOOLEAN, poisoned: BOOLEAN]
Promises == [of: {"", "login", "logout", "status"}, keys: Bundles]

\* The entries that the call c is done with.
Passed(s, k, r) == {s[i] : i \in {j \in 1..k : j < k \/ r = "ok"}}
Done(c) == Passed(Order(c.op), c.pos, c.res)

\* A call has a value to write, or has read what it is done with.
CallOK(c) ==
  /\ c \in CallRecords /\ c.val \in Shaped
  /\ c.op = "none" => c = NoCall
  /\ c.op # "none" => c.pos \in 1..Len(Order(c.op))
  /\ c.res = "ok" => c.pos = Len(Order(c.op))
  /\ c.op = "saveSession" => c.val \in SessBundles
  /\ c.op = "saveCreds" => c.val \in CredBundles
  /\ c.op = "clear" => c.val = Blank
  /\ c.op \in {"loadSession", "loadCreds"} =>
       \A e \in Done(c) \ Optional : c.val[e] # None
  /\ c.op = "loadCreds" => \A e \in InSession : c.val[e] = None

\* The call a process is in at a position, and the commands that lead there.
OpAt(l) ==
  CASE l \in {"off", "start", "serving", "getUser"} -> "none"
    [] l \in {"clear", "rollback"} -> "clear"
    [] l = "loadSess" -> "loadSession"
    [] l = "loadCreds" -> "loadCreds"
    [] l = "saveCreds" -> "saveCreds"
    [] l \in {"saveCold", "saveSess", "saveRot"} -> "saveSession"
JobsAt(l) ==
  CASE l = "off" -> {""}
    [] l = "start" -> {"login", "logout", "status"}
    [] l = "serving" -> {"server"}
    [] l = "getUser" -> {"status"}
    [] l = "clear" -> {"logout"}
    [] l \in {"loadSess", "saveCold", "loadCreds", "saveRot"} -> {"server", "status"}
    [] l \in {"saveCreds", "saveSess", "rollback"} -> {"login", "server", "status"}

\* A memory: there are no current tokens without a client.
MemOK(m) ==
  /\ m \in MemRecords
  /\ m.current \in SessBundles \cup {Blank} /\ m.clients \subseteq SessBundles
  /\ m.clients = {} => m.current = Blank

\* A process at the position l with the job j, the call c and the memory m.
\* Only a server, which heals itself, logs in while it has a client.
ProcOK(l, j, c, m) ==
  /\ l \in Labels /\ j \in JobsAt(l) /\ MemOK(m)
  /\ CallOK(c) /\ c.op = OpAt(l)
  /\ l \in {"off", "start"} => m = NoMem
  /\ l = "getUser" => m.current # Blank
  /\ l = "saveRot" => m.current = c.val
  /\ l \in {"loadSess", "saveCold"} => m.clients = {}
  /\ j # "server" /\ l \notin {"getUser", "saveRot"} => m.clients = {}
  /\ j # "server" => ~m.scopeSpent
  /\ l \in {"saveCreds", "saveSess"} => m.next \in SessBundles
  /\ l = "saveSess" => c.val = m.next
  /\ l = "saveCreds" /\ j = "login" => c.val = m.creds
  /\ l = "saveSess" /\ j = "login" => m.creds \in CredBundles

\* What a calm process knows of the entries ks.
Knows(l, j, c, m, ks) ==
  /\ l # "off"
  /\ c.op \in Changes => \A e \in Done(c) : ks[e] = c.val[e]
  /\ l \in {"serving", "getUser"} /\ m.current # Blank /\ ~m.degraded /\ ~m.scopeSpent =>
       \A e \in InSession : ks[e] = m.current[e]
  /\ l = "saveSess" /\ j = "login" =>
       \A e \in Entries \ InSession : ks[e] = m.creds[e]

Holding(pr, l, ks) ==
  /\ pr \in Promises
  /\ l # "off" => pr = NoPromise
  /\ pr.of = "login" => ks = pr.keys
  /\ pr.of = "logout" => ks = Blank
  /\ pr.of = "status" => \A e \in InSession : ks[e] = pr.keys[e]

ProcInv(p) ==
  /\ ProcOK(pc[p], job[p], call[p], mem[p])
  /\ calm[p] => Knows(pc[p], job[p], call[p], mem[p], keys)
  /\ Holding(promise[p], pc[p], keys)

IInv == TypeOK /\ keys \in Shaped /\ \A p \in Procs : ProcInv(p)

-----------------------------------------------------------------------------
(* The entries of a call.                                                  *)

EntriesOf(op) == IF op \in {"saveSession", "loadSession"} THEN InSession
                 ELSE IF op = "clear" THEN Entries ELSE Entries \ InSession

\* The entries that each call goes through.
LEMMA OrderFacts ==
  ASSUME NEW op \in Ops
  PROVE  /\ Order(op) \in Seq(Entries) /\ Len(Order(op)) \in 2..5 /\ Len(Order(op)) \in Nat
         /\ {Order(op)[i] : i \in 1..Len(Order(op))} = EntriesOf(op)
<1> USE DEF Entries, InSession
<1>1. CASE op \in {"saveCreds", "loadCreds"}
  <2>1. Order(op) = <<"username", "password", "totp">> /\ EntriesOf(op) = Entries \ InSession
    BY <1>1 DEF Order, CredEntries, EntriesOf
  <2>2. 1..3 = {1, 2, 3}
    OBVIOUS
  <2> QED
    BY <2>1, <2>2
<1>2. CASE op \in {"saveSession", "loadSession"}
  <2>1. Order(op) = <<"uid", "refresh">> /\ EntriesOf(op) = InSession
    BY <1>2 DEF Order, SessEntries, EntriesOf
  <2>2. 1..2 = {1, 2}
    OBVIOUS
  <2> QED
    BY <2>1, <2>2
<1>3. CASE op = "clear"
  <2>1. Order(op) = <<"username", "password", "totp">> \o <<"uid", "refresh">>
    BY <1>3 DEF Order, CredEntries, SessEntries
  <2>2. EntriesOf(op) = Entries /\ 1..5 = {1, 2, 3, 4, 5}
    BY <1>3 DEF EntriesOf
  <2>3. <<"username", "password", "totp">> \in Seq(Entries) /\ <<"uid", "refresh">> \in Seq(Entries)
    OBVIOUS
  <2>4. Order(op) \in Seq(Entries) /\ Len(Order(op)) = 5
    BY <2>1, <2>3
  <2>5. /\ Order(op)[1] = "username" /\ Order(op)[2] = "password" /\ Order(op)[3] = "totp"
        /\ Order(op)[4] = "uid" /\ Order(op)[5] = "refresh"
    BY <2>1, <2>3
  <2> QED
    BY <2>2, <2>4, <2>5
<1> QED
  BY <1>1, <1>2, <1>3 DEF Ops

LEMMA Distinct ==
  /\ None \notin Values /\ Blank \in Shaped
  /\ NoCall \in CallRecords /\ MemOK(NoMem) /\ NoPromise \in Promises
<1>1. None \notin Values
  BY DeploymentAssumption DEF DeploymentAssumption
<1>2. Blank \in Bundles /\ \A e \in Entries : Blank[e] = None
  BY DEF Blank, Bundles
<1> QED
  BY <1>1, <1>2
  DEF Shaped, NoCall, CallRecords, Results, NoMem, MemOK, MemRecords, NoPromise, Promises

LEMMA PassedFacts ==
  ASSUME NEW s, NEW n \in Nat, NEW k \in 1..n, NEW r
  PROVE  /\ Passed(s, k, "ok") = Passed(s, k, "") \cup {s[k]}
         /\ Passed(s, k + 1, "") = Passed(s, k, "") \cup {s[k]}
         /\ Passed(s, k, r) \subseteq {s[i] : i \in 1..n} /\ s[k] \in {s[i] : i \in 1..n}
BY DEF Passed

LEMMA PassedEnds ==
  ASSUME NEW s, NEW n \in Nat
  PROVE  Passed(s, 1, "") = {} /\ Passed(s, n, "ok") = {s[i] : i \in 1..n}
BY DEF Passed

\* Where a call is in its entries.
LEMMA CallPosition ==
  ASSUME NEW c, CallOK(c), c.op \in Ops
  PROVE  /\ c \in CallRecords /\ c.pos \in 1..Len(Order(c.op))
         /\ Len(Order(c.op)) \in 2..5 /\ Len(Order(c.op)) \in Nat
         /\ {Order(c.op)[i] : i \in 1..Len(Order(c.op))} = EntriesOf(c.op)
<1>1. c.op # "none"
  BY DEF Ops
<1>2. c \in CallRecords /\ c.pos \in 1..Len(Order(c.op))
  BY <1>1 DEF CallOK
<1> QED
  BY <1>2, OrderFacts

LEMMA NextPosition ==
  ASSUME NEW n \in 2..5, NEW k \in 1..n, k # n
  PROVE  k + 1 \in 0..5 /\ k + 1 \in 1..n
OBVIOUS

\* A call that begins has done nothing, one that ended well all of it.
LEMMA DoneEnds ==
  ASSUME NEW c, CallOK(c), c.op \in Ops
  PROVE  /\ c.pos = 1 /\ c.res = "" => Done(c) = {}
         /\ c.res = "ok" => Done(c) = EntriesOf(c.op)
         /\ Done(c) \subseteq EntriesOf(c.op)
<1> DEFINE n == Len(Order(c.op))
<1>1. c.pos \in 1..n /\ n \in Nat /\ {Order(c.op)[i] : i \in 1..n} = EntriesOf(c.op)
  BY CallPosition
<1>2. c.res = "ok" => c.pos = n
  BY DEF CallOK
<1> HIDE DEF n
<1>3. /\ Passed(Order(c.op), 1, "") = {}
      /\ Passed(Order(c.op), n, "ok") = EntriesOf(c.op)
      /\ Passed(Order(c.op), c.pos, c.res) \subseteq EntriesOf(c.op)
  <2>1. /\ Passed(Order(c.op), 1, "") = {}
        /\ Passed(Order(c.op), n, "ok") = {Order(c.op)[i] : i \in 1..n}
    BY <1>1, PassedEnds
  <2>2. Passed(Order(c.op), c.pos, c.res) \subseteq {Order(c.op)[i] : i \in 1..n}
    BY <1>1, PassedFacts
  <2> QED
    BY <1>1, <2>1, <2>2
<1> QED
  BY <1>1, <1>2, <1>3 DEF Done

\* One entry further.
LEMMA AdvancedDone ==
  ASSUME NEW c, CallOK(c), c.op \in Ops, c.res = ""
  PROVE  /\ Advanced(c) \in CallRecords
         /\ Advanced(c).op = c.op /\ Advanced(c).val = c.val
         /\ Advanced(c).pos \in 1..Len(Order(c.op))
         /\ Advanced(c).res = "ok" => Advanced(c).pos = Len(Order(c.op))
         /\ Order(c.op)[c.pos] \in EntriesOf(c.op)
         /\ Done(Advanced(c)) = Done(c) \cup {Order(c.op)[c.pos]}
<1> DEFINE n == Len(Order(c.op))
<1>1. c \in CallRecords /\ c.pos \in 1..n /\ n \in 2..5 /\ n \in Nat
      /\ {Order(c.op)[i] : i \in 1..n} = EntriesOf(c.op)
  BY CallPosition
<1> HIDE DEF n
<1>2. /\ Passed(Order(c.op), c.pos, "ok") = Done(c) \cup {Order(c.op)[c.pos]}
      /\ Passed(Order(c.op), c.pos + 1, "") = Done(c) \cup {Order(c.op)[c.pos]}
      /\ Order(c.op)[c.pos] \in EntriesOf(c.op)
  BY <1>1, PassedFacts DEF Done
<1>3. CASE c.pos = n
  <2>1. Advanced(c) = [c EXCEPT !.res = "ok"]
    BY <1>3 DEF Advanced, n
  <2>2. /\ Advanced(c) \in CallRecords /\ Advanced(c).op = c.op /\ Advanced(c).val = c.val
        /\ Advanced(c).pos = c.pos /\ Advanced(c).res = "ok"
    BY <1>1, <2>1 DEF CallRecords, Results
  <2> QED
    BY <1>1, <1>2, <1>3, <2>2 DEF Done, n
<1>4. CASE c.pos # n
  <2>1. Advanced(c) = [c EXCEPT !.pos = @ + 1]
    BY <1>4 DEF Advanced, n
  <2>2. c.pos + 1 \in 0..5 /\ c.pos + 1 \in 1..n
    BY <1>1, <1>4, NextPosition
  <2>3. /\ Advanced(c) \in CallRecords /\ Advanced(c).op = c.op /\ Advanced(c).val = c.val
        /\ Advanced(c).pos = c.pos + 1 /\ Advanced(c).res = ""
    BY <1>1, <2>1, <2>2 DEF CallRecords, Results
  <2> QED
    BY <1>1, <1>2, <2>2, <2>3 DEF Done, n
<1> QED
  BY <1>3, <1>4

\* The value of a bundle that is written is one its entry may hold.
LEMMA AdvancedOK ==
  ASSUME NEW c, CallOK(c), c.op \in Changes, c.res = ""
  PROVE  CallOK(Advanced(c))
<1>1. c.op \in Ops /\ c.op # "none"
  BY DEF Changes, Ops
<1> DEFINE d == Advanced(c)
<1>2. /\ d \in CallRecords /\ d.op = c.op /\ d.val = c.val
      /\ d.pos \in 1..Len(Order(c.op))
      /\ d.res = "ok" => d.pos = Len(Order(c.op))
  BY <1>1, AdvancedDone
<1> HIDE DEF d
<1>3. CallOK(d)
  BY <1>1, <1>2 DEF CallOK, Changes
<1> QED
  BY <1>3 DEF d

LEMMA BeginOK ==
  ASSUME NEW op \in Ops, NEW val \in Shaped,
         op = "saveSession" => val \in SessBundles,
         op = "saveCreds" => val \in CredBundles,
         op \in {"clear", "loadSession", "loadCreds"} => val = Blank
  PROVE  LET c == [op |-> op, pos |-> 1, val |-> val, res |-> ""]
         IN  CallOK(c) /\ Done(c) = {}
<1> DEFINE c == [op |-> op, pos |-> 1, val |-> val, res |-> ""]
<1>1. c.op = op /\ c.pos = 1 /\ c.val = val /\ c.res = "" /\ c \in CallRecords
  BY DEF CallRecords, Results, Shaped
<1>2. 1 \in 1..Len(Order(op))
  BY OrderFacts, SMTT(30)
<1>3. Done(c) = {}
  <2> HIDE DEF c
  <2>1. Len(Order(op)) \in Nat
    BY OrderFacts
  <2> QED
    BY <1>1, <2>1, PassedEnds DEF Done
<1>4. \A e \in InSession : Blank[e] = None
  BY DEF Blank, InSession, Entries
<1> HIDE DEF c
<1>5. CallOK(c)
  BY <1>1, <1>2, <1>3, <1>4 DEF CallOK, Ops
<1> QED
  BY <1>3, <1>5 DEF c

-----------------------------------------------------------------------------
(* One step of the keychain.                                               *)

LEMMA EntrySets ==
  /\ EntriesOf("saveSession") = InSession /\ EntriesOf("loadSession") = InSession
  /\ EntriesOf("saveCreds") = Entries \ InSession
  /\ EntriesOf("loadCreds") = Entries \ InSession
  /\ EntriesOf("clear") = Entries
  /\ \A op \in Ops : EntriesOf(op) \subseteq Entries
BY DEF EntriesOf, InSession, Entries

\* A write or a deletion puts the call's value of one of its entries.
LEMMA ChangeStep ==
  ASSUME IInv, NEW p \in Procs, WriteEntry(p) \/ DeleteEntry(p)
  PROVE  /\ call[p].op \in Changes /\ call[p].op \in Ops /\ call[p].res = ""
         /\ call' = [call EXCEPT ![p] = Advanced(call[p])]
         /\ \E e \in EntriesOf(call[p].op) :
              /\ keys' = [keys EXCEPT ![e] = call[p].val[e]]
              /\ Done(Advanced(call[p])) = Done(call[p]) \cup {e}
<1>1. CallOK(call[p])
  BY DEF IInv, ProcInv, ProcOK
<1>2. /\ call[p].op \in Changes /\ call[p].op \in Ops /\ call[p].res = ""
      /\ call' = [call EXCEPT ![p] = Advanced(call[p])]
  BY DEF WriteEntry, DeleteEntry, Running, Changes, Ops
<1> DEFINE e == Order(call[p].op)[call[p].pos]
<1>3. e \in EntriesOf(call[p].op) /\ Done(Advanced(call[p])) = Done(call[p]) \cup {e}
  BY <1>1, <1>2, AdvancedDone
<1>4. keys' = [keys EXCEPT ![e] = call[p].val[e]]
  <2>1. CASE WriteEntry(p)
    BY <2>1 DEF WriteEntry, Entry
  <2>2. CASE DeleteEntry(p)
    <3>1. call[p].op = "clear" /\ call[p].val = Blank /\ e \in Entries
      BY <1>1, <1>2, <1>3, <2>2, EntrySets DEF DeleteEntry, Running, CallOK
    <3>2. call[p].val[e] = None
      BY <3>1 DEF Blank
    <3> QED
      BY <2>2, <3>2 DEF DeleteEntry, Entry
  <2> QED
    BY <2>1, <2>2
<1> QED
  BY <1>2, <1>3, <1>4

\* What is written keeps the keychain in shape.
LEMMA ChangeShaped ==
  ASSUME keys \in Shaped, NEW v \in Shaped, NEW e \in Entries,
         keys' = [keys EXCEPT ![e] = v[e]]
  PROVE  keys' \in Shaped
<1>1. keys \in Bundles /\ v \in Bundles
  BY DEF Shaped
<1>2. keys' \in Bundles
  BY <1>1 DEF Bundles
<1>3. \A f \in Entries : keys'[f] = IF f = e THEN v[e] ELSE keys[f]
  BY <1>1 DEF Bundles
<1> QED
  BY <1>2, <1>3 DEF Shaped

\* An operation that fails, or finds nothing, leaves the call where it was.
LEMMA StopOK ==
  ASSUME NEW c, CallOK(c), c.op \in Ops, c.res = "", NEW r \in Results \ {"", "ok"}
  PROVE  LET d == [c EXCEPT !.res = r]
         IN  CallOK(d) /\ Done(d) = Done(c) /\ d.op = c.op /\ d.val = c.val /\ d.res = r
<1> DEFINE d == [c EXCEPT !.res = r]
<1>1. c \in CallRecords
  BY DEF CallOK
<1>2. /\ d \in CallRecords /\ d.op = c.op /\ d.pos = c.pos /\ d.val = c.val
      /\ d.res = r /\ r # "ok"
  BY <1>1 DEF CallRecords, Results
<1>3. c.op # "none"
  BY DEF Ops
<1> HIDE DEF d
<1>4. Done(d) = Done(c)
  BY <1>2 DEF Done, Passed
<1>5. CallOK(d)
  BY <1>2, <1>3, <1>4 DEF CallOK
<1> QED
  BY <1>2, <1>4, <1>5 DEF d

\* A read either stops or adds a value to the bundle it returns.
LEMMA ReadStep ==
  ASSUME IInv, NEW p \in Procs, ReadEntry(p)
  PROVE  \E c : /\ call' = [call EXCEPT ![p] = c] /\ keys' = keys
                /\ CallOK(c) /\ c.op = call[p].op /\ c.op \notin Changes
<1> DEFINE e == Entry(p)
<1>1. CallOK(call[p]) /\ call[p].res = "" /\ call[p].op \in {"loadCreds", "loadSession"}
  BY DEF IInv, ProcInv, ProcOK, ReadEntry, Running
<1>2. call[p].op \in Ops /\ call[p].op \notin Changes /\ call[p] \in CallRecords
  BY <1>1 DEF Ops, Changes, CallOK
<1>3. e \in EntriesOf(call[p].op) /\ e \in Entries
  BY <1>1, <1>2, AdvancedDone, EntrySets DEF Entry
<1>4. keys' = keys
  BY DEF ReadEntry
<1>5. ASSUME NEW r \in {"absent", "failed"}, call' = [call EXCEPT ![p] = [call[p] EXCEPT !.res = r]]
      PROVE  \E c : /\ call' = [call EXCEPT ![p] = c]
                    /\ CallOK(c) /\ c.op = call[p].op /\ c.op \notin Changes
  BY <1>1, <1>2, <1>5, StopOK, ZenonT(60) DEF Results
<1>6. ASSUME keys[e] # None \/ e \in Optional,
             call' = [call EXCEPT ![p] = Advanced([call[p] EXCEPT !.val[e] = keys[e]])]
      PROVE  \E c : /\ call' = [call EXCEPT ![p] = c]
                    /\ CallOK(c) /\ c.op = call[p].op /\ c.op \notin Changes
  <2> DEFINE d == [call[p] EXCEPT !.val[e] = keys[e]]
             c == Advanced(d)
  <2>1. /\ call[p].val \in Shaped /\ keys \in Shaped
        /\ call[p].val \in Bundles /\ keys \in Bundles
    BY <1>1 DEF CallOK, IInv, Shaped
  <2>2. /\ d \in CallRecords /\ d.op = call[p].op /\ d.pos = call[p].pos /\ d.res = ""
        /\ d.val = [call[p].val EXCEPT ![e] = keys[e]]
    BY <1>1, <1>2, <1>3, <2>1 DEF CallRecords, Bundles
  <2>3. /\ \A f \in Entries : d.val[f] = IF f = e THEN keys[e] ELSE call[p].val[f]
        /\ d.val \in Bundles
    <3> HIDE DEF d, e
    <3> QED
      BY <1>3, <2>1, <2>2 DEF Bundles
  <2>4. d.val \in Shaped
    BY <2>1, <2>3 DEF Shaped
  <2>5. Done(d) = Done(call[p]) /\ Done(d) \subseteq Entries
    BY <1>1, <1>2, <2>2, DoneEnds, EntrySets DEF Done
  <2>6. \A f \in Done(d) \ Optional : d.val[f] # None
    BY <1>1, <1>6, <2>3, <2>5 DEF CallOK
  <2>7. d.op = "loadCreds" => \A f \in InSession : d.val[f] = None
    <3> HIDE DEF d, e
    <3>1. d.op = "loadCreds" => e \notin InSession
      BY <1>3, <2>2, EntrySets
    <3>2. d.op = "loadCreds" => \A f \in InSession : call[p].val[f] = None
      BY <1>1, <2>2 DEF CallOK
    <3> QED
      BY <2>3, <3>1, <3>2 DEF Entries
  <2>8. CallOK(d)
    <3> HIDE DEF d
    <3> QED
      BY <1>1, <2>2, <2>4, <2>6, <2>7 DEF CallOK
  <2>9. /\ c \in CallRecords /\ c.op = d.op /\ c.val = d.val
        /\ c.pos \in 1..Len(Order(d.op))
        /\ c.res = "ok" => c.pos = Len(Order(d.op))
        /\ Done(c) = Done(d) \cup {e}
    <3> HIDE DEF d
    <3> QED
      BY <1>2, <2>2, <2>8, AdvancedDone DEF Entry
  <2>10. e \notin Optional => d.val[e] # None
    BY <1>3, <1>6, <2>3
  <2>11. call' = [call EXCEPT ![p] = c]
    BY <1>6
  <2> HIDE DEF c, d
  <2>12. CallOK(c)
    BY <1>1, <2>2, <2>4, <2>6, <2>7, <2>9, <2>10 DEF CallOK
  <2> QED
    BY <1>2, <2>2, <2>9, <2>11, <2>12
<1>7. \/ call' = [call EXCEPT ![p] = [call[p] EXCEPT !.res = "absent"]]
      \/ call' = [call EXCEPT ![p] = [call[p] EXCEPT !.res = "failed"]]
      \/ /\ keys[e] # None \/ e \in Optional
         /\ call' = [call EXCEPT ![p] = Advanced([call[p] EXCEPT !.val[e] = keys[e]])]
  BY DEF ReadEntry
<1> QED
  BY <1>4, <1>5, <1>6, <1>7

LEMMA FailStep ==
  ASSUME IInv, NEW p \in Procs, EntryFails(p)
  PROVE  \E c : /\ call' = [call EXCEPT ![p] = c] /\ keys' = keys
                /\ CallOK(c) /\ c.op = call[p].op /\ c.val = call[p].val
                /\ c.op # "none" /\ Done(c) = Done(call[p])
<1>1. CallOK(call[p]) /\ call[p].res = "" /\ call[p].op \in Ops /\ call[p].op # "none"
  BY DEF IInv, ProcInv, ProcOK, EntryFails, Running, Ops
<1>2. PICK r \in {"failed", "down"} : call' = [call EXCEPT ![p] = [call[p] EXCEPT !.res = r]]
  BY DEF EntryFails
<1> DEFINE c == [call[p] EXCEPT !.res = r]
<1>3. CallOK(c) /\ Done(c) = Done(call[p]) /\ c.op = call[p].op /\ c.val = call[p].val
  BY <1>1, StopOK DEF Results
<1>4. call' = [call EXCEPT ![p] = c] /\ keys' = keys
  BY <1>2 DEF EntryFails
<1> HIDE DEF c
<1> QED
  BY <1>1, <1>3, <1>4

-----------------------------------------------------------------------------
(* One process moves, the entries stay.                                    *)

Jobs == {"", "server", "login", "logout", "status"}
ProtonOK(pr) == pr \in [Sids -> [acct: Accounts \cup {None}, gen: 0..MaxGen]]

LEMMA JobLabels ==
  ASSUME NEW l \in Labels, NEW j \in JobsAt(l)
  PROVE  j \in Jobs /\ (l = "off" <=> j = "")
BY DEF Labels, JobsAt, Jobs

\* The others know what they knew.
LEMMA OneProcess ==
  ASSUME IInv, NEW p \in Procs, keys' = keys, ProtonOK(proton'),
         NEW l, NEW j, NEW c, NEW m, NEW b \in BOOLEAN, NEW pr,
         pc' = [pc EXCEPT ![p] = l], job' = [job EXCEPT ![p] = j],
         call' = [call EXCEPT ![p] = c], mem' = [mem EXCEPT ![p] = m],
         calm' = [calm EXCEPT ![p] = b], promise' = [promise EXCEPT ![p] = pr],
         ProcOK(l, j, c, m), b => Knows(l, j, c, m, keys), Holding(pr, l, keys)
  PROVE  IInv'
<1>1. /\ l \in Labels /\ j \in Jobs /\ (l = "off" <=> j = "")
      /\ c \in CallRecords /\ m \in MemRecords /\ pr \in Promises
  BY JobLabels DEF ProcOK, MemOK, CallOK, Holding
<1>2. TypeOK
  BY DEF IInv
<1>3. TypeOK'
  BY <1>1, <1>2 DEF TypeOK, CallRecords, MemRecords, Promises, Jobs, ProtonOK
<1>4. ASSUME NEW q \in Procs PROVE ProcInv(q)'
  <2>1. CASE q = p
    <3>1. /\ pc'[q] = l /\ job'[q] = j /\ call'[q] = c /\ mem'[q] = m
          /\ calm'[q] = b /\ promise'[q] = pr
      BY <1>2, <2>1 DEF TypeOK
    <3> QED
      BY <3>1 DEF ProcInv
  <2>2. CASE q # p
    <3>1. /\ pc'[q] = pc[q] /\ job'[q] = job[q] /\ call'[q] = call[q] /\ mem'[q] = mem[q]
          /\ calm'[q] = calm[q] /\ promise'[q] = promise[q]
      BY <1>2, <2>2 DEF TypeOK
    <3>2. ProcInv(q)
      BY DEF IInv
    <3> QED
      BY <3>1, <3>2 DEF ProcInv
  <2> QED
    BY <2>1, <2>2
<1> QED
  BY <1>3, <1>4 DEF IInv

\* The next call of a process.
LEMMA CallsInv ==
  ASSUME IInv, NEW p \in Procs, ProtonOK(proton'), pc[p] # "off",
         NEW l \in Labels \ {"off"}, NEW op \in Ops, NEW val \in Shaped, NEW m, Calls(p, l, op, val, m),
         op = "saveSession" => val \in SessBundles,
         op = "saveCreds" => val \in CredBundles,
         op \in {"clear", "loadSession", "loadCreds"} => val = Blank,
         \A c : CallOK(c) /\ c.op = op /\ c.val = val => ProcOK(l, job[p], c, m),
         l \notin {"serving", "getUser"},
         calm[p] /\ l = "saveSess" /\ job[p] = "login" =>
           \A e \in Entries \ InSession : keys[e] = m.creds[e]
  PROVE  IInv'
<1> DEFINE c == [op |-> op, pos |-> 1, val |-> val, res |-> ""]
<1>1. /\ pc' = [pc EXCEPT ![p] = l] /\ call' = [call EXCEPT ![p] = c]
      /\ mem' = [mem EXCEPT ![p] = m] /\ UNCHANGED <<keys, job, calm, promise>>
  BY DEF Calls, Begin, Go, history
<1>2. CallOK(c) /\ Done(c) = {} /\ c.op = op /\ c.val = val
  BY BeginOK
<1> HIDE DEF c
<1>3. ProcOK(l, job[p], c, m)
  BY <1>2
<1>4. calm[p] => Knows(l, job[p], c, m, keys)
  BY <1>2 DEF Knows
<1>5. Holding(promise[p], l, keys) /\ calm[p] \in BOOLEAN
  BY DEF IInv, ProcInv, Holding, TypeOK
<1>6. /\ job' = [job EXCEPT ![p] = job[p]] /\ calm' = [calm EXCEPT ![p] = calm[p]]
      /\ promise' = [promise EXCEPT ![p] = promise[p]]
  BY <1>1 DEF IInv, TypeOK
<1> QED
  BY <1>1, <1>3, <1>4, <1>5, <1>6, OneProcess

\* An exit, and what it says.
LEMMA ExitInv ==
  ASSUME IInv, NEW p \in Procs, NEW said \in Promises, Exit(p, said),
         calm[p] => /\ said.of = "login" => keys = said.keys
                    /\ said.of = "logout" => keys = Blank
                    /\ said.of = "status" => \A e \in InSession : keys[e] = said.keys[e]
  PROVE  IInv'
<1> DEFINE pr == IF calm[p] THEN said ELSE NoPromise
<1>1. /\ pc' = [pc EXCEPT ![p] = "off"] /\ job' = [job EXCEPT ![p] = ""]
      /\ call' = [call EXCEPT ![p] = NoCall] /\ mem' = [mem EXCEPT ![p] = NoMem]
      /\ calm' = [calm EXCEPT ![p] = FALSE] /\ promise' = [promise EXCEPT ![p] = pr]
      /\ keys' = keys /\ proton' = proton
  BY DEF Exit
<1>2. ProcOK("off", "", NoCall, NoMem)
  BY Distinct DEF ProcOK, Labels, JobsAt, OpAt, CallOK, NoCall, NoMem
<1>3. Holding(pr, "off", keys)
  BY Distinct DEF Holding, NoPromise
<1>4. ProtonOK(proton')
  BY <1>1 DEF IInv, TypeOK, ProtonOK
<1> HIDE DEF pr
<1> QED
  BY <1>1, <1>2, <1>3, <1>4, OneProcess

\* Client() has returned: to the server or to status.
LEMMA ReturnedInv ==
  ASSUME IInv, NEW p \in Procs, ProtonOK(proton'), UNCHANGED <<keys, job, calm, promise>>,
         NEW l, NEW m, MemOK(m), pc[p] # "off",
         pc' = [pc EXCEPT ![p] = l], mem' = [mem EXCEPT ![p] = m],
         call' = [call EXCEPT ![p] = NoCall],
         \/ l = "serving" /\ job[p] = "server"
         \/ l = "getUser" /\ job[p] = "status" /\ m.current # Blank /\ ~m.scopeSpent,
         calm[p] /\ m.current # Blank /\ ~m.degraded /\ ~m.scopeSpent =>
           \A e \in InSession : keys[e] = m.current[e]
  PROVE  IInv'
<1>1. ProcOK(l, job[p], NoCall, m)
  BY Distinct DEF ProcOK, Labels, JobsAt, OpAt, CallOK, NoCall
<1>2. calm[p] => Knows(l, job[p], NoCall, m, keys)
  BY DEF Knows, NoCall, Changes
<1>3. Holding(promise[p], l, keys) /\ calm[p] \in BOOLEAN
  BY DEF IInv, ProcInv, Holding, TypeOK
<1>4. /\ job' = [job EXCEPT ![p] = job[p]] /\ calm' = [calm EXCEPT ![p] = calm[p]]
      /\ promise' = [promise EXCEPT ![p] = promise[p]]
  BY DEF IInv, TypeOK
<1> QED
  BY <1>1, <1>2, <1>3, <1>4, OneProcess

\* Client() or a self-heal failed, for the server or for status.
LEMMA ClientFailsInv ==
  ASSUME IInv, NEW p \in Procs, NEW m, MemOK(m), ClientFails(p, m),
         proton' = proton, pc[p] # "off", m.current = Blank \/ m.scopeSpent
  PROVE  IInv'
<1>1. ProtonOK(proton')
  BY DEF IInv, TypeOK, ProtonOK
<1>2. CASE job[p] = "status" /\ Exit(p, NoPromise)
  BY <1>2, ExitInv, Distinct DEF NoPromise
<1>3. CASE ~(job[p] = "status" /\ Exit(p, NoPromise))
  BY <1>1, <1>3, ReturnedInv DEF ClientFails, Go, history
<1> QED
  BY <1>2, <1>3

\* One of the latches is set, the scope's when a client is in use.
LEMMA LatchedFacts ==
  ASSUME NEW m, MemOK(m)
  PROVE  /\ MemOK(Latched(m))
         /\ Latched(m).current = Blank \/ Latched(m).scopeSpent
<1>1. Blank \in Bundles
  BY Distinct DEF Shaped
<1>2. CASE m.clients = {}
  <2> DEFINE n == [m EXCEPT !.exhausted = TRUE, !.next = Blank]
  <2>1. n \in MemRecords /\ n.current = m.current /\ n.clients = m.clients
    BY <1>1 DEF MemOK, MemRecords
  <2>2. Latched(m) = n
    BY <1>2 DEF Latched
  <2> HIDE DEF n
  <2> QED
    BY <1>2, <2>1, <2>2 DEF MemOK
<1>3. CASE m.clients # {}
  <2> DEFINE n == [m EXCEPT !.scopeSpent = TRUE, !.next = Blank]
  <2>1. /\ n \in MemRecords /\ n.current = m.current /\ n.clients = m.clients
        /\ n.scopeSpent
    BY <1>1 DEF MemOK, MemRecords
  <2>2. Latched(m) = n
    BY <1>3 DEF Latched
  <2> HIDE DEF n
  <2> QED
    BY <1>3, <2>1, <2>2 DEF MemOK
<1> QED
  BY <1>2, <1>3

LEMMA LoginFailsInv ==
  ASSUME IInv, NEW p \in Procs, NEW m, MemOK(m), LoginFails(p, m),
         proton' = proton, pc[p] # "off"
  PROVE  IInv'
<1>1. CASE Exit(p, NoPromise)
  BY <1>1, ExitInv, Distinct DEF NoPromise
<1>2. CASE ClientFails(p, Latched(m))
  BY <1>2, LatchedFacts, ClientFailsInv
<1> QED
  BY <1>1, <1>2 DEF LoginFails

\* The bundles of a session and of an account.
LEMMA SessFacts ==
  /\ \A s \in Sids, g \in 1..MaxGen :
       /\ SessBundle(s, g) \in SessBundles
       /\ SessBundle(s, g)["uid"] = Plain(s) /\ SessBundle(s, g)["refresh"] = Token(s, g)
  /\ \A b \in SessBundles : /\ b \in Shaped /\ b # Blank
                            /\ \A e \in Entries : b[e] # None <=> e \in InSession
<1>1. ASSUME NEW s \in Sids, NEW g \in 1..MaxGen
      PROVE  /\ SessBundle(s, g) \in SessBundles /\ SessBundle(s, g) \in Shaped
             /\ SessBundle(s, g)["uid"] = Plain(s) /\ SessBundle(s, g)["refresh"] = Token(s, g)
             /\ SessBundle(s, g) # Blank
             /\ \A e \in Entries : SessBundle(s, g)[e] # None <=> e \in InSession
  <2>1. Plain(s) \in Values /\ Token(s, g) \in Values
    BY DeploymentAssumption DEF DeploymentAssumption, Values, Plain, Token, Sids
  <2>2. Plain(s) # None /\ Token(s, g) # None
    BY <2>1, Distinct
  <2> DEFINE b == SessBundle(s, g)
  <2>3. /\ b \in Bundles /\ b["uid"] = Plain(s) /\ b["refresh"] = Token(s, g)
        /\ \A e \in Entries \ InSession : b[e] = None
    BY <2>1 DEF SessBundle, Blank, Bundles, Entries, InSession
  <2>4. b \in SessBundles /\ Plain(s) \in UIDs /\ Token(s, g) \in RefreshTokens
    BY DEF SessBundles, UIDs, RefreshTokens
  <2> HIDE DEF b
  <2>5. b \in Shaped
    BY <2>3, <2>4 DEF Shaped, Holds, Entries, InSession
  <2>6. Blank["uid"] = None
    BY DEF Blank, Entries, InSession
  <2>7. b # Blank
    BY <2>2, <2>3, <2>6
  <2> QED
    BY <2>2, <2>3, <2>4, <2>5, <2>7 DEF b, Entries, InSession
<1>2. ASSUME NEW b \in SessBundles
      PROVE  b \in Shaped /\ b # Blank /\ \A e \in Entries : b[e] # None <=> e \in InSession
  <2>1. PICK s \in Sids, g \in 1..MaxGen : b = SessBundle(s, g)
    BY DEF SessBundles
  <2> QED
    BY <1>1, <2>1
<1> QED
  BY <1>1, <1>2

LEMMA CredFacts ==
  /\ \A a \in Accounts : CredBundle(a) \in CredBundles
  /\ \A b \in CredBundles : b \in Shaped /\ b # Blank
<1>1. ASSUME NEW a \in Accounts PROVE CredBundle(a) \in CredBundles
  <2>1. Plain(a) \in Values
    BY DeploymentAssumption DEF DeploymentAssumption, Values, Plain
  <2>2. Plain(a) # None /\ Plain(a) \in CredValues
    BY <2>1, Distinct DEF CredValues
  <2> DEFINE b == CredBundle(a)
  <2>3. /\ b \in Bundles /\ b["username"] = Plain(a) /\ b["password"] = Plain(a)
        /\ b["totp"] \in {Plain(a), None}
        /\ \A e \in InSession : b[e] = None
    BY <2>1 DEF CredBundle, Blank, Bundles, Entries, InSession
  <2> HIDE DEF b
  <2>4. b \in Shaped
    BY <2>2, <2>3 DEF Shaped, Holds, Entries, InSession
  <2> QED
    BY <2>2, <2>3, <2>4 DEF b, CredBundles
<1>2. ASSUME NEW b \in CredBundles PROVE b \in Shaped /\ b # Blank
  BY DEF CredBundles, Blank, Entries
<1> QED
  BY <1>1, <1>2

\* A session that Proton honours can be rotated into a bundle.
LEMMA RotatedInv ==
  ASSUME IInv, NEW b \in Shaped, b["uid"] # None, b["refresh"] # None,
         Honoured(b), b["refresh"].gen < MaxGen,
         proton' = [proton EXCEPT ![b["uid"].id].gen = @ + 1]
  PROVE  NewTokens(b) \in SessBundles /\ ProtonOK(proton')
<1>1. b["uid"] \in UIDs /\ b["refresh"] \in RefreshTokens
  BY DEF Shaped, Holds, Entries, InSession
<1>2. PICK s \in Sids : b["uid"] = Plain(s)
  BY <1>1 DEF UIDs
<1>3. PICK z \in Sids, g \in 1..MaxGen : b["refresh"] = Token(z, g)
  BY <1>1 DEF RefreshTokens
<1>4. b["uid"].id = s /\ b["refresh"].gen = g
  BY <1>2, <1>3 DEF Plain, Token
<1>5. g + 1 \in 1..MaxGen /\ g + 1 \in 0..MaxGen
  BY <1>4, DeploymentAssumption DEF DeploymentAssumption
<1>6. NewTokens(b) = SessBundle(s, g + 1)
  BY <1>4 DEF NewTokens
<1>7. proton[s].gen = g
  BY <1>4 DEF Honoured
<1>8. ProtonOK(proton')
  BY <1>4, <1>5, <1>7, ZenonT(60) DEF ProtonOK, IInv, TypeOK
<1> QED
  BY <1>5, <1>6, <1>8, SessFacts

LEMMA CreatedInv ==
  ASSUME IInv, NEW s \in Unused, NEW a \in Accounts,
         proton' = [proton EXCEPT ![s] = [acct |-> a, gen |-> 1]]
  PROVE  SessBundle(s, 1) \in SessBundles /\ ProtonOK(proton')
<1>1. s \in Sids /\ 1 \in 1..MaxGen /\ 1 \in 0..MaxGen
  BY DeploymentAssumption DEF DeploymentAssumption, Unused
<1> QED
  BY <1>1, SessFacts DEF ProtonOK, IInv, TypeOK

LEMMA ClientReturnsInv ==
  ASSUME IInv, NEW p \in Procs, NEW m, MemOK(m), ClientReturns(p, m),
         proton' = proton, job[p] \in {"server", "status"}, pc[p] # "off",
         m.current # Blank, job[p] = "status" => ~m.scopeSpent,
         calm[p] /\ ~m.degraded /\ ~m.scopeSpent =>
           \A e \in InSession : keys[e] = m.current[e]
  PROVE  IInv'
<1>1. ProtonOK(proton')
  BY DEF IInv, TypeOK, ProtonOK
<1>2. /\ pc' = [pc EXCEPT ![p] = IF job[p] = "server" THEN "serving" ELSE "getUser"]
      /\ mem' = [mem EXCEPT ![p] = m] /\ call' = [call EXCEPT ![p] = NoCall]
      /\ UNCHANGED <<keys, job, calm, promise>>
  BY DEF ClientReturns, Go, history
<1> QED
  BY <1>1, <1>2, ReturnedInv

-----------------------------------------------------------------------------
(* The steps of a process inside a keychain call.                          *)

\* The acting process has one more entry done; who else was calm is not.
LEMMA ChangeEntryInv ==
  ASSUME IInv, NEW p \in Procs, ChangeEntry(p)
  PROVE  IInv'
<1> DEFINE d == Advanced(call[p])
<1>1. /\ call[p].op \in Changes /\ call[p].op \in Ops /\ call[p].res = ""
      /\ call' = [call EXCEPT ![p] = d]
  BY ChangeStep DEF ChangeEntry
<1>2. PICK e \in EntriesOf(call[p].op) : /\ keys' = [keys EXCEPT ![e] = call[p].val[e]]
                                         /\ Done(d) = Done(call[p]) \cup {e}
  BY ChangeStep DEF ChangeEntry
<1>3. /\ calm' = [q \in Procs |-> calm[q] /\ q = p]
      /\ promise' = [q \in Procs |-> IF q = p THEN promise[q] ELSE NoPromise]
      /\ UNCHANGED <<proton, job, pc, mem>>
  BY DEF ChangeEntry
<1>4. ProcOK(pc[p], job[p], call[p], mem[p]) /\ CallOK(call[p]) /\ ProcInv(p)
  BY DEF IInv, ProcInv, ProcOK
<1>5. CallOK(d) /\ d.op = call[p].op /\ d.val = call[p].val
  BY <1>1, <1>4, AdvancedOK, AdvancedDone
<1>6. e \in Entries /\ call[p].val \in Shaped /\ keys \in Shaped
  BY <1>1, <1>2, <1>4, EntrySets DEF CallOK, IInv
<1>7. keys' \in Shaped /\ keys' \in Bundles
  BY <1>2, <1>6, ChangeShaped DEF Shaped
<1>8. \A f \in Entries : keys'[f] = IF f = e THEN call[p].val[e] ELSE keys[f]
  BY <1>2, <1>6 DEF Shaped, Bundles
<1>9. d \in CallRecords
  BY <1>5 DEF CallOK
<1> HIDE DEF d
<1>10. TypeOK'
  BY <1>1, <1>3, <1>7, <1>9, Distinct DEF IInv, TypeOK, CallRecords, Promises
<1>11. ProcInv(p)'
  <2>1. /\ call'[p] = d /\ calm'[p] = calm[p] /\ promise'[p] = promise[p]
    BY <1>1, <1>3 DEF IInv, TypeOK
  <2>2. ProcOK(pc[p], job[p], d, mem[p])
    BY <1>4, <1>5 DEF ProcOK
  <2>3. pc[p] # "off" /\ d.op \in Changes /\ d.op = OpAt(pc[p])
    BY <1>1, <1>4, <1>5 DEF ProcOK, OpAt, Changes
  <2>4. ASSUME calm[p] PROVE Knows(pc[p], job[p], d, mem[p], keys')
    <3>1. Knows(pc[p], job[p], call[p], mem[p], keys)
      BY <1>4, <2>4 DEF ProcInv
    <3>2. Done(call[p]) \subseteq Entries
      BY <1>1, <1>4, DoneEnds, EntrySets
    <3>3. \A f \in Done(d) : keys'[f] = d.val[f]
      <4>1. \A f \in Done(call[p]) : keys[f] = call[p].val[f]
        BY <1>1, <3>1 DEF Knows
      <4> QED
        BY <1>2, <1>5, <1>6, <1>8, <3>2, <4>1
    <3>4. pc[p] \notin {"serving", "getUser"}
      BY <2>3 DEF OpAt, Changes
    <3>5. pc[p] = "saveSess" => e \in InSession
      BY <1>2, <1>5, <2>3, EntrySets DEF OpAt
    <3>6. pc[p] = "saveSess" /\ job[p] = "login" =>
            \A f \in Entries \ InSession : keys'[f] = mem[p].creds[f]
      BY <1>8, <3>1, <3>5 DEF Knows
    <3> QED
      BY <2>3, <3>3, <3>4, <3>6 DEF Knows
  <2>5. Holding(promise[p], pc[p], keys')
    <3>1. promise[p] = NoPromise
      BY <1>4, <2>3 DEF ProcInv, Holding
    <3>2. Holding(NoPromise, pc[p], keys')
      BY Distinct DEF Holding, NoPromise
    <3> QED
      BY <3>1, <3>2
  <2> QED
    BY <1>3, <2>1, <2>2, <2>4, <2>5 DEF ProcInv
<1>12. ASSUME NEW q \in Procs, q # p PROVE ProcInv(q)'
  <2>1. /\ call'[q] = call[q] /\ ~calm'[q] /\ promise'[q] = NoPromise
    BY <1>1, <1>3, <1>12 DEF IInv, TypeOK
  <2>2. Holding(NoPromise, pc[q], keys')
    BY Distinct DEF Holding, NoPromise
  <2>3. ProcOK(pc[q], job[q], call[q], mem[q])
    BY DEF IInv, ProcInv
  <2> QED
    BY <1>3, <2>1, <2>2, <2>3 DEF ProcInv
<1> QED
  BY <1>7, <1>10, <1>11, <1>12 DEF IInv

LEMMA OtherEntryInv ==
  ASSUME IInv, NEW p \in Procs, OtherEntry(p)
  PROVE  IInv'
<1>1. PICK c : /\ call' = [call EXCEPT ![p] = c] /\ keys' = keys
               /\ CallOK(c) /\ c.op = call[p].op /\ c.op # "none"
               /\ c.op \in Changes => c.val = call[p].val /\ Done(c) = Done(call[p])
  <2>1. CASE ReadEntry(p)
    <3>1. call[p].op # "none"
      BY <2>1 DEF ReadEntry, Running
    <3> QED
      BY <2>1, <3>1, ReadStep
  <2>2. CASE EntryFails(p)
    <3>1. call[p].op # "none"
      BY <2>2 DEF EntryFails, Running, Ops
    <3> QED
      BY <2>2, <3>1, FailStep
  <2> QED
    BY <2>1, <2>2 DEF OtherEntry
<1>2. ProcInv(p) /\ ProcOK(pc[p], job[p], call[p], mem[p])
  BY DEF IInv, ProcInv
<1>3. c.op \in Changes \/ pc[p] \in {"loadSess", "loadCreds"}
  BY <1>1, <1>2 DEF ProcOK, OpAt, Changes, Labels
<1>4. ProcOK(pc[p], job[p], c, mem[p])
  BY <1>1, <1>2, <1>3 DEF ProcOK
<1>5. calm[p] => Knows(pc[p], job[p], c, mem[p], keys)
  BY <1>1, <1>2 DEF ProcInv, Knows
<1>6. /\ ProtonOK(proton') /\ pc' = [pc EXCEPT ![p] = pc[p]] /\ job' = [job EXCEPT ![p] = job[p]]
      /\ mem' = [mem EXCEPT ![p] = mem[p]] /\ calm' = [calm EXCEPT ![p] = calm[p]]
      /\ promise' = [promise EXCEPT ![p] = promise[p]] /\ calm[p] \in BOOLEAN
  BY DEF OtherEntry, history, IInv, TypeOK, ProtonOK
<1>7. Holding(promise[p], pc[p], keys)
  BY <1>2 DEF ProcInv
<1> QED
  BY <1>1, <1>4, <1>5, <1>6, <1>7, OneProcess

-----------------------------------------------------------------------------
(* The steps of Client(), of a login and of the commands.                  *)

\* What the invariant says of the process that acts.
LEMMA Acting ==
  ASSUME IInv, NEW p \in Procs
  PROVE  /\ ProcOK(pc[p], job[p], call[p], mem[p]) /\ CallOK(call[p])
         /\ calm[p] => Knows(pc[p], job[p], call[p], mem[p], keys)
         /\ ProtonOK(proton) /\ MemOK(mem[p])
         /\ job[p] \in JobsAt(pc[p]) /\ call[p].op = OpAt(pc[p])
BY DEF IInv, ProcInv, ProcOK, ProtonOK, TypeOK

\* A finished call of a calm process has written or read everything.
LEMMA ReturnedFacts ==
  ASSUME IInv, NEW p \in Procs, call[p].res = "ok"
  PROVE  /\ call[p].op = "loadSession" =>
              \A e \in InSession : call[p].val[e] # None
         /\ call[p].op = "loadCreds" =>
              \A e \in (Entries \ InSession) \ Optional : call[p].val[e] # None
         /\ call[p].op \in Changes /\ calm[p] =>
              \A e \in EntriesOf(call[p].op) : keys[e] = call[p].val[e]
<1>1. CallOK(call[p]) /\ (calm[p] => Knows(pc[p], job[p], call[p], mem[p], keys))
  BY Acting
<1>2. call[p].op # "none"
  <2>1. NoCall.res = ""
    BY DEF NoCall
  <2>2. call[p].op = "none" => call[p] = NoCall
    BY <1>1 DEF CallOK
  <2> QED
    BY <2>1, <2>2
<1>3. call[p].op \in Ops
  BY <1>1, <1>2 DEF CallOK, CallRecords
<1>4. Done(call[p]) = EntriesOf(call[p].op)
  BY <1>1, <1>3, DoneEnds
<1>5. "uid" \notin Optional /\ "refresh" \notin Optional
  BY DEF Optional
<1> QED
  BY <1>1, <1>4, <1>5, EntrySets DEF CallOK, Knows, InSession

LEMMA ClientStepsInv ==
  ASSUME IInv, NEW p \in Procs,
         \/ ToolCall(p) \/ ColdFails(p) \/ Refresh(p) \/ RefreshSaved(p) \/ RefreshRejected(p)
         \/ HealScope(p) \/ ReloginFails(p)
  PROVE  IInv'
<1>0. /\ ProcOK(pc[p], job[p], call[p], mem[p]) /\ CallOK(call[p])
      /\ calm[p] => Knows(pc[p], job[p], call[p], mem[p], keys)
      /\ ProtonOK(proton) /\ MemOK(mem[p])
      /\ job[p] \in JobsAt(pc[p]) /\ call[p].op = OpAt(pc[p])
  BY Acting
<1>1. CASE ToolCall(p)
  <2>1. pc[p] = "serving" /\ mem[p].clients = {} /\ job[p] = "server"
    BY <1>0, <1>1 DEF ToolCall, JobsAt
  <2>2. \A c : CallOK(c) /\ c.op = "loadSession" /\ c.val = Blank =>
                 ProcOK("loadSess", job[p], c, mem[p])
    BY <1>0, <2>1 DEF ProcOK, JobsAt, OpAt, Labels
  <2> QED
    BY <1>0, <1>1, <2>1, <2>2, Distinct, CallsInv DEF ToolCall, Ops, Labels
<1>2. CASE ColdFails(p)
  <2>1. pc[p] = "loadSess" /\ mem[p].current = Blank /\ proton' = proton
    BY <1>0, <1>2 DEF ColdFails, ProcOK, MemOK, ClientFails, Exit
  <2> QED
    BY <1>0, <1>2, <2>1, ClientFailsInv DEF ColdFails
<1>3. CASE Refresh(p)
  <2> DEFINE b == call[p].val
  <2>1. /\ pc[p] = "loadSess" /\ mem[p].clients = {} /\ job[p] \in {"server", "status"}
        /\ call[p].op = "loadSession" /\ call[p].res = "ok"
    BY <1>0, <1>3 DEF Refresh, ProcOK, JobsAt, OpAt
  <2>2. b \in Shaped /\ b["uid"] # None /\ b["refresh"] # None
    BY <1>0, <2>1, ReturnedFacts DEF CallOK, InSession
  <2>3. NewTokens(b) \in SessBundles /\ ProtonOK(proton')
    BY <1>3, <2>2, RotatedInv DEF Refresh
  <2>4. \A c : CallOK(c) /\ c.op = "saveSession" /\ c.val = NewTokens(b) =>
                 ProcOK("saveCold", job[p], c, mem[p])
    BY <1>0, <2>1 DEF ProcOK, JobsAt, OpAt, Labels
  <2>5. NewTokens(b) \in Shaped
    BY <2>3, SessFacts
  <2>6. Calls(p, "saveCold", "saveSession", NewTokens(b), mem[p])
    BY <1>3 DEF Refresh
  <2>7. "saveCold" \in Labels \ {"off"} /\ "saveSession" \in Ops /\ pc[p] # "off"
    BY <2>1 DEF Ops, Labels
  <2> HIDE DEF b
  <2> QED
    BY <2>3, <2>4, <2>5, <2>6, <2>7, CallsInv
<1>4. CASE RefreshSaved(p)
  <2>1. /\ pc[p] = "saveCold" /\ job[p] \in {"server", "status"}
        /\ call[p].op = "saveSession" /\ call[p].val \in SessBundles
        /\ mem[p].clients = {} /\ (job[p] = "status" => ~mem[p].scopeSpent)
        /\ proton' = proton
    BY <1>0, <1>4 DEF RefreshSaved, ProcOK, CallOK, JobsAt, OpAt, ClientReturns
  <2>2. calm[p] /\ call[p].res = "ok" => \A e \in InSession : keys[e] = call[p].val[e]
    BY <2>1, ReturnedFacts, EntrySets DEF Changes
  <2> DEFINE d == call[p].res # "ok"
             n == [mem[p] EXCEPT !.current = call[p].val, !.clients = {call[p].val},
                                 !.degraded = d]
  <2>3. /\ MemOK(n) /\ n.current = call[p].val /\ n.degraded = d
        /\ n.scopeSpent = mem[p].scopeSpent
    <3>1. d \in BOOLEAN /\ call[p].val \in Bundles
      BY <2>1, SessFacts DEF Shaped
    <3> HIDE DEF d
    <3>2. /\ n \in MemRecords /\ n.current = call[p].val /\ n.clients = {call[p].val}
          /\ n.degraded = d /\ n.scopeSpent = mem[p].scopeSpent
      BY <1>0, <3>1 DEF MemOK, MemRecords
    <3> HIDE DEF n
    <3> QED
      BY <2>1, <3>2 DEF MemOK
  <2>4. ClientReturns(p, n)
    BY <1>4 DEF RefreshSaved
  <2>5. n.current # Blank /\ (~d => call[p].res = "ok")
    BY <2>1, <2>3, SessFacts
  <2> HIDE DEF n, d
  <2> QED
    BY <2>1, <2>2, <2>3, <2>4, <2>5, ClientReturnsInv
<1>5. CASE RefreshRejected(p)
  <2>1. pc[p] = "loadSess" /\ mem[p].clients = {} /\ job[p] \in {"server", "status"}
    BY <1>0, <1>5 DEF RefreshRejected, ProcOK, JobsAt
  <2>2. \A c : CallOK(c) /\ c.op = "loadCreds" /\ c.val = Blank =>
                 ProcOK("loadCreds", job[p], c, mem[p])
    BY <1>0, <2>1 DEF ProcOK, JobsAt, OpAt, Labels
  <2> QED
    BY <1>0, <1>5, <2>1, <2>2, Distinct, CallsInv DEF RefreshRejected, Ops, Labels
<1>6. CASE ReloginFails(p)
  <2>1. pc[p] = "loadCreds" /\ ClientFails(p, Latched(mem[p])) /\ proton' = proton
    BY <1>0, <1>6 DEF ReloginFails, ClientFails, Exit
  <2> QED
    BY <1>0, <2>1, LatchedFacts, ClientFailsInv
<1>7. CASE HealScope(p)
  <2>1. pc[p] = "serving" /\ job[p] = "server"
    BY <1>0, <1>7 DEF HealScope, JobsAt
  <2>2. \A c : CallOK(c) /\ c.op = "loadCreds" /\ c.val = Blank =>
                 ProcOK("loadCreds", job[p], c, mem[p])
    BY <1>0, <2>1 DEF ProcOK, JobsAt, OpAt, Labels
  <2> QED
    BY <1>0, <1>7, <2>1, <2>2, Distinct, CallsInv DEF HealScope, Ops, Labels
<1> QED
  BY <1>1, <1>2, <1>3, <1>4, <1>5, <1>6, <1>7

\* A login in a process: its tokens are the next ones.
LEMMA LogsIn ==
  ASSUME NEW m, MemOK(m), NEW b \in SessBundles
  PROVE  LET n == [m EXCEPT !.next = b]
         IN  /\ MemOK(n) /\ n.next = b /\ n.clients = m.clients /\ n.creds = m.creds
             /\ n.scopeSpent = m.scopeSpent
<1> DEFINE n == [m EXCEPT !.next = b]
<1>1. b \in Bundles
  BY SessFacts DEF Shaped
<1>2. /\ n \in MemRecords /\ n.current = m.current /\ n.clients = m.clients /\ n.next = b
      /\ n.creds = m.creds /\ n.scopeSpent = m.scopeSpent
  BY <1>1 DEF MemOK, MemRecords
<1> HIDE DEF n
<1>3. MemOK(n)
  BY <1>2 DEF MemOK
<1> QED
  BY <1>2, <1>3 DEF n

LEMMA LoginStepsInv ==
  ASSUME IInv, NEW p \in Procs,
         Relogin(p) \/ Login(p) \/ CredsSaved(p) \/ Rollback(p) \/ RolledBack(p) \/ LoginSaved(p)
  PROVE  IInv'
<1>0. /\ ProcOK(pc[p], job[p], call[p], mem[p]) /\ CallOK(call[p])
      /\ calm[p] => Knows(pc[p], job[p], call[p], mem[p], keys)
      /\ ProtonOK(proton) /\ MemOK(mem[p])
      /\ job[p] \in JobsAt(pc[p]) /\ call[p].op = OpAt(pc[p])
  BY Acting
<1>1. CASE Relogin(p)
  <2> DEFINE b == call[p].val
  <2>1. /\ pc[p] = "loadCreds" /\ job[p] \in {"server", "status"}
        /\ call[p].op = "loadCreds" /\ call[p].res = "ok"
        /\ job[p] # "server" => mem[p].clients = {} /\ ~mem[p].scopeSpent
    BY <1>0, <1>1 DEF Relogin, ProcOK, JobsAt, OpAt
  <2>2. b \in Shaped /\ b["username"] # None /\ b["password"] # None
        /\ \A e \in InSession : b[e] = None
    BY <1>0, <2>1, ReturnedFacts DEF CallOK, InSession, Entries, Optional
  <2>3. b \in CredBundles /\ b["username"] \in CredValues
    BY <2>2 DEF CredBundles, Shaped, Holds, Entries, InSession
  <2>4. b["username"].id \in Accounts
    BY <2>3 DEF CredValues, Plain
  <2>5. PICK s \in Unused :
          /\ proton' = [proton EXCEPT ![s] = [acct |-> b["username"].id, gen |-> 1]]
          /\ Calls(p, "saveCreds", "saveCreds", b, [mem[p] EXCEPT !.next = SessBundle(s, 1)])
    BY <1>1 DEF Relogin
  <2>6. SessBundle(s, 1) \in SessBundles /\ ProtonOK(proton')
    BY <2>4, <2>5, CreatedInv
  <2> DEFINE m == [mem[p] EXCEPT !.next = SessBundle(s, 1)]
  <2>7. /\ MemOK(m) /\ m.next \in SessBundles
        /\ m.clients = mem[p].clients /\ m.scopeSpent = mem[p].scopeSpent
    BY <1>0, <2>6, LogsIn
  <2> HIDE DEF m, b
  <2>8. \A c : CallOK(c) /\ c.op = "saveCreds" /\ c.val = b => ProcOK("saveCreds", job[p], c, m)
    BY <2>1, <2>7 DEF ProcOK, JobsAt, OpAt, Labels
  <2>9. Calls(p, "saveCreds", "saveCreds", b, m) /\ b \in Shaped
    BY <2>3, <2>5, CredFacts DEF m
  <2>10. "saveCreds" \in Labels \ {"off"} /\ "saveCreds" \in Ops /\ pc[p] # "off"
    BY <2>1 DEF Ops, Labels
  <2> QED
    BY <2>3, <2>6, <2>8, <2>9, <2>10, CallsInv
<1>2. CASE Login(p)
  <2>1. pc[p] = "start" /\ job[p] = "login" /\ mem[p] = NoMem
    BY <1>0, <1>2 DEF Login, ProcOK
  <2>2. PICK a \in Accounts, s \in Unused :
          /\ proton' = [proton EXCEPT ![s] = [acct |-> a, gen |-> 1]]
          /\ Calls(p, "saveCreds", "saveCreds", CredBundle(a),
                   [mem[p] EXCEPT !.creds = CredBundle(a), !.next = SessBundle(s, 1)])
    BY <1>2 DEF Login
  <2>3. SessBundle(s, 1) \in SessBundles /\ ProtonOK(proton')
    BY <2>2, CreatedInv
  <2> DEFINE m == [mem[p] EXCEPT !.creds = CredBundle(a), !.next = SessBundle(s, 1)]
             b == CredBundle(a)
  <2>4. /\ MemOK(m) /\ m.next \in SessBundles /\ m.creds = b
        /\ m.clients = {} /\ ~m.scopeSpent
    <3>1. mem[p].current = Blank /\ mem[p].clients = {} /\ ~mem[p].scopeSpent
      BY <2>1 DEF NoMem
    <3>2. SessBundle(s, 1) \in Bundles /\ b \in Bundles
      BY <2>3, SessFacts, CredFacts DEF Shaped
    <3> HIDE DEF b
    <3>3. m = [mem[p] EXCEPT !.creds = b, !.next = SessBundle(s, 1)]
      BY DEF b
    <3> HIDE DEF m
    <3>4. /\ m \in MemRecords /\ m.current = Blank /\ m.next = SessBundle(s, 1)
          /\ m.creds = b /\ m.clients = {} /\ ~m.scopeSpent
      BY <1>0, <3>1, <3>2, <3>3 DEF MemOK, MemRecords
    <3> QED
      BY <2>3, <3>4 DEF MemOK
  <2>5. b \in CredBundles /\ b \in Shaped
    BY CredFacts
  <2>6. Calls(p, "saveCreds", "saveCreds", b, m)
    BY <2>2
  <2> HIDE DEF m, b
  <2>7. \A c : CallOK(c) /\ c.op = "saveCreds" /\ c.val = b => ProcOK("saveCreds", job[p], c, m)
    BY <2>1, <2>4 DEF ProcOK, JobsAt, OpAt, Labels
  <2> QED
    BY <2>1, <2>3, <2>5, <2>6, <2>7, CallsInv DEF Ops, Labels
<1>3. CASE CredsSaved(p)
  <2>1. /\ pc[p] = "saveCreds" /\ job[p] \in {"login", "server", "status"}
        /\ call[p].op = "saveCreds" /\ call[p].res = "ok" /\ mem[p].next \in SessBundles
        /\ job[p] = "login" => mem[p].creds = call[p].val
        /\ call[p].val \in CredBundles
    BY <1>0, <1>3 DEF CredsSaved, ProcOK, CallOK, JobsAt, OpAt
  <2>2. \A c : CallOK(c) /\ c.op = "saveSession" /\ c.val = mem[p].next =>
                 ProcOK("saveSess", job[p], c, mem[p])
    BY <1>0, <2>1 DEF ProcOK, JobsAt, OpAt, Labels
  <2>3. calm[p] => \A e \in Entries \ InSession : keys[e] = call[p].val[e]
    BY <2>1, ReturnedFacts, EntrySets DEF Changes
  <2> QED
    BY <1>0, <1>3, <2>1, <2>2, <2>3, SessFacts, CallsInv DEF CredsSaved, Ops, Labels
<1>4. CASE Rollback(p)
  <2>1. /\ pc[p] \in {"saveCreds", "saveSess"}
        /\ job[p] \in {"login", "server", "status"}
    BY <1>0, <1>4 DEF Rollback, ProcOK, JobsAt
  <2>2. CASE Calls(p, "rollback", "clear", Blank, mem[p]) /\ UNCHANGED proton
    <3>1. \A c : CallOK(c) /\ c.op = "clear" /\ c.val = Blank =>
                   ProcOK("rollback", job[p], c, mem[p])
      BY <1>0, <2>1 DEF ProcOK, JobsAt, OpAt, Labels
    <3> QED
      BY <1>0, <2>1, <2>2, <3>1, Distinct, CallsInv DEF Ops, Labels
  <2>3. CASE LoginFails(p, mem[p])
    <3>1. proton' = proton
      BY <2>3 DEF LoginFails, ClientFails, Exit
    <3> QED
      BY <1>0, <2>1, <2>3, <3>1, LoginFailsInv
  <2> QED
    BY <1>4, <2>2, <2>3 DEF Rollback
<1>5. CASE RolledBack(p)
  <2> DEFINE m == IF call[p].res = "ok" THEN mem[p] ELSE [mem[p] EXCEPT !.poisoned = TRUE]
  <2>1. pc[p] = "rollback" /\ LoginFails(p, m) /\ proton' = proton
    BY <1>0, <1>5 DEF RolledBack, LoginFails, ClientFails, Exit
  <2>2. MemOK(m)
    <3> DEFINE n == [mem[p] EXCEPT !.poisoned = TRUE]
    <3>1. n \in MemRecords /\ n.current = mem[p].current /\ n.clients = mem[p].clients
      BY <1>0 DEF MemOK, MemRecords
    <3> HIDE DEF n
    <3>2. MemOK(n)
      BY <1>0, <3>1 DEF MemOK
    <3> QED
      BY <1>0, <3>2 DEF n
  <2> HIDE DEF m
  <2> QED
    BY <2>1, <2>2, LoginFailsInv
<1>6. CASE LoginSaved(p)
  <2>1. /\ pc[p] = "saveSess" /\ job[p] \in {"login", "server", "status"}
        /\ call[p].op = "saveSession" /\ call[p].res = "ok"
        /\ mem[p].next \in SessBundles /\ call[p].val = mem[p].next
        /\ job[p] = "login" => mem[p].creds \in CredBundles
        /\ job[p] = "status" => mem[p].clients = {}
    BY <1>0, <1>6 DEF LoginSaved, ProcOK, JobsAt, OpAt
  <2>2. calm[p] => \A e \in InSession : keys[e] = mem[p].next[e]
    BY <2>1, ReturnedFacts, EntrySets DEF Changes
  <2>3. ASSUME job[p] # "login", NEW d \in BOOLEAN, mem[p].clients = {} => ~d,
               ClientReturns(p, [mem[p] EXCEPT
                 !.current = mem[p].next, !.next = Blank,
                 !.clients = @ \cup {mem[p].next}, !.degraded = FALSE,
                 !.exhausted = FALSE, !.scopeSpent = d])
        PROVE  IInv'
    <3> DEFINE n == [mem[p] EXCEPT
                      !.current = mem[p].next, !.next = Blank,
                      !.clients = @ \cup {mem[p].next}, !.degraded = FALSE,
                      !.exhausted = FALSE, !.scopeSpent = d]
    <3>1. MemOK(n) /\ n.current = mem[p].next /\ n.scopeSpent = d
      <4>1. Blank \in Bundles /\ mem[p].next \in Bundles
        BY <2>1, SessFacts, Distinct DEF Shaped
      <4>2. /\ n \in MemRecords /\ n.current = mem[p].next /\ n.scopeSpent = d
            /\ n.clients = mem[p].clients \cup {mem[p].next}
        BY <1>0, <4>1 DEF MemOK, MemRecords
      <4> HIDE DEF n
      <4> QED
        BY <1>0, <2>1, <4>2 DEF MemOK
    <3>2. ClientReturns(p, n)
      BY <2>3
    <3>3. n.current # Blank
      BY <2>1, <3>1, SessFacts
    <3> HIDE DEF n
    <3>4. proton' = proton
      BY <3>2 DEF ClientReturns
    <3> QED
      BY <2>1, <2>2, <2>3, <3>1, <3>2, <3>3, <3>4, ClientReturnsInv
  <2> DEFINE b == [e \in Entries |-> IF mem[p].next[e] = None THEN mem[p].creds[e]
                                                             ELSE mem[p].next[e]]
             said == [of |-> "login", keys |-> b]
  <2>4. CASE job[p] = "login" /\ Exit(p, said)
    <3>1. mem[p].next \in Bundles /\ mem[p].creds \in Bundles
      BY <2>1, <2>4, SessFacts, CredFacts DEF Shaped
    <3>2. said \in Promises /\ said.of = "login" /\ said.keys = b
      BY <3>1 DEF Promises, Bundles
    <3>3. ASSUME calm[p] PROVE keys = b
      <4>1. \A e \in Entries \ InSession : keys[e] = mem[p].creds[e]
        BY <1>0, <2>1, <2>4, <3>3 DEF Knows
      <4>2. \A e \in Entries : mem[p].next[e] # None <=> e \in InSession
        BY <2>1, SessFacts
      <4>3. \A e \in Entries : keys[e] = b[e]
        BY <2>2, <3>3, <4>1, <4>2
      <4>4. keys \in Bundles
        BY DEF IInv, TypeOK
      <4> QED
        BY <4>3, <4>4 DEF Bundles
    <3> HIDE DEF said
    <3> QED
      BY <2>4, <3>2, <3>3, ExitInv
  <2> QED
    BY <1>6, <2>3, <2>4 DEF LoginSaved
<1> QED
  BY <1>1, <1>2, <1>3, <1>4, <1>5, <1>6

LEMMA RotateStepsInv ==
  ASSUME IInv, NEW p \in Procs, Rotate(p) \/ RotateSaved(p)
  PROVE  IInv'
<1>0. /\ ProcOK(pc[p], job[p], call[p], mem[p]) /\ CallOK(call[p])
      /\ calm[p] => Knows(pc[p], job[p], call[p], mem[p], keys)
      /\ ProtonOK(proton) /\ MemOK(mem[p])
      /\ job[p] \in JobsAt(pc[p]) /\ call[p].op = OpAt(pc[p])
  BY Acting
<1>1. CASE Rotate(p)
  <2>0. PICK b \in mem[p].clients :
          /\ Honoured(b) /\ b["refresh"].gen < MaxGen
          /\ proton' = [proton EXCEPT ![b["uid"].id].gen = @ + 1]
          /\ Calls(p, "saveRot", "saveSession", NewTokens(b),
                   [mem[p] EXCEPT !.current = NewTokens(b),
                                  !.clients = (@ \ {b}) \cup {NewTokens(b)}])
    BY <1>1 DEF Rotate
  <2> DEFINE new == NewTokens(b)
             m == [mem[p] EXCEPT !.current = new, !.clients = (@ \ {b}) \cup {new}]
  <2>1. /\ pc[p] \in {"serving", "getUser"} /\ job[p] \in {"server", "status"}
        /\ b \in SessBundles
        /\ job[p] # "server" => ~mem[p].scopeSpent
    BY <1>0, <1>1, <2>0 DEF Rotate, ProcOK, MemOK, JobsAt
  <2>2. b \in Shaped /\ b["uid"] # None /\ b["refresh"] # None
    BY <2>1, SessFacts DEF InSession, Entries
  <2>3. new \in SessBundles /\ ProtonOK(proton')
    BY <2>0, <2>2, RotatedInv
  <2>4. Calls(p, "saveRot", "saveSession", new, m)
    BY <2>0
  <2>5. new \in Shaped /\ new # Blank
    BY <2>3, SessFacts
  <2> HIDE DEF new
  <2>6. MemOK(m) /\ m.current = new /\ m.scopeSpent = mem[p].scopeSpent
    <3>1. /\ m \in MemRecords /\ m.current = new /\ m.scopeSpent = mem[p].scopeSpent
          /\ m.clients = (mem[p].clients \ {b}) \cup {new}
      BY <1>0, <2>5 DEF MemOK, MemRecords, Shaped
    <3> HIDE DEF m
    <3> QED
      BY <1>0, <2>3, <3>1 DEF MemOK
  <2> HIDE DEF m
  <2>7. \A c : CallOK(c) /\ c.op = "saveSession" /\ c.val = new => ProcOK("saveRot", job[p], c, m)
    BY <2>1, <2>3, <2>6 DEF ProcOK, JobsAt, OpAt, Labels
  <2> QED
    BY <2>1, <2>3, <2>4, <2>5, <2>7, CallsInv DEF Ops, Labels
<1>2. CASE RotateSaved(p)
  <2>1. /\ pc[p] = "saveRot" /\ job[p] \in {"server", "status"}
        /\ call[p].op = "saveSession" /\ call[p].val \in SessBundles
        /\ mem[p].current = call[p].val /\ proton' = proton
        /\ job[p] # "server" => ~mem[p].scopeSpent
    BY <1>0, <1>2 DEF RotateSaved, ProcOK, CallOK, JobsAt, OpAt, ClientReturns
  <2>2. calm[p] /\ call[p].res = "ok" => \A e \in InSession : keys[e] = mem[p].current[e]
    BY <2>1, ReturnedFacts, EntrySets DEF Changes
  <2> DEFINE d == call[p].res # "ok"
             n == [mem[p] EXCEPT !.degraded = d]
  <2>3. ClientReturns(p, n)
    BY <1>2 DEF RotateSaved
  <2>4. /\ n \in MemRecords /\ n.current = mem[p].current /\ n.clients = mem[p].clients
        /\ n.degraded = d /\ n.scopeSpent = mem[p].scopeSpent
    BY <1>0 DEF MemOK, MemRecords
  <2>5. ~d => call[p].res = "ok"
    OBVIOUS
  <2>6. mem[p].current # Blank
    BY <2>1, SessFacts
  <2> HIDE DEF n, d
  <2>7. MemOK(n)
    BY <1>0, <2>4 DEF MemOK
  <2> QED
    BY <2>1, <2>2, <2>3, <2>4, <2>5, <2>6, <2>7, ClientReturnsInv
<1> QED
  BY <1>1, <1>2

\* A process starts, and knows nothing.
LEMMA StartInv ==
  ASSUME IInv, NEW p \in Procs, StartCommand(p) \/ StartServer(p)
  PROVE  IInv'
<1>1. PICK j, l : /\ Start(p, j, l)
                  /\ \/ l = "start" /\ j \in {"login", "logout", "status"}
                     \/ l = "serving" /\ j = "server"
  BY DEF StartCommand, StartServer
<1>2. /\ ProcOK("off", job[p], call[p], mem[p]) /\ ProtonOK(proton) /\ pc[p] = "off"
  BY <1>1, Acting DEF Start
<1>3. call[p] = NoCall /\ mem[p] = NoMem /\ CallOK(NoCall) /\ MemOK(mem[p])
  BY <1>2 DEF ProcOK, CallOK, OpAt
<1>4. ProcOK(l, j, NoCall, NoMem)
  BY <1>1, <1>3 DEF ProcOK, Labels, JobsAt, OpAt, NoCall, NoMem
<1>5. Knows(l, j, NoCall, NoMem, keys)
  BY <1>1 DEF Knows, NoCall, NoMem, Changes
<1>6. Holding(NoPromise, l, keys)
  BY Distinct DEF Holding, NoPromise
<1>7. /\ pc' = [pc EXCEPT ![p] = l] /\ job' = [job EXCEPT ![p] = j]
      /\ calm' = [calm EXCEPT ![p] = TRUE] /\ promise' = [promise EXCEPT ![p] = NoPromise]
      /\ keys' = keys /\ call' = call /\ proton' = proton /\ mem' = mem
  BY <1>1 DEF Start, Go, kvars
<1>8. call' = [call EXCEPT ![p] = NoCall] /\ mem' = [mem EXCEPT ![p] = NoMem]
  BY <1>3, <1>7 DEF IInv, TypeOK
<1> QED
  BY <1>2, <1>4, <1>5, <1>6, <1>7, <1>8, OneProcess

LEMMA CommandStepsInv ==
  ASSUME IInv, NEW p \in Procs,
         Refused(p) \/ Die(p) \/ Logout(p) \/ LogoutEnds(p) \/ Status(p) \/ StatusEnds(p)
  PROVE  IInv'
<1>0. /\ ProcOK(pc[p], job[p], call[p], mem[p]) /\ CallOK(call[p])
      /\ calm[p] => Knows(pc[p], job[p], call[p], mem[p], keys)
      /\ ProtonOK(proton) /\ MemOK(mem[p])
      /\ job[p] \in JobsAt(pc[p]) /\ call[p].op = OpAt(pc[p])
  BY Acting
<1>1. CASE Exit(p, NoPromise)
  BY <1>1, ExitInv, Distinct DEF NoPromise
<1>2. CASE Logout(p)
  <2>1. pc[p] = "start" /\ job[p] = "logout" /\ mem[p].clients = {}
    BY <1>0, <1>2 DEF Logout, ProcOK, NoMem
  <2>2. \A c : CallOK(c) /\ c.op = "clear" /\ c.val = Blank => ProcOK("clear", job[p], c, mem[p])
    BY <1>0, <2>1 DEF ProcOK, JobsAt, OpAt, Labels
  <2> QED
    BY <1>0, <1>2, <2>1, <2>2, Distinct, CallsInv DEF Logout, Ops, Labels
<1>3. CASE Status(p)
  <2>1. pc[p] = "start" /\ job[p] = "status" /\ mem[p].clients = {}
    BY <1>0, <1>3 DEF Status, ProcOK, NoMem
  <2>2. \A c : CallOK(c) /\ c.op = "loadSession" /\ c.val = Blank =>
                 ProcOK("loadSess", job[p], c, mem[p])
    BY <1>0, <2>1 DEF ProcOK, JobsAt, OpAt, Labels
  <2> QED
    <3>1. Calls(p, "loadSess", "loadSession", Blank, mem[p]) /\ proton' = proton
      BY <1>3 DEF Status
    <3>2. "loadSess" \in Labels \ {"off"} /\ "loadSession" \in Ops /\ pc[p] # "off"
      BY <2>1 DEF Ops, Labels
    <3>3. ProtonOK(proton')
      BY <1>0, <3>1
    <3> QED
      BY <2>2, <3>1, <3>2, <3>3, Distinct, CallsInv
<1>4. CASE pc[p] = "clear" /\ call[p].res = "ok" /\ Exit(p, [of |-> "logout", keys |-> Blank])
  <2> DEFINE said == [of |-> "logout", keys |-> Blank]
  <2>1. said \in Promises /\ said.of = "logout"
    BY Distinct DEF Promises, Shaped
  <2>2. call[p].op = "clear" /\ call[p].val = Blank
    BY <1>0, <1>4 DEF OpAt, CallOK
  <2>3. calm[p] => \A e \in Entries : keys[e] = Blank[e]
    BY <1>4, <2>2, ReturnedFacts, EntrySets DEF Changes
  <2>4. calm[p] => keys = Blank
    <3>1. keys \in Bundles /\ Blank \in Bundles
      BY Distinct DEF IInv, Shaped
    <3> QED
      BY <2>3, <3>1 DEF Bundles
  <2> HIDE DEF said
  <2> QED
    BY <1>4, <2>1, <2>4, ExitInv DEF said
<1>5. CASE pc[p] = "getUser" /\ ~mem[p].degraded
           /\ Exit(p, [of |-> "status", keys |-> mem[p].current])
  <2> DEFINE said == [of |-> "status", keys |-> mem[p].current]
  <2>1. said \in Promises /\ said.of = "status" /\ said.keys = mem[p].current
    BY <1>0 DEF Promises, MemOK, MemRecords
  <2>2. calm[p] => \A e \in InSession : keys[e] = mem[p].current[e]
    <3>1. job[p] = "status"
      BY <1>0, <1>5 DEF JobsAt
    <3>2. ~mem[p].scopeSpent /\ mem[p].current # Blank
      BY <1>0, <1>5, <3>1 DEF ProcOK
    <3> QED
      BY <1>0, <1>5, <3>2 DEF Knows
  <2> HIDE DEF said
  <2> QED
    BY <1>5, <2>1, <2>2, ExitInv DEF said
<1> QED
  BY <1>1, <1>2, <1>3, <1>4, <1>5 DEF Refused, Die, LogoutEnds, StatusEnds

-----------------------------------------------------------------------------
(* The invariant is inductive.                                             *)

LEMMA InitInv == Init => IInv
<1> SUFFICES ASSUME Init PROVE IInv
  OBVIOUS
<1>1. /\ ProcOK("off", "", NoCall, NoMem) /\ Holding(NoPromise, "off", keys)
  BY Distinct DEF ProcOK, Labels, JobsAt, OpAt, CallOK, NoCall, NoMem, Holding, NoPromise
<1>2. keys \in Shaped /\ ProtonOK(proton)
  <2>1. 0 \in 0..MaxGen /\ 1 \in 0..MaxGen /\ 1 \in 1..MaxGen /\ 1 \in Sids
    BY DeploymentAssumption DEF DeploymentAssumption, Sids
  <2>2. CASE keys = Blank /\ proton = [s \in Sids |-> [acct |-> None, gen |-> 0]]
    BY <2>1, <2>2, Distinct DEF ProtonOK
  <2>3. CASE \E a \in Accounts :
               /\ keys = [e \in Entries |-> IF e \in InSession THEN SessBundle(1, 1)[e]
                                                               ELSE CredBundle(a)[e]]
               /\ proton = [s \in Sids |-> IF s = 1 THEN [acct |-> a, gen |-> 1]
                                                    ELSE [acct |-> None, gen |-> 0]]
    <3>1. PICK a \in Accounts :
               /\ keys = [e \in Entries |-> IF e \in InSession THEN SessBundle(1, 1)[e]
                                                               ELSE CredBundle(a)[e]]
               /\ proton = [s \in Sids |-> IF s = 1 THEN [acct |-> a, gen |-> 1]
                                                    ELSE [acct |-> None, gen |-> 0]]
      BY <2>3
    <3>2. SessBundle(1, 1) \in Shaped /\ CredBundle(a) \in Shaped
      BY <2>1, SessFacts, CredFacts
    <3> QED
      BY <2>1, <3>1, <3>2 DEF Shaped, Bundles, ProtonOK
  <2> QED
    BY <2>2, <2>3 DEF Init
<1>3. /\ call = [p \in Procs |-> NoCall] /\ job = [p \in Procs |-> ""]
      /\ pc = [p \in Procs |-> "off"] /\ mem = [p \in Procs |-> NoMem]
      /\ calm = [p \in Procs |-> FALSE] /\ promise = [p \in Procs |-> NoPromise]
  BY DEF Init
<1>4. TypeOK
  BY <1>2, <1>3, Distinct
  DEF TypeOK, Shaped, CallRecords, MemOK, MemRecords, Promises, ProtonOK, Labels
<1>5. \A p \in Procs : ProcInv(p)
  BY <1>1, <1>3 DEF ProcInv
<1> QED
  BY <1>2, <1>4, <1>5 DEF IInv

LEMMA NextInv == IInv /\ [Next]_vars => IInv'
<1> SUFFICES ASSUME IInv, [Next]_vars PROVE IInv'
  OBVIOUS
<1>1. CASE UNCHANGED vars
  BY <1>1 DEF vars, kvars, history, IInv, TypeOK, ProcInv, Shaped, CallOK, Done
<1>2. ASSUME NEW p \in Procs, Step(p) PROVE IInv'
  BY <1>2, ChangeEntryInv, OtherEntryInv, ClientStepsInv, LoginStepsInv, RotateStepsInv,
     CommandStepsInv DEF Step
<1>3. ASSUME NEW p \in Procs, ToolCall(p) \/ HealScope(p) \/ Rotate(p) PROVE IInv'
  BY <1>3, ClientStepsInv, RotateStepsInv
<1>4. ASSUME NEW p \in Procs, StartCommand(p) \/ StartServer(p) \/ Die(p) PROVE IInv'
  BY <1>4, StartInv, CommandStepsInv
<1> QED
  BY <1>1, <1>2, <1>3, <1>4 DEF Next

LEMMA Inductive == Spec => []IInv
BY InitInv, NextInv, PTL DEF Spec

-----------------------------------------------------------------------------
(* What it implies.                                                        *)

\* Every process is at a position of its command, with the call that belongs
\* there, and tokens and credentials never swap their entries.
THEOREM TypeCorrect == Spec => []TypeOK
<1>1. IInv => TypeOK
  BY DEF IInv
<1> QED
  BY <1>1, Inductive, PTL

\* A login that exits with 0 has stored its credentials and its session
\* entirely, however many processes ran beside it, if none wrote meanwhile:
\* persistLoginState.
THEOREM LoginIsStored == Spec => []LoginStoresBoth
<1>1. IInv => LoginStoresBoth
  BY DEF IInv, ProcInv, Holding, LoginStoresBoth
<1> QED
  BY <1>1, Inductive, PTL

\* A logout that exits with 0 has deleted every entry: Clear.
THEOREM LogoutClears == Spec => []LogoutLeavesNothing
<1>1. IInv => LogoutLeavesNothing
  BY DEF IInv, ProcInv, Holding, LogoutLeavesNothing
<1> QED
  BY <1>1, Inductive, PTL

\* A status command that exits with 0 has saved whatever it rotated: the next
\* process to start finds the newest tokens.  (A running server is not told.)
THEOREM StatusSaves == Spec => []StatusKeepsTokens
<1>1. IInv => StatusKeepsTokens
  BY DEF IInv, ProcInv, Holding, StatusKeepsTokens
<1> QED
  BY <1>1, Inductive, PTL

\* A server without the degraded flag has its current tokens in the keychain,
\* as long as no other process has written since it started and its self-heal
\* has not spent the scope latch: OnAuthRotated, persistLoginState and its
\* rollback.  (With the latch spent it may not: Clear took them.)
THEOREM UndegradedStored == Spec => []UndegradedIsStored
<1>1. IInv => UndegradedIsStored
  BY DEF IInv, ProcInv, Knows, UndegradedIsStored
<1> QED
  BY <1>1, Inductive, PTL

LEMMA OnlyChangesWrite ==
  ASSUME NEW p \in Procs, keys' # keys,
         \/ Step(p) \/ ToolCall(p) \/ HealScope(p) \/ Rotate(p)
         \/ StartCommand(p) \/ StartServer(p) \/ Die(p)
  PROVE  ChangeEntry(p)
<1>1. /\ \A l, op, v, m : ~Calls(p, l, op, v, m)
      /\ \A said : ~Exit(p, said)
      /\ \A c, l : ~Start(p, c, l)
  BY DEF Calls, Exit, Start, kvars
<1>2. \A m : ~ClientFails(p, m)
  BY <1>1 DEF ClientFails
<1>3. \A m : ~LoginFails(p, m)
  BY <1>1, <1>2 DEF LoginFails
<1>4. \A m : ~ClientReturns(p, m)
  BY DEF ClientReturns
<1>5. ~OtherEntry(p)
  BY DEF OtherEntry, ReadEntry, EntryFails
<1>6. /\ ~ToolCall(p) /\ ~ColdFails(p) /\ ~Refresh(p) /\ ~RefreshSaved(p)
      /\ ~RefreshRejected(p) /\ ~HealScope(p)
  BY <1>1, <1>2, <1>4
  DEF ToolCall, HealScope, ColdFails, Refresh, RefreshSaved, RefreshRejected
<1>7. ~ReloginFails(p) /\ ~Relogin(p) /\ ~CredsSaved(p) /\ ~Rollback(p) /\ ~RolledBack(p)
  BY <1>1, <1>2, <1>3 DEF ReloginFails, Relogin, CredsSaved, Rollback, RolledBack
<1>8. ~LoginSaved(p) /\ ~Rotate(p) /\ ~RotateSaved(p) /\ ~Refused(p) /\ ~Login(p)
  BY <1>1, <1>4 DEF LoginSaved, Rotate, RotateSaved, Refused, Login
<1>9. ~Logout(p) /\ ~LogoutEnds(p) /\ ~Status(p) /\ ~StatusEnds(p)
  BY <1>1 DEF Logout, LogoutEnds, Status, StatusEnds
<1>10. ~StartCommand(p) /\ ~StartServer(p) /\ ~Die(p)
  BY <1>1 DEF StartCommand, StartServer, Die
<1> QED
  BY <1>5, <1>6, <1>7, <1>8, <1>9, <1>10 DEF Step

\* Saves, however they overlap or fail, leave a loadable session loadable:
\* they replace entries and delete none of the session.
THEOREM ClearAlone == Spec => OnlyClearMakesUnreadable
<1>1. IInv /\ [Next]_vars => [SessionReadable(keys) /\ ~SessionReadable(keys')
                               => \E p \in Procs : Running(p, {"clear"})]_vars
  <2> SUFFICES ASSUME IInv, [Next]_vars, SessionReadable(keys), ~SessionReadable(keys')
               PROVE  \E p \in Procs : Running(p, {"clear"})
    OBVIOUS
  <2>1. keys' # keys
    OBVIOUS
  <2>2. PICK p \in Procs : ChangeEntry(p)
    BY <2>1, OnlyChangesWrite DEF vars, kvars, Next
  <2>3. call[p].op \in Changes /\ call[p].res = "" /\ CallOK(call[p])
    BY <2>2, ChangeStep, Acting DEF ChangeEntry
  <2>4. PICK e \in EntriesOf(call[p].op) : keys' = [keys EXCEPT ![e] = call[p].val[e]]
    BY <2>2, ChangeStep DEF ChangeEntry
  <2>5. PICK f \in InSession : keys[f] # None /\ keys'[f] = None
    BY DEF SessionReadable
  <2>6. keys \in Bundles
    BY DEF IInv, Shaped
  <2>7. f = e /\ call[p].val[e] = None
    BY <2>4, <2>5, <2>6 DEF Bundles
  <2>8. call[p].op # "saveCreds"
    BY <2>5, <2>7, EntrySets
  <2>9. call[p].op # "saveSession"
    BY <2>3, <2>5, <2>7, SessFacts DEF CallOK, InSession, Entries
  <2> QED
    BY <2>3, <2>8, <2>9 DEF Running, Changes
<1> QED
  BY <1>1, Inductive, PTL DEF Spec, OnlyClearMakesUnreadable
=============================================================================
