---------------------------- MODULE ToolsProofs ----------------------------
(***************************************************************************)
(* Theorems about Tools, for every set of calls, addresses, environments   *)
(* and every bound: what the tools report, the gates, the domain check,    *)
(* and the exit code of a server whose listener failed.                    *)
(***************************************************************************)
EXTENDS Tools, Integers, SequenceTheorems, TLAPS

ReadRequests == {"client", "status", "keyrings", "calendarKeyring", "getUser", "get", "getSettings"}
WriteRequests ==
  {"createAddress", "enableAddress", "disableAddress", "addDomain", "verifyDomain",
   "checkOnDomain", "setCatchAll", "clearCatchAll", "name", "sig", "telemetry", "crash",
   "resolveSender", "saveDraft", "label1", "label2", "mark1", "mark2"}
DangerousRequests == {"deleteAddress", "removeDomain", "deleteMessages"}
AllRequests == ReadRequests \cup WriteRequests \cup DangerousRequests

\* The requests a server started in environment e may make.
Allowed(e) ==
  ReadRequests \cup (IF e.writes THEN WriteRequests ELSE {})
               \cup (IF e.writes /\ e.dangerous THEN DangerousRequests ELSE {})

\* The catch-all is set right after the lookup, or to what the lookup found.
Routed(todo, arg) ==
  \A i \in 1..Len(todo) : todo[i] = "setCatchAll" =>
    \/ i = 1 /\ arg \in OnDomain
    \/ i > 1 /\ todo[i - 1] = "checkOnDomain"

\* No request of a program recurs across another one, so that a request found
\* in `done` tells how far the call got.
Spread(p) ==
  \A m, i, j \in 1..Len(p) :
    m < i /\ i < j /\ p[m] = p[j] /\ p[i] \notin Plain => p[j] \in Plain

\* A program that sets something ends with a request that sets something.
Concluded(p) == Settings \cap RequestsOf(p) # {} => p[Len(p)] \in Settings

Ordered(p, done) ==
  \A i, j \in 1..Len(p) : i < j /\ p[i] \notin Plain /\ p[j] \in done => p[i] \in done

\* The call has made the first k requests of its program.
Reached(r, k) ==
  /\ Len(r.todo) + k = Len(r.prog)
  /\ \A i \in 1..Len(r.todo) : r.todo[i] = r.prog[k + i]
  /\ r.done = {r.prog[i] : i \in 1..k} \ Plain

ToolNames ==
  {"", "whoami", "session_status", "read", "create_address", "add_domain", "verify_domain",
   "set_catchall", "disable_catchall", "draft", "label", "mark", "set_status", "update",
   "delete_address", "remove_domain", "delete_messages"}

CallRecords ==
  [state: States, tool: ToolNames, prog: Seq(AllRequests), todo: Seq(AllRequests),
   arg: Addresses \cup {None}, done: SUBSET AllRequests,
   answer: [Settings -> Calls \cup {Old}], said: BOOLEAN, flags: SUBSET BOOLEAN]

Programs(e) ==
  {p \in Seq(AllRequests) :
     /\ p \in Seq(Allowed(e)) /\ p # <<>> /\ Spread(p) /\ Routed(p, None) /\ Concluded(p)
     /\ "label2" \in RequestsOf(p) => p = LabelMessages
     /\ "saveDraft" \in RequestsOf(p) => p = Draft}

CallInv(r, e) ==
  /\ r \in CallRecords
  /\ r.prog \in Programs(e) \cup {<<>>}
  /\ r.tool = "session_status" => r.prog = SessionStatus
  /\ RequestsOf(r.todo) \subseteq RequestsOf(r.prog)
  /\ Routed(r.todo, r.arg)
  /\ "saveDraft" \in RequestsOf(r.todo) => r.arg \in Addresses
  /\ r.done \subseteq RequestsOf(r.prog)
  /\ Ordered(r.prog, r.done)
  /\ r.state = "running" => r.todo # <<>>
  /\ r.state = "running" /\ r.tool # "session_status" => \E k \in 0..Len(r.prog) : Reached(r, k)
  /\ r.state = "ok" /\ r.tool # "session_status" => r.done = RequestsOf(r.prog) \ Plain

ServeInv ==
  /\ stage \in {"boot", "stdio"} => serve = "none"
  /\ stage = "exited" /\ code = 0 => serve \in {"none", "closed"}

AccountOK(a) ==
  /\ a \in Accounts /\ a.enabled \subseteq a.addrs
  /\ a.catchAll \in OnDomain \cup {None}

IInv ==
  /\ ServerTypeOK /\ ServeInv
  /\ AccountOK(account)
  /\ degraded \in BOOLEAN
  /\ call \in [Calls -> CallRecords] /\ \A c \in Calls : CallInv(call[c], env)
  /\ edits \in 0..MaxEdits /\ rotations \in 0..MaxRotations

-----------------------------------------------------------------------------
(* The programs of the tools. *)

LEMMA GivenProgram ==
  ASSUME NEW one \in Settings, NEW two \in Settings, NEW given, NEW e,
         WriteRequests \subseteq Allowed(e)
  PROVE Given(one, two, given) \in Programs(e) \ {Draft}
<1> DEFINE A == IF one \in given THEN <<one>> ELSE <<>>
           B == IF two \in given THEN <<two>> ELSE <<>>
           p == Given(one, two, given)
<1>1. A \in Seq({one, two}) /\ Len(A) \in {0, 1} /\ B \in Seq({one, two}) /\ Len(B) \in {0, 1}
  <2>1. \A x \in {one, two} : <<x>> \in Seq({one, two}) /\ Len(<<x>>) = 1
    OBVIOUS
  <2>2. <<>> \in Seq({one, two}) /\ Len(<<>>) = 0
    OBVIOUS
  <2>3. (A = <<>> \/ A = <<one>>) /\ (B = <<>> \/ B = <<two>>)
    OBVIOUS
  <2> HIDE DEF A, B
  <2>4. A \in Seq({one, two}) /\ Len(A) \in {0, 1}
    <3>1. CASE A = <<>>
      BY <2>2, <3>1
    <3>2. CASE A = <<one>>
      BY <2>1, <3>2
    <3> QED
      BY <2>3, <3>1, <3>2
  <2>5. B \in Seq({one, two}) /\ Len(B) \in {0, 1}
    <3>1. CASE B = <<>>
      BY <2>2, <3>1
    <3>2. CASE B = <<two>>
      BY <2>1, <3>2
    <3> QED
      BY <2>3, <3>1, <3>2
  <2> QED
    BY <2>4, <2>5
<1>2. <<"client">> \in Seq({"client", one, two}) /\ Len(<<"client">>) = 1 /\ <<"client">>[1] = "client"
  OBVIOUS
<1>3. A \in Seq({"client", one, two}) /\ B \in Seq({"client", one, two})
  BY <1>1
<1>4. p = (<<"client">> \o A) \o B
  BY DEF Given
<1>5. (A = <<>> \/ A = <<one>>) /\ (B = <<>> \/ B = <<two>>)
  OBVIOUS
<1> HIDE DEF A, B
<1>6. /\ <<"client">> \o A \in Seq({"client", one, two})
      /\ Len(<<"client">> \o A) = 1 + Len(A) /\ (<<"client">> \o A)[1] = "client"
  BY <1>2, <1>3
<1>7. p \in Seq({"client", one, two}) /\ Len(p) = 1 + Len(A) + Len(B) /\ p[1] = "client"
  BY <1>1, <1>3, <1>4, <1>6
<1> HIDE DEF p
<1>8. {"client", one, two} \subseteq AllRequests /\ {"client", one, two} \subseteq Allowed(e)
  BY DEF AllRequests, Allowed, ReadRequests, WriteRequests, Settings
<1>9. p \in Seq(AllRequests) /\ p \in Seq(Allowed(e))
  BY <1>7, <1>8
<1>10. p # <<>> /\ Len(p) \in 1..3
  <2>1. \A a, b \in {0, 1} : 1 + a + b \in 1..3
    OBVIOUS
  <2>2. Len(p) \in 1..3
    BY <1>1, <1>7, <2>1
  <2> QED
    BY <2>2
<1>11. \A i \in 1..Len(p) : p[i] \in {"client", one, two}
  BY <1>7
<1>12. Spread(p)
  BY <1>7, <1>10 DEF Spread, Plain, Settings
<1>13. Routed(p, None)
  BY <1>11 DEF Routed, Settings
<1>14. "label2" \notin RequestsOf(p) /\ "saveDraft" \notin RequestsOf(p)
  BY <1>11 DEF RequestsOf, Settings
<1>15. Concluded(p)
  <2>1. Len(p) > 1 => p[Len(p)] \in Settings
    <3> DEFINE front == <<"client">> \o A
    <3>1. CASE B = <<two>>
      <4>1. p = front \o <<two>> /\ front \in Seq({"client", one, two})
        BY <1>4, <1>6, <3>1 DEF p
      <4> HIDE DEF front
      <4>2. (front \o <<two>>)[Len(front \o <<two>>)] = two
        BY <4>1
      <4> QED
        BY <4>1, <4>2
    <3>2. CASE B = <<>> /\ A = <<one>>
      <4>1. p = <<"client">> \o <<one>>
        BY <1>4, <1>6, <3>2 DEF p
      <4>2. (<<"client">> \o <<one>>)[Len(<<"client">> \o <<one>>)] = one
        OBVIOUS
      <4> QED
        BY <4>1, <4>2
    <3>3. CASE B = <<>> /\ A = <<>>
      <4>1. Len(<<>>) = 0
        OBVIOUS
      <4> QED
        BY <1>7, <3>3, <4>1
    <3> QED
      BY <1>5, <3>1, <3>2, <3>3
  <2> QED
    BY <1>7, <1>10, <1>11, <2>1 DEF Concluded, RequestsOf, Settings
<1>16. p # Draft
  <2>1. Len(Draft) = 4
    BY DEF Draft
  <2>2. Len(p) # 4
    BY <1>10
  <2> QED
    BY <2>1, <2>2
<1> QED
  BY <1>9, <1>10, <1>12, <1>13, <1>14, <1>15, <1>16 DEF p, Programs

LEMMA ListedPrograms ==
  ASSUME NEW e
  PROVE /\ \A p \in {Whoami, SessionStatus, ReadAddresses, ReadKeys, ReadLabels, SearchMessages,
                     ListCalendars, ReadDomains, ReadSettings, ReadBody, ListEvents, GetEvent} :
             p \in Programs(e) \ {Draft}
        /\ WriteRequests \subseteq Allowed(e) =>
             \A p \in {CreateAddress, AddDomain, VerifyDomain, SetCatchAll, DisableCatchAll,
                       LabelMessages, MarkMessages, SetAddressStatus(TRUE), SetAddressStatus(FALSE)} :
               p \in Programs(e) \ {Draft}
        /\ WriteRequests \subseteq Allowed(e) => Draft \in Programs(e)
        /\ DangerousRequests \subseteq Allowed(e) =>
             \A p \in {DeleteAddress, RemoveDomain, DeleteMessages} : p \in Programs(e) \ {Draft}
<1> USE DEF Programs, RequestsOf, Routed, Spread, Concluded, Settings, Plain, Allowed, ReadRequests, AllRequests, Draft
<1>1. Whoami \in Programs(e) \ {Draft} /\ SessionStatus \in Programs(e) \ {Draft}
  BY DEF Whoami, SessionStatus
<1>2. /\ ReadAddresses \in Programs(e) \ {Draft} /\ ReadKeys \in Programs(e) \ {Draft} /\ ReadLabels \in Programs(e) \ {Draft}
      /\ SearchMessages \in Programs(e) \ {Draft} /\ ListCalendars \in Programs(e) \ {Draft}
      /\ ReadDomains \in Programs(e) \ {Draft} /\ ReadSettings \in Programs(e) \ {Draft}
  BY DEF ReadAddresses, ReadKeys, ReadLabels, SearchMessages, ListCalendars, ReadDomains, ReadSettings
<1>3. ReadBody \in Programs(e) \ {Draft} /\ ListEvents \in Programs(e) \ {Draft} /\ GetEvent \in Programs(e) \ {Draft}
  BY DEF ReadBody, ListEvents, GetEvent
<1>4. ASSUME WriteRequests \subseteq Allowed(e)
      PROVE /\ CreateAddress \in Programs(e) \ {Draft} /\ AddDomain \in Programs(e) \ {Draft} /\ VerifyDomain \in Programs(e) \ {Draft}
            /\ SetCatchAll \in Programs(e) \ {Draft} /\ DisableCatchAll \in Programs(e) \ {Draft}
            /\ SetAddressStatus(TRUE) \in Programs(e) \ {Draft} /\ SetAddressStatus(FALSE) \in Programs(e) \ {Draft}
  BY <1>4 DEF CreateAddress, AddDomain, VerifyDomain, SetCatchAll, DisableCatchAll, SetAddressStatus, WriteRequests
<1>5. ASSUME WriteRequests \subseteq Allowed(e)
      PROVE Draft \in Programs(e) /\ LabelMessages \in Programs(e) \ {Draft} /\ MarkMessages \in Programs(e) \ {Draft}
  BY <1>5 DEF LabelMessages, MarkMessages, WriteRequests
<1>6. ASSUME DangerousRequests \subseteq Allowed(e)
      PROVE DeleteAddress \in Programs(e) \ {Draft} /\ RemoveDomain \in Programs(e) \ {Draft} /\ DeleteMessages \in Programs(e) \ {Draft}
  BY <1>6 DEF DeleteAddress, RemoveDomain, DeleteMessages, DangerousRequests
<1> HIDE DEF Programs, Allowed, Draft
<1> QED
  BY <1>1, <1>2, <1>3, <1>4, <1>5, <1>6

\* Whatever tool a client invokes, its program is one the gates allow.
LEMMA RegisteredPrograms ==
  ASSUME NEW t \in Registered
  PROVE /\ t[1] \in ToolNames /\ t[2] \in Programs(env)
        /\ t[1] = "session_status" => t[2] = SessionStatus
        /\ t[1] = "whoami" => t[2] = Whoami
        /\ t[2] = Draft => t[1] = "draft"
<1> DEFINE Good(x, p) == x \in ToolNames /\ p \in Programs(env)
                           /\ (x = "session_status" => p = SessionStatus)
                           /\ (x = "whoami" => p = Whoami)
                           /\ (p = Draft => x = "draft")
<1>1. SUFFICES \E x, p : t = <<x, p>> /\ Good(x, p)
  OBVIOUS
<1>2. CASE t \in ReadTools
  <2>1. Good("whoami", Whoami) /\ Good("session_status", SessionStatus)
    BY ListedPrograms DEF ToolNames
  <2>2. ASSUME NEW p \in {ReadAddresses, ReadKeys, ReadLabels, SearchMessages, ListCalendars,
                         ReadDomains, ReadSettings, ReadBody, ListEvents, GetEvent}
        PROVE Good("read", p)
    BY ListedPrograms DEF ToolNames
  <2> HIDE DEF Good
  <2> QED
    BY <1>2, <2>1, <2>2 DEF ReadTools
<1>3. CASE t \in WriteTools /\ env.writes
  <2>1. WriteRequests \subseteq Allowed(env)
    BY <1>3 DEF Allowed
  <2>2. \A p \in Programs(env) \ {Draft} : Good("update", p) /\ Good("set_status", p)
    BY DEF ToolNames
  <2>3. \A g : UpdateAddress(g) \in Programs(env) \ {Draft}
    BY <2>1, GivenProgram DEF UpdateAddress, Settings
  <2>4. \A g : UpdateMailSettings(g) \in Programs(env) \ {Draft}
    BY <2>1, GivenProgram, ListedPrograms DEF UpdateMailSettings, Settings
  <2>5. \A g : UpdateCoreSettings(g) \in Programs(env) \ {Draft}
    BY <2>1, GivenProgram, ListedPrograms DEF UpdateCoreSettings, Settings
  <2>6. \A b \in BOOLEAN : SetAddressStatus(b) \in Programs(env) \ {Draft}
    BY <2>1, ListedPrograms
  <2>7. /\ Good("create_address", CreateAddress) /\ Good("add_domain", AddDomain)
        /\ Good("verify_domain", VerifyDomain) /\ Good("set_catchall", SetCatchAll)
        /\ Good("disable_catchall", DisableCatchAll) /\ Good("draft", Draft)
        /\ Good("label", LabelMessages) /\ Good("mark", MarkMessages)
    BY <2>1, ListedPrograms DEF ToolNames
  <2> HIDE DEF Good
  <2>8. CASE \E g : t = <<"update", UpdateAddress(g)>>
    BY <2>2, <2>3, <2>8
  <2>9. CASE \E g : t = <<"update", UpdateMailSettings(g)>>
    BY <2>2, <2>4, <2>9
  <2>10. CASE \E g : t = <<"update", UpdateCoreSettings(g)>>
    BY <2>2, <2>5, <2>10
  <2>11. CASE \E b \in BOOLEAN : t = <<"set_status", SetAddressStatus(b)>>
    BY <2>2, <2>6, <2>11
  <2>12. CASE t \in {<<"create_address", CreateAddress>>, <<"add_domain", AddDomain>>,
                    <<"verify_domain", VerifyDomain>>, <<"set_catchall", SetCatchAll>>,
                    <<"disable_catchall", DisableCatchAll>>, <<"draft", Draft>>,
                    <<"label", LabelMessages>>, <<"mark", MarkMessages>>}
    BY <2>7, <2>12
  <2> QED
    BY <1>3, <2>8, <2>9, <2>10, <2>11, <2>12 DEF WriteTools
<1>4. CASE t \in DangerousTools /\ env.writes /\ env.dangerous
  <2>1. DangerousRequests \subseteq Allowed(env)
    BY <1>4 DEF Allowed
  <2>2. /\ Good("delete_address", DeleteAddress) /\ Good("remove_domain", RemoveDomain)
        /\ Good("delete_messages", DeleteMessages)
    BY <2>1, ListedPrograms DEF ToolNames
  <2> HIDE DEF Good
  <2> QED
    BY <1>4, <2>2 DEF DangerousTools
<1> QED
  BY <1>2, <1>3, <1>4 DEF Registered

-----------------------------------------------------------------------------
(* One call. *)

LEMMA FlagsFree ==
  ASSUME NEW e, NEW r, CallInv(r, e), NEW F \in SUBSET BOOLEAN
  PROVE CallInv([r EXCEPT !.flags = F], e)
<1> DEFINE q == [r EXCEPT !.flags = F]
<1>1. r \in CallRecords
  BY DEF CallInv
<1>2. /\ q \in CallRecords /\ q.state = r.state /\ q.tool = r.tool /\ q.prog = r.prog
      /\ q.todo = r.todo /\ q.arg = r.arg /\ q.done = r.done
  BY <1>1 DEF CallRecords
<1> HIDE DEF q
<1>3. \A k : Reached(r, k) => Reached(q, k)
  BY <1>2 DEF Reached
<1> QED
  BY <1>2, <1>3 DEF CallInv, q

\* What of a program has been done when its first k requests have.
LEMMA Prefix ==
  ASSUME NEW p \in Seq(AllRequests), Spread(p), NEW k \in 0..Len(p), NEW D,
         D = {p[i] : i \in 1..k} \ Plain
  PROVE /\ Ordered(p, D) /\ D \subseteq RequestsOf(p) /\ D \subseteq AllRequests
        /\ k = Len(p) => D = RequestsOf(p) \ Plain
<1>1. ASSUME NEW i \in 1..Len(p), NEW j \in 1..Len(p), i < j, p[i] \notin Plain, p[j] \in D
      PROVE p[i] \in D
  <2>1. PICK m \in 1..k : p[m] = p[j]
    BY <1>1
  <2>2. CASE i <= k
    BY <1>1, <2>2
  <2>3. CASE i > k
    BY <1>1, <2>1, <2>3 DEF Spread
  <2> QED
    BY <2>2, <2>3
<1> QED
  BY <1>1 DEF Ordered, RequestsOf

LEMMA StatusOrdered == \A D : Ordered(SessionStatus, D)
BY DEF Ordered, SessionStatus, Plain

\* The next request of a call, and what is done with it.
LEMMA NextRequest ==
  ASSUME NEW e, NEW r, CallInv(r, e), r.state = "running", r.tool # "session_status",
         NEW k \in 0..Len(r.prog), Reached(r, k)
  PROVE /\ r.prog \in Seq(AllRequests) /\ Spread(r.prog) /\ k + 1 \in 1..Len(r.prog)
        /\ Head(r.todo) = r.prog[k + 1]
        /\ r.done \cup ({Head(r.todo)} \ Plain) = {r.prog[i] : i \in 1..(k + 1)} \ Plain
<1>1. r.todo \in Seq(AllRequests) /\ r.todo # <<>> /\ r.prog \in Seq(AllRequests)
  BY DEF CallInv, CallRecords
<1>2. Len(r.todo) \in Nat /\ Len(r.todo) # 0 /\ Head(r.todo) = r.todo[1]
  BY <1>1
<1>3. k + 1 \in 1..Len(r.prog) /\ Head(r.todo) = r.prog[k + 1]
  BY <1>1, <1>2 DEF Reached
<1>4. Spread(r.prog)
  <2>1. r.prog # <<>>
    BY <1>1, <1>3
  <2> QED
    BY <2>1 DEF CallInv, Programs
<1>5. 1..(k + 1) = 1..k \cup {k + 1}
  OBVIOUS
<1>6. r.done = {r.prog[i] : i \in 1..k} \ Plain
  BY DEF Reached
<1>7. {r.prog[i] : i \in 1..(k + 1)} = {r.prog[i] : i \in 1..k} \cup {r.prog[k + 1]}
  BY <1>5
<1> QED
  BY <1>1, <1>3, <1>4, <1>6, <1>7

\* A call that ends with an error, having done D.
LEMMA ErrorInv ==
  ASSUME NEW c \in Calls, CallInv(call[c], env), NEW D \in SUBSET AllRequests,
         D \subseteq RequestsOf(call[c].prog), Ordered(call[c].prog, D)
  PROVE CallInv([Ended(c, "error") EXCEPT !.done = D], env)
<1> DEFINE r == call[c]
           q == [Ended(c, "error") EXCEPT !.done = D]
<1>1. r \in CallRecords
  BY DEF CallInv
<1>2. <<>> \in Seq(AllRequests) /\ RequestsOf(<<>>) = {} /\ Len(<<>>) = 0
  BY DEF RequestsOf
<1>3. /\ q \in CallRecords /\ q.state = "error" /\ q.tool = r.tool /\ q.prog = r.prog
      /\ q.todo = <<>> /\ q.arg = None /\ q.done = D
  BY <1>1, <1>2 DEF Ended, CallRecords, States
<1> HIDE DEF q
<1>4. Routed(<<>>, None)
  BY <1>2 DEF Routed
<1> QED
  BY <1>2, <1>3, <1>4 DEF CallInv, q

\* session_status ends, or goes on with the status alone, whatever it did.
LEMMA SessionStatusInv ==
  ASSUME NEW c \in Calls, CallInv(call[c], env), call[c].tool = "session_status",
         NEW D \in SUBSET AllRequests, D \subseteq RequestsOf(call[c].prog)
  PROVE /\ CallInv([Ended(c, "ok") EXCEPT !.done = D], env)
        /\ call[c].state = "running" =>
             CallInv([[call[c] EXCEPT !.todo = <<"status">>] EXCEPT !.done = D], env)
<1> DEFINE r == call[c]
           q == [Ended(c, "ok") EXCEPT !.done = D]
           s == [[r EXCEPT !.todo = <<"status">>] EXCEPT !.done = D]
<1>1. r \in CallRecords /\ r.prog = SessionStatus
  BY DEF CallInv
<1>2. <<>> \in Seq(AllRequests) /\ RequestsOf(<<>>) = {} /\ Len(<<>>) = 0
  BY DEF RequestsOf
<1>3. /\ q \in CallRecords /\ q.state = "ok" /\ q.tool = r.tool /\ q.prog = r.prog
      /\ q.todo = <<>> /\ q.arg = None /\ q.done = D
  BY <1>1, <1>2 DEF Ended, CallRecords, States
<1>4. /\ <<"status">> \in Seq(AllRequests) /\ RequestsOf(<<"status">>) = {"status"}
      /\ Len(<<"status">>) = 1 /\ <<"status">>[1] = "status" /\ <<"status">> # <<>>
  BY DEF RequestsOf, AllRequests, ReadRequests
<1>5. /\ s \in CallRecords /\ s.state = r.state /\ s.tool = r.tool /\ s.prog = r.prog
      /\ s.todo = <<"status">> /\ s.arg = r.arg /\ s.done = D
  BY <1>1, <1>4 DEF CallRecords
<1>6. "status" \in RequestsOf(SessionStatus)
  <2>1. Len(SessionStatus) = 3 /\ SessionStatus[2] = "status"
    BY DEF SessionStatus
  <2> QED
    BY <2>1 DEF RequestsOf
<1>7. Routed(<<>>, None) /\ \A a : Routed(<<"status">>, a)
  BY <1>2, <1>4 DEF Routed
<1>8. Ordered(r.prog, D)
  BY <1>1, StatusOrdered
<1> HIDE DEF q, s
<1>9. CallInv(q, env)
  BY <1>2, <1>3, <1>7, <1>8 DEF CallInv
<1>10. r.state = "running" => CallInv(s, env)
  BY <1>1, <1>4, <1>5, <1>6, <1>7, <1>8 DEF CallInv
<1> QED
  BY <1>9, <1>10 DEF q, s

\* A call whose request succeeded, with the answer it got.
LEMMA AdvancedInv ==
  ASSUME NEW c \in Calls, CallInv(call[c], env), call[c].state = "running",
         Request(c) = "checkOnDomain" => call[c].arg \in OnDomain,
         NEW ans \in [Settings -> Calls \cup {Old}]
  PROVE CallInv([Advanced(c) EXCEPT !.done = @ \cup ({Request(c)} \ Plain), !.answer = ans], env)
<1> DEFINE r == call[c]
           D == r.done \cup ({Request(c)} \ Plain)
           q == [Advanced(c) EXCEPT !.done = @ \cup ({Request(c)} \ Plain), !.answer = ans]
<1>1. r \in CallRecords /\ r.todo \in Seq(AllRequests) /\ r.todo # <<>> /\ r.arg \in Addresses \cup {None}
  BY DEF CallInv, CallRecords
<1>2. Request(c) \in AllRequests /\ Request(c) \in RequestsOf(r.todo) /\ Request(c) = r.todo[1]
  BY <1>1 DEF Request, RequestsOf
<1>3. D \in SUBSET AllRequests /\ D \subseteq RequestsOf(r.prog)
  BY <1>1, <1>2 DEF CallInv, CallRecords
<1>4. CASE Len(r.todo) = 1
  <2>1. <<>> \in Seq(AllRequests) /\ RequestsOf(<<>>) = {} /\ Len(<<>>) = 0 /\ Routed(<<>>, None)
    BY DEF RequestsOf, Routed
  <2>2. q = [[r EXCEPT !.state = "ok", !.todo = <<>>, !.arg = None] EXCEPT
               !.done = @ \cup ({Request(c)} \ Plain), !.answer = ans]
    BY <1>4 DEF Advanced, Ended
  <2>3. /\ q \in CallRecords /\ q.state = "ok" /\ q.tool = r.tool /\ q.prog = r.prog
        /\ q.todo = <<>> /\ q.arg = None /\ q.done = D
    BY ZenonT(60), <1>1, <1>3, <2>1, <2>2 DEF CallRecords, States
  <2> HIDE DEF q, D
  <2>4. CASE r.tool = "session_status"
    <3>1. Ordered(r.prog, D)
      BY <2>4, StatusOrdered DEF CallInv
    <3> QED
      BY <1>3, <2>1, <2>3, <2>4, <3>1 DEF CallInv, q
  <2>5. CASE r.tool # "session_status"
    <3>1. PICK k \in 0..Len(r.prog) : Reached(r, k)
      BY <2>5 DEF CallInv
    <3>2. /\ r.prog \in Seq(AllRequests) /\ Spread(r.prog) /\ k + 1 \in 1..Len(r.prog)
          /\ D = {r.prog[i] : i \in 1..(k + 1)} \ Plain
      BY <2>5, <3>1, NextRequest DEF D, Request
    <3>3. k + 1 = Len(r.prog)
      BY <1>4, <3>1, <3>2 DEF Reached
    <3>4. Ordered(r.prog, D) /\ D = RequestsOf(r.prog) \ Plain
      <4>1. Len(r.prog) \in 0..Len(r.prog) /\ D = {r.prog[i] : i \in 1..Len(r.prog)} \ Plain
        BY <3>2, <3>3
      <4> QED
        BY <3>2, <4>1, Prefix
    <3> QED
      BY <1>3, <2>1, <2>3, <3>4 DEF CallInv, q
  <2> QED
    BY <2>4, <2>5
<1>5. CASE Len(r.todo) # 1
  <2> DEFINE t == Tail(r.todo)
  <2>1. /\ t \in Seq(AllRequests) /\ Len(t) = Len(r.todo) - 1 /\ Len(t) \in Nat /\ t # <<>>
        /\ \A i \in 1..Len(t) : t[i] = r.todo[i + 1]
    <3>1. Len(r.todo) \in Nat /\ Len(r.todo) # 0
      BY <1>1
    <3>2. t \in Seq(AllRequests) /\ Len(t) = Len(r.todo) - 1
      BY <1>1, <3>1
    <3>3. \A i \in 1..Len(t) : t[i] = r.todo[i + 1]
      BY <1>1, <3>1, <3>2
    <3>4. Len(t) \in Nat /\ Len(t) # 0
      BY <1>5, <3>1, <3>2
    <3>5. t # <<>>
      <4>1. Len(<<>>) = 0
        OBVIOUS
      <4> HIDE DEF t
      <4> QED
        BY <3>4, <4>1
    <3> QED
      BY <3>2, <3>3, <3>4, <3>5
  <2>2. q = [[r EXCEPT !.todo = t] EXCEPT !.done = @ \cup ({Request(c)} \ Plain), !.answer = ans]
    BY <1>5 DEF Advanced
  <2> HIDE DEF t
  <2>3. /\ q \in CallRecords /\ q.state = r.state /\ q.tool = r.tool /\ q.prog = r.prog
        /\ q.todo = t /\ q.arg = r.arg /\ q.done = D
    BY <1>1, <1>3, <2>1, <2>2 DEF CallRecords
  <2> HIDE DEF q, D
  <2>4. RequestsOf(t) \subseteq RequestsOf(r.todo)
    <3>1. \A i \in 1..Len(t) : i + 1 \in 1..Len(r.todo)
      BY <1>1, <2>1
    <3> QED
      BY <2>1, <3>1 DEF RequestsOf
  <2>5. Routed(t, r.arg)
    <3> SUFFICES ASSUME NEW i \in 1..Len(t), t[i] = "setCatchAll"
                 PROVE \/ i = 1 /\ r.arg \in OnDomain
                       \/ i > 1 /\ t[i - 1] = "checkOnDomain"
      BY DEF Routed
    <3>1. i + 1 \in 1..Len(r.todo) /\ r.todo[i + 1] = "setCatchAll" /\ i + 1 # 1 /\ (i + 1) - 1 = i
      BY <1>1, <2>1
    <3>2. r.todo[i] = "checkOnDomain"
      BY <3>1 DEF CallInv, Routed
    <3>3. CASE i = 1
      BY <1>2, <3>2, <3>3
    <3>4. CASE i # 1
      <4>1. i - 1 \in 1..Len(t) /\ (i - 1) + 1 = i
        BY <2>1, <3>4
      <4> QED
        BY <2>1, <3>2, <4>1
    <3> QED
      BY <3>3, <3>4
  <2>6. CASE r.tool = "session_status"
    <3>1. Ordered(r.prog, D)
      BY <2>6, StatusOrdered DEF CallInv
    <3> QED
      BY <1>3, <2>1, <2>3, <2>4, <2>5, <2>6, <3>1 DEF CallInv, q
  <2>7. CASE r.tool # "session_status"
    <3>1. PICK k \in 0..Len(r.prog) : Reached(r, k)
      BY <2>7 DEF CallInv
    <3>2. /\ r.prog \in Seq(AllRequests) /\ Spread(r.prog) /\ k + 1 \in 1..Len(r.prog)
          /\ D = {r.prog[i] : i \in 1..(k + 1)} \ Plain
      BY <2>7, <3>1, NextRequest DEF D, Request
    <3>3. Ordered(r.prog, D)
      BY <3>2, Prefix
    <3>4. Len(t) + (k + 1) = Len(r.prog) /\ \A i \in 1..Len(t) : t[i] = r.prog[(k + 1) + i]
      <4>1. Len(r.todo) \in Nat /\ Len(r.prog) \in Nat /\ k \in Nat /\ Len(r.todo) + k = Len(r.prog)
        BY <1>1, <3>1, <3>2 DEF Reached
      <4>2. Len(t) + (k + 1) = Len(r.prog)
        <5> DEFINE a == Len(r.todo)
                   n == Len(r.prog)
        <5>1. a \in Nat /\ n \in Nat /\ k \in Nat /\ a + k = n
          BY <4>1
        <5>2. Len(t) = a - 1
          BY <2>1
        <5> HIDE DEF a, n
        <5>3. (a - 1) + (k + 1) = n
          BY <5>1
        <5> QED
          BY <5>2, <5>3 DEF a, n
      <4>3. \A i \in 1..Len(t) : i + 1 \in 1..Len(r.todo) /\ k + (i + 1) = (k + 1) + i
        BY <2>1, <4>1
      <4>4. \A i \in 1..Len(t) : t[i] = r.prog[k + (i + 1)]
        BY <2>1, <3>1, <4>3 DEF Reached
      <4> QED
        BY <4>2, <4>3, <4>4
    <3>5. Reached(q, k + 1)
      BY <2>3, <3>2, <3>4 DEF Reached
    <3>6. k + 1 \in 0..Len(q.prog)
      BY <2>3, <3>2
    <3> QED
      BY <1>3, <2>1, <2>3, <2>4, <2>5, <2>7, <3>3, <3>5, <3>6 DEF CallInv, q
  <2> QED
    BY <2>6, <2>7
<1> QED
  BY <1>4, <1>5

-----------------------------------------------------------------------------
(* The account. *)

\* Nothing of the account is destroyed when it becomes a.
Spared(a) ==
  /\ account.addrs \subseteq a.addrs /\ account.messages \subseteq a.messages
  /\ account.domain # "absent" => a.domain # "absent"

\* What a request leaves of a good account is a good account.
LEMMA AfterOK ==
  ASSUME AccountOK(account), NEW c \in Calls, NEW r \in AllRequests, Exists(c, r),
         r = "setCatchAll" => call[c].arg \in OnDomain,
         r = "saveDraft" => call[c].arg \in Addresses,
         NEW new \in After(c, r)
  PROVE AccountOK(new)
<1>1. CASE r \in Settings
  <2>1. new = [account EXCEPT !.set[r] = c]
    BY <1>1 DEF After, Settings, Batches
  <2> QED
    BY <1>1, <2>1, ToolsAssumption DEF AccountOK, Accounts
<1>2. CASE r = "createAddress"
  <2>1. \E a \in OnDomain \ account.addrs : new = [account EXCEPT !.addrs = @ \cup {a}, !.enabled = @ \cup {a}]
    BY <1>2 DEF After, Settings, Batches
  <2>2. PICK a \in OnDomain : new = [account EXCEPT !.addrs = @ \cup {a}, !.enabled = @ \cup {a}]
    BY <2>1
  <2>3. a \in Addresses
    BY ToolsAssumption
  <2>4. new \in Accounts
    BY <2>2, <2>3 DEF AccountOK, Accounts
  <2>5. new.enabled \subseteq new.addrs /\ new.catchAll = account.catchAll
    BY <2>2 DEF AccountOK, Accounts
  <2> QED
    BY <2>4, <2>5 DEF AccountOK
<1>3. CASE r = "enableAddress"
  <2>1. new = [account EXCEPT !.enabled = @ \cup {call[c].arg}]
    BY <1>3 DEF After, Settings, Batches
  <2> QED
    BY <1>3, <2>1, ToolsAssumption DEF AccountOK, Accounts, Exists
<1>4. CASE r = "disableAddress"
  <2>1. new = [account EXCEPT !.enabled = @ \ {call[c].arg}]
    BY <1>4 DEF After, Settings, Batches
  <2> QED
    BY <1>4, <2>1, ToolsAssumption DEF AccountOK, Accounts
<1>5. CASE r = "deleteAddress"
  <2>1. new = [account EXCEPT !.addrs = @ \ {call[c].arg}, !.enabled = @ \ {call[c].arg}]
    BY <1>5 DEF After, Settings, Batches
  <2> QED
    BY <1>5, <2>1, ToolsAssumption DEF AccountOK, Accounts
<1>6. CASE r = "addDomain"
  <2>1. new = [account EXCEPT !.domain = "added"]
    BY <1>6 DEF After, Settings, Batches
  <2> QED
    BY <1>6, <2>1, ToolsAssumption DEF AccountOK, Accounts
<1>7. CASE r = "verifyDomain"
  <2>1. \E d \in {"added", "verified"} : new = [account EXCEPT !.domain = d]
    BY <1>7 DEF After, Settings, Batches
  <2> QED
    BY <1>7, <2>1, ToolsAssumption DEF AccountOK, Accounts
<1>8. CASE r = "removeDomain"
  <2>1. new = [account EXCEPT !.domain = "absent", !.catchAll = None, !.addrs = @ \ OnDomain, !.enabled = @ \ OnDomain]
    BY <1>8 DEF After, Settings, Batches
  <2> QED
    BY <1>8, <2>1, ToolsAssumption DEF AccountOK, Accounts
<1>9. CASE r = "setCatchAll"
  <2>1. new = [account EXCEPT !.catchAll = call[c].arg]
    BY <1>9 DEF After, Settings, Batches
  <2> QED
    BY <1>9, <2>1, ToolsAssumption DEF AccountOK, Accounts
<1>10. CASE r = "clearCatchAll"
  <2>1. new = [account EXCEPT !.catchAll = None]
    BY <1>10 DEF After, Settings, Batches
  <2> QED
    BY <1>10, <2>1, ToolsAssumption DEF AccountOK, Accounts
<1>11. CASE r = "saveDraft"
  <2>1. new = [account EXCEPT !.drafts = @ \cup {call[c].arg}]
    BY <1>11 DEF After, Settings, Batches
  <2> QED
    BY <1>11, <2>1, ToolsAssumption DEF AccountOK, Accounts
<1>12. CASE r \in {"label1", "label2"}
  <2>1. \E b \in Batches : new = [account EXCEPT !.labelled = @ \cup {b}]
    BY <1>12 DEF After, Settings, Batches
  <2> QED
    BY <1>12, <2>1, ToolsAssumption DEF AccountOK, Accounts
<1>13. CASE r \in {"mark1", "mark2"}
  <2>1. \E b \in Batches : new = [account EXCEPT !.read = @ \cup {b}]
    BY <1>13 DEF After, Settings, Batches
  <2> QED
    BY <1>13, <2>1, ToolsAssumption DEF AccountOK, Accounts
<1>14. CASE r = "deleteMessages"
  <2>1. new = [account EXCEPT !.messages = {}]
    BY <1>14 DEF After, Settings, Batches
  <2> QED
    BY <1>14, <2>1, ToolsAssumption DEF AccountOK, Accounts
<1>15. CASE r \in ReadRequests \cup {"checkOnDomain", "resolveSender"}
  BY <1>15 DEF After, ReadRequests, Settings
<1> QED
  BY <1>1, <1>2, <1>3, <1>4, <1>5, <1>6, <1>7, <1>8, <1>9, <1>10, <1>11, <1>12, <1>13, <1>14, <1>15 DEF AllRequests, WriteRequests, DangerousRequests, Settings

\* Reading changes nothing, and only dangerous requests destroy anything.
LEMMA AfterGates ==
  ASSUME AccountOK(account), NEW c \in Calls, NEW r \in AllRequests, NEW new \in After(c, r)
  PROVE /\ r \in ReadRequests => new = account
        /\ r \notin DangerousRequests => Spared(new)
<1>1. ASSUME r \in Settings
      PROVE Spared(new)
  <2>1. new = [account EXCEPT !.set[r] = c]
    BY <1>1 DEF After, Settings, Batches
  <2> QED
    BY <2>1 DEF AccountOK, Accounts, Spared
<1>2. ASSUME r = "createAddress"
      PROVE Spared(new)
  <2>1. \E a \in OnDomain \ account.addrs : new = [account EXCEPT !.addrs = @ \cup {a}, !.enabled = @ \cup {a}]
    BY <1>2 DEF After, Settings, Batches
  <2> QED
    BY <2>1 DEF AccountOK, Accounts, Spared
<1>3. ASSUME r = "enableAddress"
      PROVE Spared(new)
  <2>1. new = [account EXCEPT !.enabled = @ \cup {call[c].arg}]
    BY <1>3 DEF After, Settings, Batches
  <2> QED
    BY <2>1 DEF AccountOK, Accounts, Spared
<1>4. ASSUME r = "disableAddress"
      PROVE Spared(new)
  <2>1. new = [account EXCEPT !.enabled = @ \ {call[c].arg}]
    BY <1>4 DEF After, Settings, Batches
  <2> QED
    BY <2>1 DEF AccountOK, Accounts, Spared
<1>5. ASSUME r = "addDomain"
      PROVE Spared(new)
  <2>1. new = [account EXCEPT !.domain = "added"]
    BY <1>5 DEF After, Settings, Batches
  <2> QED
    BY <2>1 DEF AccountOK, Accounts, Spared
<1>6. ASSUME r = "verifyDomain"
      PROVE Spared(new)
  <2>1. \E d \in {"added", "verified"} : new = [account EXCEPT !.domain = d]
    BY <1>6 DEF After, Settings, Batches
  <2> QED
    BY <2>1 DEF AccountOK, Accounts, Spared
<1>7. ASSUME r = "setCatchAll"
      PROVE Spared(new)
  <2>1. new = [account EXCEPT !.catchAll = call[c].arg]
    BY <1>7 DEF After, Settings, Batches
  <2> QED
    BY <2>1 DEF AccountOK, Accounts, Spared
<1>8. ASSUME r = "clearCatchAll"
      PROVE Spared(new)
  <2>1. new = [account EXCEPT !.catchAll = None]
    BY <1>8 DEF After, Settings, Batches
  <2> QED
    BY <2>1 DEF AccountOK, Accounts, Spared
<1>9. ASSUME r = "saveDraft"
      PROVE Spared(new)
  <2>1. new = [account EXCEPT !.drafts = @ \cup {call[c].arg}]
    BY <1>9 DEF After, Settings, Batches
  <2> QED
    BY <2>1 DEF AccountOK, Accounts, Spared
<1>10. ASSUME r \in {"label1", "label2"}
      PROVE Spared(new)
  <2>1. \E b \in Batches : new = [account EXCEPT !.labelled = @ \cup {b}]
    BY <1>10 DEF After, Settings, Batches
  <2> QED
    BY <2>1 DEF AccountOK, Accounts, Spared
<1>11. ASSUME r \in {"mark1", "mark2"}
      PROVE Spared(new)
  <2>1. \E b \in Batches : new = [account EXCEPT !.read = @ \cup {b}]
    BY <1>11 DEF After, Settings, Batches
  <2> QED
    BY <2>1 DEF AccountOK, Accounts, Spared
<1>12. ASSUME r \in ReadRequests \cup {"checkOnDomain", "resolveSender"}
      PROVE new = account /\ Spared(new)
  <2>1. new = account
    BY <1>12 DEF After, ReadRequests, Settings
  <2> QED
    BY <2>1 DEF Spared
<1> QED
  BY <1>1, <1>2, <1>3, <1>4, <1>5, <1>6, <1>7, <1>8, <1>9, <1>10, <1>11, <1>12 DEF AllRequests, WriteRequests, Settings

-----------------------------------------------------------------------------
(* The steps. *)

LEMMA Initially == Init => IInv
<1> SUFFICES ASSUME Init PROVE IInv
  OBVIOUS
<1>1. ServerTypeOK /\ ServeInv
  BY DEF Init, ServerInit, ServerTypeOK, ServeInv
<1>2. AccountOK(account)
  BY ToolsAssumption DEF Init, AccountOK, Accounts, Settings, Batches
<1>3. <<>> \in Seq(AllRequests) /\ RequestsOf(<<>>) = {} /\ Len(<<>>) = 0
  BY DEF RequestsOf
<1>4. /\ NewCall \in CallRecords /\ NewCall.state = "new" /\ NewCall.tool = "" /\ NewCall.prog = <<>>
      /\ NewCall.todo = <<>> /\ NewCall.done = {}
  BY <1>3 DEF NewCall, CallRecords, States, ToolNames
<1>5. Routed(<<>>, NewCall.arg) /\ Ordered(<<>>, {})
  BY <1>3 DEF Routed, Ordered
<1>6. CallInv(NewCall, env)
  BY <1>3, <1>4, <1>5 DEF CallInv
<1>7. call \in [Calls -> CallRecords] /\ \A c \in Calls : CallInv(call[c], env)
  BY <1>4, <1>6 DEF Init
<1>8. degraded \in BOOLEAN
  BY DEF Init
<1>9. edits \in 0..MaxEdits /\ rotations \in 0..MaxRotations
  BY ToolsAssumption DEF Init
<1> QED
  BY <1>1, <1>2, <1>7, <1>8, <1>9 DEF IInv

LEMMA ServerSteps ==
  ASSUME IInv, ServerNext, UNCHANGED <<account, degraded, call, edits, rotations>>
  PROVE IInv'
<1> USE DEF IInv, ServerTypeOK, ServeInv
<1>1. env' = env /\ ServerTypeOK' /\ ServeInv'
  <2>1. CASE Boot
    BY <2>1 DEF Boot, TransportConfig
  <2>2. CASE BootFails
    BY <2>2 DEF BootFails, Exits
  <2>3. CASE StdioEnds
    BY <2>3 DEF StdioEnds, Exits
  <2>4. CASE ServeBreaks
    BY <2>4 DEF ServeBreaks
  <2>5. CASE SelectError
    BY <2>5 DEF SelectError, Exits
  <2>6. CASE SelectDone
    BY <2>6 DEF SelectDone
  <2>7. CASE ShutdownDone
    BY <2>7 DEF ShutdownDone, Exits
  <2>8. CASE ShutdownTimesOut
    BY <2>8 DEF ShutdownTimesOut, Exits
  <2>9. CASE Signal
    BY <2>9 DEF Signal
  <2>10. CASE ForceExit
    BY <2>10 DEF ForceExit, Exits
  <2> QED
    BY <2>1, <2>2, <2>3, <2>4, <2>5, <2>6, <2>7, <2>8, <2>9, <2>10 DEF ServerNext
<1> HIDE DEF ServerTypeOK, ServeInv
<1> QED
  BY <1>1

\* What the steps of a call need to leave behind.
LEMMA CallChanges ==
  ASSUME IInv, UNCHANGED server, AccountOK(account'), degraded' \in BOOLEAN,
         edits' \in 0..MaxEdits, rotations' \in 0..MaxRotations,
         NEW next, call' = [o \in Calls |-> next[o]], \A o \in Calls : CallInv(next[o], env)
  PROVE IInv'
<1>1. env' = env /\ ServerTypeOK' /\ ServeInv'
  BY DEF server, IInv, ServerTypeOK, ServeInv
<1>2. \A o \in Calls : call'[o] = next[o] /\ next[o] \in CallRecords
  BY DEF CallInv
<1>3. call' \in [Calls -> CallRecords]
  BY <1>2
<1> QED
  BY <1>1, <1>2, <1>3 DEF IInv

LEMMA RotationKeeps ==
  ASSUME IInv, NEW c \in Calls, NEW r, Rotation(c, r), CallInv(r, env),
         UNCHANGED <<server, edits>>, AccountOK(account')
  PROVE IInv'
<1>1. PICK d \in BOOLEAN :
        /\ d # degraded => rotations < MaxRotations
        /\ degraded' = d
        /\ rotations' = rotations + (IF d # degraded THEN 1 ELSE 0)
        /\ call' = [o \in Calls |->
             LET n == IF o = c THEN r ELSE call[o]
             IN [n EXCEPT !.flags =
                  IF o = c /\ n.tool = "whoami" /\ Request(c) = "getUser" THEN {d}
                  ELSE IF @ = {} \/ n.state # "running" THEN @ ELSE @ \cup {d}]]
  BY DEF Rotation
<1>2. rotations' \in 0..MaxRotations
  BY <1>1, ToolsAssumption DEF IInv
<1> DEFINE n(o) == IF o = c THEN r ELSE call[o]
           F(o) == IF o = c /\ n(o).tool = "whoami" /\ Request(c) = "getUser" THEN {d}
                   ELSE IF n(o).flags = {} \/ n(o).state # "running" THEN n(o).flags
                        ELSE n(o).flags \cup {d}
           next == [o \in Calls |-> [n(o) EXCEPT !.flags = F(o)]]
<1>3. ASSUME NEW o \in Calls
      PROVE CallInv(next[o], env)
  <2>1. CallInv(n(o), env)
    BY DEF IInv
  <2>2. n(o).flags \in SUBSET BOOLEAN
    BY <2>1 DEF CallInv, CallRecords
  <2>3. F(o) \in SUBSET BOOLEAN
    BY <1>1, <2>2
  <2> HIDE DEF n, F
  <2> QED
    BY <2>1, <2>3, FlagsFree
<1>4. call' = [o \in Calls |-> next[o]]
  BY <1>1
<1> HIDE DEF next
<1>5. edits' \in 0..MaxEdits /\ UNCHANGED server
  BY DEF IInv
<1> QED
  BY <1>1, <1>2, <1>3, <1>4, <1>5, CallChanges

LEMMA OneCallChanges ==
  ASSUME IInv, NEW c \in Calls, NEW r, call' = [call EXCEPT ![c] = r], CallInv(r, env),
         UNCHANGED <<server, edits, degraded, rotations>>, AccountOK(account')
  PROVE IInv'
<1> DEFINE next == [o \in Calls |-> IF o = c THEN r ELSE call[o]]
<1>1. call' = [o \in Calls |-> next[o]]
  BY DEF IInv
<1>2. \A o \in Calls : CallInv(next[o], env)
  BY DEF IInv
<1> HIDE DEF next
<1>3. UNCHANGED server /\ degraded' \in BOOLEAN /\ edits' \in 0..MaxEdits /\ rotations' \in 0..MaxRotations
  BY DEF IInv
<1> QED
  BY <1>1, <1>2, <1>3, CallChanges

\* The record with which a call of tool x and program p starts.
LEMMA StartInv ==
  ASSUME NEW x \in ToolNames, NEW p \in Programs(env), NEW a \in Addresses \cup {None},
         x = "session_status" => p = SessionStatus,
         "saveDraft" \in RequestsOf(p) => a \in Addresses
  PROVE CallInv([NewCall EXCEPT !.state = "running", !.tool = x, !.prog = p,
                                !.todo = p, !.arg = a], env)
<1> DEFINE r == [NewCall EXCEPT !.state = "running", !.tool = x, !.prog = p,
                                !.todo = p, !.arg = a]
<1>1. p \in Seq(AllRequests) /\ p # <<>> /\ Routed(p, None)
  BY DEF Programs
<1>2. /\ r \in CallRecords /\ r.state = "running" /\ r.tool = x /\ r.prog = p
      /\ r.todo = p /\ r.arg = a /\ r.done = {}
  BY <1>1 DEF NewCall, CallRecords, States
<1> HIDE DEF r
<1>3. Routed(p, a)
  <2>1. SUFFICES ASSUME NEW i \in 1..Len(p), p[i] = "setCatchAll"
                 PROVE i > 1 /\ p[i - 1] = "checkOnDomain"
    BY DEF Routed
  <2>2. \/ i = 1 /\ None \in OnDomain
        \/ i > 1 /\ p[i - 1] = "checkOnDomain"
    BY <1>1, <2>1 DEF Routed
  <2> QED
    BY <2>2, ToolsAssumption
<1>4. Ordered(p, {})
  BY DEF Ordered
<1>5. 0 \in 0..Len(p) /\ Reached(r, 0)
  BY <1>1, <1>2 DEF Reached
<1> QED
  BY <1>1, <1>2, <1>3, <1>4, <1>5 DEF CallInv, r

LEMMA InvokeStep == ASSUME IInv, NEW c \in Calls, Invoke(c) PROVE IInv'
<1> DEFINE refused == [NewCall EXCEPT !.state = "unauthorized"]
<1>1. PICK t \in Registered, a \in Addresses \cup {None}, header \in {"none", "other", "token"} :
        /\ t[1] \in TakesAddress <=> a # None
        /\ call' = [call EXCEPT ![c] =
             IF Accepted(header)
             THEN [NewCall EXCEPT !.state = "running", !.tool = t[1], !.prog = t[2],
                                  !.todo = t[2], !.arg = a]
             ELSE refused]
  BY DEF Invoke
<1>2. CallInv(refused, env)
  <2>1. <<>> \in Seq(AllRequests) /\ RequestsOf(<<>>) = {} /\ Len(<<>>) = 0
    BY DEF RequestsOf
  <2>2. /\ refused \in CallRecords /\ refused.state = "unauthorized" /\ refused.tool = ""
        /\ refused.prog = <<>> /\ refused.todo = <<>> /\ refused.done = {}
    BY <2>1 DEF NewCall, CallRecords, States, ToolNames
  <2>3. Routed(<<>>, refused.arg) /\ Ordered(<<>>, {})
    BY <2>1 DEF Routed, Ordered
  <2> HIDE DEF refused
  <2> QED
    BY <2>1, <2>2, <2>3 DEF CallInv
<1>3. CallInv([NewCall EXCEPT !.state = "running", !.tool = t[1], !.prog = t[2],
                              !.todo = t[2], !.arg = a], env)
  <2>1. /\ t[1] \in ToolNames /\ t[2] \in Programs(env)
        /\ t[1] = "session_status" => t[2] = SessionStatus
        /\ t[2] = Draft => t[1] = "draft"
    BY RegisteredPrograms
  <2>2. "saveDraft" \in RequestsOf(t[2]) => a \in Addresses
    <3>1. "saveDraft" \in RequestsOf(t[2]) => t[1] = "draft"
      BY <2>1 DEF Programs
    <3> QED
      BY <1>1, <3>1 DEF TakesAddress
  <2> QED
    BY <2>1, <2>2, StartInv
<1>4. UNCHANGED <<server, edits, degraded, rotations>> /\ AccountOK(account')
  BY DEF Invoke, IInv
<1> HIDE DEF refused
<1> QED
  BY <1>1, <1>2, <1>3, <1>4, OneCallChanges

LEMMA InvalidStep == ASSUME IInv, NEW c \in Calls, Invalid(c) PROVE IInv'
<1>1. CallInv(call[c], env)
  BY DEF IInv
<1>2. [Ended(c, "error") EXCEPT !.done = call[c].done] = Ended(c, "error")
  BY <1>1 DEF Ended, CallInv, CallRecords
<1>3. /\ call[c].done \in SUBSET AllRequests /\ call[c].done \subseteq RequestsOf(call[c].prog)
      /\ Ordered(call[c].prog, call[c].done)
  BY <1>1 DEF CallInv, CallRecords
<1>4. CallInv(Ended(c, "error"), env)
  BY <1>1, <1>2, <1>3, ErrorInv
<1>5. UNCHANGED <<server, edits, degraded, rotations>> /\ AccountOK(account')
  BY DEF Invalid, IInv
<1> QED
  BY <1>4, <1>5, OneCallChanges DEF Invalid

LEMMA EditStep == ASSUME IInv, Edit PROVE IInv'
<1>1. AccountOK(account')
  <2>1. AccountOK(account)
    BY DEF IInv
  <2>2. PICK a \in account.addrs : account' = [account EXCEPT !.addrs = @ \ {a}, !.enabled = @ \ {a}]
    BY DEF Edit
  <2> QED
    BY <2>1, <2>2 DEF AccountOK, Accounts
<1>2. edits' \in 0..MaxEdits
  <2>1. edits \in 0..MaxEdits /\ edits < MaxEdits /\ edits' = edits + 1 /\ MaxEdits \in Nat
    BY ToolsAssumption DEF Edit, IInv
  <2> QED
    BY <2>1
<1>3. UNCHANGED server /\ degraded' \in BOOLEAN /\ rotations' \in 0..MaxRotations
  BY DEF Edit, IInv
<1>4. call' = [o \in Calls |-> call[o]] /\ \A o \in Calls : CallInv(call[o], env)
  BY DEF Edit, IInv
<1> QED
  BY <1>1, <1>2, <1>3, <1>4, CallChanges

\* What is known of the request a running call makes.
LEMMA RequestFacts ==
  ASSUME IInv, NEW c \in Calls, Running(c)
  PROVE /\ CallInv(call[c], env) /\ call[c].state = "running" /\ call[c].todo # <<>>
        /\ call[c].todo \in Seq(AllRequests) /\ Request(c) = call[c].todo[1]
        /\ Request(c) \in RequestsOf(call[c].todo)
        /\ Request(c) \in RequestsOf(call[c].prog)
        /\ Request(c) \in AllRequests /\ Request(c) \in Allowed(env)
        /\ Request(c) = "setCatchAll" => call[c].arg \in OnDomain
        /\ Request(c) = "saveDraft" => call[c].arg \in Addresses
<1>1. CallInv(call[c], env) /\ call[c].state = "running" /\ call[c].todo # <<>>
  BY DEF IInv, Running
<1>2. call[c].todo \in Seq(AllRequests) /\ call[c].prog \in Seq(AllRequests)
  BY <1>1 DEF CallInv, CallRecords
<1>3. Request(c) = call[c].todo[1] /\ 1 \in 1..Len(call[c].todo)
  BY <1>1, <1>2 DEF Request
<1>4. Request(c) \in RequestsOf(call[c].todo)
  BY <1>3 DEF RequestsOf
<1>5. Request(c) \in RequestsOf(call[c].prog)
  BY <1>1, <1>4 DEF CallInv
<1>6. Request(c) \in AllRequests
  BY <1>2, <1>3
<1>7. Request(c) \in Allowed(env)
  <2>1. call[c].prog # <<>>
    BY <1>2, <1>5 DEF RequestsOf
  <2>2. call[c].prog \in Seq(Allowed(env))
    BY <1>1, <2>1 DEF CallInv, Programs
  <2> QED
    BY <1>5, <2>2 DEF RequestsOf
<1>8. Request(c) = "setCatchAll" => call[c].arg \in OnDomain
  <2>1. Routed(call[c].todo, call[c].arg)
    BY <1>1 DEF CallInv
  <2>2. 1 \in 1..Len(call[c].todo) /\ ~(1 > 1)
    BY <1>3
  <2> QED
    BY <1>3, <2>1, <2>2 DEF Routed
<1>9. Request(c) = "saveDraft" => call[c].arg \in Addresses
  BY <1>1, <1>4 DEF CallInv
<1> QED
  BY <1>1, <1>2, <1>3, <1>4, <1>5, <1>6, <1>7, <1>8, <1>9

LEMMA SucceedsStep == ASSUME IInv, NEW c \in Calls, Succeeds(c) PROVE IInv'
<1> DEFINE next == [Advanced(c) EXCEPT !.done = @ \cup ({Request(c)} \ Plain),
                                      !.answer = Answer(c, Request(c))]
<1>1. Running(c) /\ Possible(c, Request(c)) /\ account' \in After(c, Request(c))
  BY DEF Succeeds
<1>2. AccountOK(account')
  BY <1>1, RequestFacts, AfterOK DEF IInv, Possible
<1>3. Answer(c, Request(c)) \in [Settings -> Calls \cup {Old}]
  <2>1. account'.set \in [Settings -> Calls \cup {Old}]
    BY <1>2 DEF AccountOK, Accounts
  <2>2. call[c].answer \in [Settings -> Calls \cup {Old}]
    BY <1>1, RequestFacts DEF CallInv, CallRecords
  <2> QED
    BY <2>1, <2>2 DEF Answer
<1>4. Request(c) = "checkOnDomain" => call[c].arg \in OnDomain
  BY <1>1 DEF Possible
<1>5. CallInv(next, env)
  BY <1>1, <1>3, <1>4, RequestFacts, AdvancedInv
<1>6. Rotation(c, next) /\ UNCHANGED <<server, edits>>
  BY DEF Succeeds
<1> HIDE DEF next
<1> QED
  BY <1>2, <1>5, <1>6, RotationKeeps

LEMMA SaidFree ==
  ASSUME NEW e, NEW r, CallInv(r, e), NEW b \in BOOLEAN
  PROVE CallInv([r EXCEPT !.said = b], e)
<1> DEFINE q == [r EXCEPT !.said = b]
<1>1. r \in CallRecords
  BY DEF CallInv
<1>2. /\ q \in CallRecords /\ q.state = r.state /\ q.tool = r.tool /\ q.prog = r.prog
      /\ q.todo = r.todo /\ q.arg = r.arg /\ q.done = r.done
  BY <1>1 DEF CallRecords
<1> HIDE DEF q
<1>3. \A k : Reached(r, k) => Reached(q, k)
  BY <1>2 DEF Reached
<1> QED
  BY <1>2, <1>3 DEF CallInv, q

LEMMA ReadsStatusStep == ASSUME IInv, NEW c \in Calls, ReadsStatus(c) PROVE IInv'
<1> DEFINE next == [Advanced(c) EXCEPT !.said = degraded]
<1>1. Running(c) /\ Request(c) = "status"
  BY DEF ReadsStatus
<1>2. CallInv(call[c], env) /\ call[c].state = "running" /\ call[c] \in CallRecords
      /\ call[c].answer \in [Settings -> Calls \cup {Old}]
  BY <1>1, RequestFacts DEF CallInv, CallRecords
<1>3. CallInv([Advanced(c) EXCEPT !.done = @ \cup ({Request(c)} \ Plain),
                                 !.answer = call[c].answer], env)
  BY <1>1, <1>2, AdvancedInv
<1>4. {Request(c)} \ Plain = {}
  BY <1>1 DEF Plain
<1>5. [Advanced(c) EXCEPT !.done = @ \cup ({Request(c)} \ Plain), !.answer = call[c].answer] = Advanced(c)
  BY <1>2, <1>4 DEF Advanced, Ended, CallRecords
<1>6. CallInv(next, env)
  BY <1>3, <1>5, SaidFree DEF IInv
<1>7. call' = [call EXCEPT ![c] = next] /\ UNCHANGED <<server, account, degraded, edits, rotations>>
  BY DEF ReadsStatus
<1>8. UNCHANGED <<server, edits, degraded, rotations>> /\ AccountOK(account')
  BY <1>7 DEF IInv
<1> HIDE DEF next
<1> QED
  BY <1>6, <1>7, <1>8, OneCallChanges

\* A call after the error of its request, having done D.
LEMMA AfterErrorInv ==
  ASSUME NEW c \in Calls, CallInv(call[c], env), call[c].state = "running",
         NEW D \in SUBSET AllRequests, D \subseteq RequestsOf(call[c].prog),
         call[c].tool # "session_status" => Ordered(call[c].prog, D)
  PROVE CallInv([AfterError(c) EXCEPT !.done = D], env)
<1>1. CASE call[c].tool # "session_status"
  BY <1>1, ErrorInv DEF AfterError
<1>2. CASE call[c].tool = "session_status" /\ Request(c) = "client"
  BY <1>2, SessionStatusInv DEF AfterError
<1>3. CASE call[c].tool = "session_status" /\ Request(c) # "client"
  BY <1>3, SessionStatusInv DEF AfterError
<1> QED
  BY <1>1, <1>2, <1>3

LEMMA DoneKept ==
  ASSUME NEW c \in Calls, call[c] \in CallRecords
  PROVE /\ AfterError(c).done = call[c].done
        /\ \A D : [AfterError(c) EXCEPT !.done = @ \cup D] = [AfterError(c) EXCEPT !.done = call[c].done \cup D]
        /\ \A D : [AfterError(c) EXCEPT !.done = @ \ D] = [AfterError(c) EXCEPT !.done = call[c].done \ D]
<1>1. AfterError(c).done = call[c].done
  BY DEF AfterError, Ended, CallRecords
<1> QED
  BY <1>1

LEMMA RefusedStep == ASSUME IInv, NEW c \in Calls, Refused(c) PROVE IInv'
<1>0. PICK X \in Undone(c) :
         /\ account' \in
              CASE Request(c) = "label2" ->
                     {IF X = {} THEN account ELSE [account EXCEPT !.labelled = @ \ {1}]}
                [] Request(c) = "deleteMessages" ->
                     {[account EXCEPT !.messages = @ \ B] : B \in SUBSET Batches}
                [] OTHER -> {account}
         /\ Rotation(c, [AfterError(c) EXCEPT !.done = @ \ X])
  BY DEF Refused
<1> DEFINE D == call[c].done \ X
           next == [AfterError(c) EXCEPT !.done = D]
<1>1. Running(c) /\ AccountOK(account)
  BY DEF Refused, IInv
<1>2. CallInv(call[c], env) /\ call[c].state = "running" /\ call[c] \in CallRecords
      /\ Request(c) \in RequestsOf(call[c].prog)
  BY <1>1, RequestFacts DEF CallInv
<1>3. AccountOK(account')
  <2>1. CASE Request(c) = "label2"
    <3>1. account' \in {account, [account EXCEPT !.labelled = @ \ {1}]}
      BY <1>0, <2>1
    <3> QED
      BY <1>1, <3>1 DEF AccountOK, Accounts
  <2>2. CASE Request(c) = "deleteMessages"
    <3>1. PICK B \in SUBSET Batches : account' = [account EXCEPT !.messages = @ \ B]
      BY <1>0, <2>2
    <3> QED
      BY <1>1, <3>1 DEF AccountOK, Accounts
  <2>3. CASE Request(c) \notin {"label2", "deleteMessages"}
    BY <1>0, <1>1, <2>3
  <2> QED
    BY <2>1, <2>2, <2>3
<1>4. Ordered(call[c].prog, D)
  <2>1. CASE X = {}
    <3>1. D = call[c].done
      BY <2>1
    <3> QED
      BY <1>2, <3>1 DEF CallInv
  <2>2. CASE Request(c) = "label2" /\ X = {"label1"}
    <3>1. call[c].prog # <<>>
      BY <1>2 DEF RequestsOf
    <3>2. call[c].prog = LabelMessages
      BY <1>2, <2>2, <3>1 DEF CallInv, Programs
    <3>3. call[c].tool # "session_status"
      BY <1>2, <3>2 DEF CallInv, SessionStatus, LabelMessages
    <3>4. PICK k \in 0..Len(call[c].prog) : Reached(call[c], k)
      BY <1>2, <3>3 DEF CallInv
    <3>5. k + 1 \in 1..Len(call[c].prog) /\ Request(c) = call[c].prog[k + 1]
      BY <1>2, <3>3, <3>4, NextRequest DEF Request
    <3>6. k = 2
      BY <2>2, <3>2, <3>5 DEF LabelMessages
    <3>7. call[c].done = {call[c].prog[i] : i \in 1..2} \ Plain
      BY <3>4, <3>6 DEF Reached
    <3>8. {call[c].prog[i] : i \in 1..2} = {"client", "label1"}
      BY <3>2 DEF LabelMessages
    <3>9. D = {}
      BY <2>2, <3>7, <3>8 DEF Plain
    <3> QED
      BY <3>9 DEF Ordered
  <2> QED
    BY <2>1, <2>2 DEF Undone
<1>5. D \in SUBSET AllRequests /\ D \subseteq RequestsOf(call[c].prog)
  BY <1>2 DEF CallInv, CallRecords
<1>6. CallInv(next, env)
  BY <1>2, <1>4, <1>5, AfterErrorInv
<1>7. Rotation(c, [AfterError(c) EXCEPT !.done = @ \ X]) /\ UNCHANGED <<server, edits>>
  BY <1>0 DEF Refused
<1>8. [AfterError(c) EXCEPT !.done = @ \ X] = next
  BY <1>2, DoneKept
<1> HIDE DEF next
<1> QED
  BY <1>3, <1>6, <1>7, <1>8, RotationKeeps

LEMMA LostStep == ASSUME IInv, NEW c \in Calls, Lost(c) PROVE IInv'
<1> DEFINE D == call[c].done \cup {Request(c)}
           next == [AfterError(c) EXCEPT !.done = D]
<1>1. /\ Running(c) /\ Request(c) \notin Plain
      /\ Possible(c, Request(c)) /\ account' \in After(c, Request(c))
  BY DEF Lost
<1>2. CallInv(call[c], env) /\ call[c].state = "running" /\ call[c] \in CallRecords
      /\ Request(c) \in RequestsOf(call[c].prog) /\ Request(c) \in AllRequests
  BY <1>1, RequestFacts DEF CallInv
<1>3. AccountOK(account')
  BY <1>1, RequestFacts, AfterOK DEF IInv, Possible
<1>4. D \in SUBSET AllRequests /\ D \subseteq RequestsOf(call[c].prog)
  BY <1>2 DEF CallInv, CallRecords
<1>5. ASSUME call[c].tool # "session_status"
      PROVE Ordered(call[c].prog, D)
  <2>1. PICK k \in 0..Len(call[c].prog) : Reached(call[c], k)
    BY <1>2, <1>5 DEF CallInv
  <2>2. /\ call[c].prog \in Seq(AllRequests) /\ Spread(call[c].prog) /\ k + 1 \in 1..Len(call[c].prog)
        /\ call[c].done \cup ({Request(c)} \ Plain) = {call[c].prog[i] : i \in 1..(k + 1)} \ Plain
    BY <1>2, <1>5, <2>1, NextRequest DEF Request
  <2>3. D = {call[c].prog[i] : i \in 1..(k + 1)} \ Plain
    BY <1>1, <2>2
  <2>4. k + 1 \in 0..Len(call[c].prog)
    BY <2>2
  <2> HIDE DEF D
  <2> QED
    BY <2>2, <2>3, <2>4, Prefix
<1>6. CallInv(next, env)
  BY <1>2, <1>4, <1>5, AfterErrorInv
<1>7. call' = [call EXCEPT ![c] = [AfterError(c) EXCEPT !.done = @ \cup {Request(c)}]]
  BY DEF Lost
<1>8. [AfterError(c) EXCEPT !.done = @ \cup {Request(c)}] = next
  BY <1>2, DoneKept
<1>9. UNCHANGED <<server, edits, degraded, rotations>>
  BY DEF Lost
<1> HIDE DEF next
<1> QED
  BY <1>3, <1>6, <1>7, <1>8, <1>9, OneCallChanges

LEMMA NextKeeps == IInv /\ [Next]_vars => IInv'
<1> SUFFICES ASSUME IInv, [Next]_vars PROVE IInv'
  OBVIOUS
<1>1. CASE UNCHANGED vars
  BY <1>1 DEF vars, server, IInv, ServerTypeOK, ServeInv
<1>2. CASE ServerStep
  BY <1>2, ServerSteps DEF ServerStep
<1>3. CASE Edit
  BY <1>3, EditStep
<1>4. ASSUME NEW c \in Calls, CallStep(c)
      PROVE IInv'
  BY <1>4, InvokeStep, InvalidStep, SucceedsStep, ReadsStatusStep, RefusedStep, LostStep DEF CallStep
<1> QED
  BY <1>1, <1>2, <1>3, <1>4 DEF Next

\* The invariant the theorems rest on.
LEMMA Inductive == Spec => []IInv
<1> QED
  BY Initially, NextKeeps, PTL DEF Spec

-----------------------------------------------------------------------------
(* The theorems. *)

\* The state stays of the types the handlers and the server process give it:
\* an enabled address exists, a call has only done requests of its own tool.
THEOREM TypeCorrect == Spec => []TypeOK
<1>1. IInv => TypeOK
  BY DEF IInv, TypeOK, AccountOK, CallInv, CallRecords
<1> QED
  BY <1>1, Inductive, PTL

\* The server process never exits with 0 once its listener failed, in whatever
\* order the failure, a signal and the shutdown come (sse.go drains errCh).
THEOREM FailureReported == Spec => []ServeFailureReported
<1>1. IInv => ServeFailureReported
  BY DEF IInv, ServeInv, ServerTypeOK, ServeFailureReported
<1> QED
  BY <1>1, Inductive, PTL

\* proton_set_catchall never routes the catch-all to an address of another
\* domain, however calls and edits in the browser interleave with its lookup.
THEOREM CatchAllChecked == Spec => []CatchAllOnDomain
<1>1. IInv => CatchAllOnDomain
  BY DEF IInv, AccountOK, CatchAllOnDomain
<1> QED
  BY <1>1, Inductive, PTL

\* A handler that returns success had all its requests take effect; one that
\* returns an error, or is cut short, left the effects of its first requests.
THEOREM ReportsAreTrue == Spec => []AppliedAsReported
<1>1. IInv => AppliedAsReported
  BY DEF IInv, CallInv, Ordered, AppliedAsReported
<1> QED
  BY <1>1, Inductive, PTL

\* The two gates of register.go hold of every step of every handler: nothing
\* changes without ENABLE_WRITES, nothing is destroyed without ENABLE_DANGEROUS.
THEOREM Gated == Spec => GatesHold
<1> DEFINE Gate ==
      edits' = edits =>
        /\ account' # account => env.writes
        /\ ~(account.addrs \subseteq account'.addrs) \/ ~(account.messages \subseteq account'.messages)
             \/ (account.domain # "absent" /\ account'.domain = "absent") => env.dangerous
<1>1. ASSUME IInv, [Next]_vars
      PROVE Gate
  <2> SUFFICES ASSUME edits' = edits
               PROVE /\ account' # account => env.writes
                     /\ Spared(account') \/ env.dangerous
    BY DEF Spared
  <2>1. CASE account' = account
    BY <2>1 DEF Spared
  <2>2. CASE Edit
    <3>1. edits \in 0..MaxEdits /\ edits' = edits + 1
      BY <1>1, <2>2 DEF Edit, IInv
    <3> QED
      BY <3>1
  <2>3. ASSUME NEW c \in Calls, Running(c), account' \in After(c, Request(c))
        PROVE /\ account' # account => env.writes
              /\ Spared(account') \/ env.dangerous
    <3>1. /\ Request(c) \in AllRequests /\ Request(c) \in Allowed(env)
      BY <1>1, <2>3, RequestFacts
    <3>2. /\ Request(c) \in ReadRequests => account' = account
          /\ Request(c) \notin DangerousRequests => Spared(account')
      BY <1>1, <2>3, <3>1, AfterGates DEF IInv
    <3>3. Request(c) \in DangerousRequests => Request(c) \notin ReadRequests \cup WriteRequests
      BY DEF DangerousRequests, ReadRequests, WriteRequests
    <3> QED
      BY <3>1, <3>2, <3>3 DEF Allowed
  <2>4. ASSUME NEW c \in Calls, Refused(c)
        PROVE /\ account' # account => env.writes
              /\ Spared(account') \/ env.dangerous
    <3>1. Request(c) \in Allowed(env) /\ AccountOK(account)
      BY <1>1, <2>4, RequestFacts DEF Refused, IInv
    <3>2. CASE Request(c) = "label2"
      <4>1. account' \in {account, [account EXCEPT !.labelled = @ \ {1}]}
        BY <2>4, <3>2 DEF Refused
      <4>2. Spared(account')
        BY <3>1, <4>1 DEF AccountOK, Accounts, Spared
      <4> QED
        BY <3>1, <3>2, <4>2 DEF Allowed, ReadRequests
    <3>3. CASE Request(c) = "deleteMessages"
      BY <3>1, <3>3 DEF Allowed, ReadRequests, WriteRequests
    <3>4. CASE Request(c) \notin {"label2", "deleteMessages"}
      BY <2>1, <2>4, <3>4 DEF Refused
    <3> QED
      BY <3>2, <3>3, <3>4
  <2> QED
    BY <1>1, <2>1, <2>2, <2>3, <2>4
       DEF Next, vars, ServerStep, CallStep, Invoke, Invalid, Succeeds, ReadsStatus, Lost
<1>2. IInv /\ [Next]_vars => [Gate]_vars
  BY <1>1
<1> QED
  BY <1>2, Inductive, PTL DEF Spec, GatesHold

-----------------------------------------------------------------------------
(* What an update returns. *)

\* A setting some call has written never looks unwritten again.
UpdateInv ==
  /\ \A c \in Calls : \A s \in Settings \cap call[c].done : account.set[s] # Old
  /\ ReportsOwnUpdate

\* The fields that UpdateInv reads of two records agree.
Alike(r, q) ==
  r.state = q.state /\ r.tool = q.tool /\ r.prog = q.prog /\ r.done = q.done /\ r.answer = q.answer

\* Of the calls only c changed, into r.
Became(c, r) == Alike(call'[c], r) /\ \A o \in Calls \ {c} : Alike(call'[o], call[o])

LEMMA UpdateKept ==
  ASSUME UpdateInv, NEW c \in Calls, NEW r, Became(c, r),
         \A s \in Settings : account.set[s] # Old => account'.set[s] # Old,
         \A s \in Settings \cap r.done : s \in call[c].done \/ account'.set[s] # Old,
         r.state = "ok" /\ r.tool = "update" =>
           \A s \in Settings \cap RequestsOf(r.prog) : r.answer[s] # Old
  PROVE UpdateInv'
<1>1. ASSUME NEW o \in Calls, NEW s \in Settings \cap call'[o].done
      PROVE account'.set[s] # Old
  BY <1>1 DEF UpdateInv, Became, Alike
<1>2. ASSUME NEW o \in Calls, call'[o].state = "ok", call'[o].tool = "update",
             NEW s \in Settings \cap RequestsOf(call'[o].prog)
      PROVE call'[o].answer[s] # Old
  BY <1>2 DEF UpdateInv, ReportsOwnUpdate, Became, Alike
<1> QED
  BY <1>1, <1>2 DEF UpdateInv, ReportsOwnUpdate

LEMMA RotationBecomes ==
  ASSUME IInv, NEW c \in Calls, NEW r \in CallRecords, Rotation(c, r)
  PROVE Became(c, r)
<1>1. PICK d \in BOOLEAN :
        call' = [o \in Calls |->
          LET n == IF o = c THEN r ELSE call[o]
          IN [n EXCEPT !.flags =
               IF o = c /\ n.tool = "whoami" /\ Request(c) = "getUser" THEN {d}
               ELSE IF @ = {} \/ n.state # "running" THEN @ ELSE @ \cup {d}]]
  BY DEF Rotation
<1>2. \A q \in CallRecords : \A F : Alike([q EXCEPT !.flags = F], q)
  BY DEF CallRecords, Alike
<1>3. ASSUME NEW o \in Calls
      PROVE Alike(call'[o], IF o = c THEN r ELSE call[o])
  <2> DEFINE n == IF o = c THEN r ELSE call[o]
             F == IF o = c /\ n.tool = "whoami" /\ Request(c) = "getUser" THEN {d}
                  ELSE IF n.flags = {} \/ n.state # "running" THEN n.flags ELSE n.flags \cup {d}
  <2>1. n \in CallRecords
    BY DEF IInv
  <2>2. call'[o] = [n EXCEPT !.flags = F]
    BY <1>1
  <2> HIDE DEF n, F
  <2>3. Alike(call'[o], n)
    BY <1>2, <2>1, <2>2
  <2> QED
    BY <2>3 DEF n
<1> QED
  BY <1>3 DEF Became

LEMMA OneCallBecomes ==
  ASSUME IInv, NEW c \in Calls, NEW r, call' = [call EXCEPT ![c] = r]
  PROVE Became(c, r)
BY DEF IInv, Became, Alike

\* A request never takes back a setting, and one for a setting writes it.
LEMMA SettingsWritten ==
  ASSUME AccountOK(account), NEW c \in Calls, NEW r \in AllRequests, NEW new \in After(c, r)
  PROVE /\ \A s \in Settings : account.set[s] # Old => new.set[s] # Old
        /\ r \in Settings => new.set[r] # Old
<1>1. CASE r \in Settings
  <2>1. new = [account EXCEPT !.set[r] = c]
    BY <1>1 DEF After, Settings, Batches
  <2>2. new.set = [account.set EXCEPT ![r] = c] /\ account.set \in [Settings -> Calls \cup {Old}]
    BY <2>1 DEF AccountOK, Accounts
  <2>3. c # Old
    BY ToolsAssumption
  <2> QED
    BY <1>1, <2>2, <2>3
<1>2. CASE r \notin Settings
  <2>1. new.set = account.set
    BY ZenonT(60), <1>2 DEF After, AccountOK, Accounts
  <2> QED
    BY <1>2, <2>1
<1> QED
  BY <1>1, <1>2

\* The last request of an update of settings is one for a setting, and all
\* others of them are done by then.
LEMMA LastOfUpdate ==
  ASSUME IInv, NEW c \in Calls, Running(c), call[c].tool = "update", Len(call[c].todo) = 1,
         Settings \cap RequestsOf(call[c].prog) # {}
  PROVE /\ Request(c) \in Settings
        /\ \A s \in Settings \cap RequestsOf(call[c].prog) : s = Request(c) \/ s \in call[c].done
<1> DEFINE p == call[c].prog
<1>1. CallInv(call[c], env) /\ call[c].state = "running" /\ call[c].tool # "session_status"
  BY RequestFacts
<1>2. PICK k \in 0..Len(p) : Reached(call[c], k)
  BY <1>1 DEF CallInv
<1>3. /\ p \in Seq(AllRequests) /\ k + 1 \in 1..Len(p) /\ Request(c) = p[k + 1]
      /\ call[c].done \cup ({Request(c)} \ Plain) = {p[i] : i \in 1..(k + 1)} \ Plain
  BY <1>1, <1>2, NextRequest DEF Request
<1>4. k + 1 = Len(p)
  BY <1>2, <1>3 DEF Reached
<1>5. Concluded(p)
  <2>1. p # <<>>
    BY <1>3
  <2> QED
    BY <1>1, <2>1 DEF CallInv, Programs
<1>6. Request(c) \in Settings
  BY <1>3, <1>4, <1>5 DEF Concluded
<1>7. Settings \cap Plain = {}
  BY DEF Settings, Plain
<1> QED
  BY <1>3, <1>4, <1>6, <1>7 DEF RequestsOf

LEMMA SucceedsUpdate == ASSUME IInv, UpdateInv, NEW c \in Calls, Succeeds(c) PROVE UpdateInv'
<1> DEFINE r == [Advanced(c) EXCEPT !.done = @ \cup ({Request(c)} \ Plain),
                                   !.answer = Answer(c, Request(c))]
<1>1. /\ Running(c) /\ account' \in After(c, Request(c)) /\ Possible(c, Request(c))
      /\ Rotation(c, r)
  BY DEF Succeeds
<1>2. /\ CallInv(call[c], env) /\ call[c] \in CallRecords /\ call[c].state = "running"
      /\ Request(c) \in AllRequests
  BY <1>1, RequestFacts DEF CallInv
<1>3. AccountOK(account) /\ AccountOK(account')
  BY <1>1, RequestFacts, AfterOK DEF IInv, Possible
<1>4. Answer(c, Request(c)) \in [Settings -> Calls \cup {Old}]
  BY <1>2, <1>3 DEF Answer, AccountOK, Accounts, CallRecords
<1>5. r \in CallRecords
  BY <1>1, <1>2, <1>4, AdvancedInv DEF CallInv, Possible
<1>6. Became(c, r)
  BY <1>1, <1>5, RotationBecomes
<1>7. /\ \A s \in Settings : account.set[s] # Old => account'.set[s] # Old
      /\ Request(c) \in Settings => account'.set[Request(c)] # Old
  BY <1>1, <1>2, <1>3, SettingsWritten
<1>8. /\ r.done = call[c].done \cup ({Request(c)} \ Plain) /\ r.answer = Answer(c, Request(c))
      /\ r.tool = call[c].tool /\ r.prog = call[c].prog
      /\ r.state = "ok" => Len(call[c].todo) = 1
  BY <1>2 DEF Advanced, Ended, CallRecords
<1> HIDE DEF r
<1>9. ASSUME r.state = "ok", r.tool = "update", NEW s \in Settings \cap RequestsOf(r.prog)
      PROVE r.answer[s] # Old
  <2>1. Request(c) \in Settings /\ (s = Request(c) \/ s \in call[c].done)
    BY <1>1, <1>8, <1>9, LastOfUpdate
  <2>2. r.answer = account'.set
    BY <1>8, <2>1 DEF Answer
  <2>3. s \in call[c].done => account.set[s] # Old
    BY DEF UpdateInv
  <2> QED
    BY <1>7, <2>1, <2>2, <2>3
<1> QED
  BY <1>6, <1>7, <1>8, <1>9, UpdateKept

LEMMA ReadsStatusUpdate == ASSUME IInv, UpdateInv, NEW c \in Calls, ReadsStatus(c) PROVE UpdateInv'
<1> DEFINE r == [Advanced(c) EXCEPT !.said = degraded]
<1>1. Running(c) /\ Request(c) = "status" /\ account' = account /\ Became(c, r)
  BY OneCallBecomes DEF ReadsStatus
<1>2. call[c] \in CallRecords
  BY <1>1, RequestFacts DEF CallInv
<1>3. /\ r.done = call[c].done /\ r.tool = call[c].tool /\ r.prog = call[c].prog
      /\ r.state = "ok" => Len(call[c].todo) = 1 \/ call[c].state = "ok"
  BY <1>2 DEF Advanced, Ended, CallRecords
<1> HIDE DEF r
<1>4. r.state = "ok" /\ r.tool = "update" => Settings \cap RequestsOf(r.prog) = {}
  BY <1>1, <1>3, LastOfUpdate DEF Settings, Running
<1> QED
  BY <1>1, <1>3, <1>4, UpdateKept

LEMMA FailedUpdate ==
  ASSUME IInv, UpdateInv, NEW c \in Calls, Refused(c) \/ Lost(c)
  PROVE UpdateInv'
<1>1. Running(c) /\ AccountOK(account)
  BY DEF Refused, Lost, IInv
<1>2. call[c] \in CallRecords /\ Request(c) \in AllRequests /\ call[c].state = "running"
  BY <1>1, RequestFacts DEF CallInv
<1>3. /\ AfterError(c) \in CallRecords /\ AfterError(c).done = call[c].done
      /\ AfterError(c).state = "ok" => AfterError(c).tool = "session_status"
  <2>1. <<>> \in Seq(AllRequests) /\ <<"status">> \in Seq(AllRequests)
    BY DEF AllRequests, ReadRequests
  <2> QED
    BY <1>2, <2>1 DEF AfterError, Ended, CallRecords, States
<1>4. CASE Refused(c)
  <2>0. PICK X \in Undone(c) : Rotation(c, [AfterError(c) EXCEPT !.done = @ \ X])
    BY <1>4 DEF Refused
  <2> DEFINE r == [AfterError(c) EXCEPT !.done = @ \ X]
  <2>1. Rotation(c, r) /\ account'.set = account.set
    BY <1>1, <1>4, <2>0 DEF Refused, AccountOK, Accounts
  <2>2. /\ r \in CallRecords /\ r.done \subseteq call[c].done
        /\ r.state = "ok" => r.tool = "session_status"
    BY <1>3 DEF CallRecords
  <2> HIDE DEF r
  <2> QED
    BY <2>1, <2>2, RotationBecomes, UpdateKept
<1>5. CASE Lost(c)
  <2> DEFINE r == [AfterError(c) EXCEPT !.done = @ \cup {Request(c)}]
  <2>1. account' \in After(c, Request(c)) /\ Became(c, r)
    BY <1>5, OneCallBecomes DEF Lost
  <2>2. /\ r.done = call[c].done \cup {Request(c)}
        /\ r.state = "ok" => r.tool = "session_status"
    BY <1>3 DEF CallRecords
  <2>3. /\ \A s \in Settings : account.set[s] # Old => account'.set[s] # Old
        /\ Request(c) \in Settings => account'.set[Request(c)] # Old
    BY <1>1, <1>2, <2>1, SettingsWritten
  <2> HIDE DEF r
  <2> QED
    BY <2>1, <2>2, <2>3, UpdateKept
<1> QED
  BY <1>4, <1>5

LEMMA ArrivalUpdate ==
  ASSUME IInv, UpdateInv, NEW c \in Calls, Invoke(c) \/ Invalid(c)
  PROVE UpdateInv'
<1>1. account' = account
  BY DEF Invoke, Invalid
<1>2. CASE Invoke(c)
  <2>1. PICK t \in Registered, a \in Addresses \cup {None}, header \in {"none", "other", "token"} :
          call' = [call EXCEPT ![c] =
            IF Accepted(header)
            THEN [NewCall EXCEPT !.state = "running", !.tool = t[1], !.prog = t[2],
                                 !.todo = t[2], !.arg = a]
            ELSE [NewCall EXCEPT !.state = "unauthorized"]]
    BY <1>2 DEF Invoke
  <2> DEFINE r == IF Accepted(header)
                  THEN [NewCall EXCEPT !.state = "running", !.tool = t[1], !.prog = t[2],
                                       !.todo = t[2], !.arg = a]
                  ELSE [NewCall EXCEPT !.state = "unauthorized"]
  <2>2. r.done = {} /\ r.state # "ok"
    BY DEF NewCall
  <2>3. call' = [call EXCEPT ![c] = r]
    BY <2>1
  <2> HIDE DEF r
  <2>4. Became(c, r)
    BY <2>3, OneCallBecomes
  <2> QED
    BY <1>1, <2>2, <2>4, UpdateKept
<1>3. CASE Invalid(c)
  <2>1. call[c] \in CallRecords
    BY DEF IInv
  <2>2. Ended(c, "error").done = call[c].done /\ Ended(c, "error").state = "error"
    BY <2>1 DEF Ended, CallRecords
  <2>3. Became(c, Ended(c, "error"))
    BY <1>3, OneCallBecomes DEF Invalid
  <2> QED
    BY <1>1, <2>2, <2>3, UpdateKept
<1> QED
  BY <1>2, <1>3

\* proton_update_address and the two settings tools return, for every field
\* they were given, a value written by a call, theirs or a later one.
THEOREM UpdatesReported == Spec => []ReportsOwnUpdate
<1>1. Init => UpdateInv
  <2>1. NewCall.done = {} /\ NewCall.state = "new"
    BY DEF NewCall
  <2> QED
    BY <2>1 DEF Init, UpdateInv, ReportsOwnUpdate
<1>2. ASSUME IInv, UpdateInv, [Next]_vars
      PROVE UpdateInv'
  <2>1. CASE UNCHANGED <<account, call>>
    BY <1>2, <2>1 DEF UpdateInv, ReportsOwnUpdate
  <2>2. CASE Edit
    <3>1. call' = call /\ account'.set = account.set
      BY <1>2, <2>2 DEF Edit, IInv, AccountOK, Accounts
    <3> QED
      BY <1>2, <3>1 DEF UpdateInv, ReportsOwnUpdate
  <2>3. ASSUME NEW c \in Calls, CallStep(c)
        PROVE UpdateInv'
    BY <1>2, <2>3, ArrivalUpdate, SucceedsUpdate, ReadsStatusUpdate, FailedUpdate DEF CallStep
  <2> QED
    BY <1>2, <2>1, <2>2, <2>3 DEF Next, vars, ServerStep
<1>3. UpdateInv => ReportsOwnUpdate
  BY DEF UpdateInv
<1> QED
  BY <1>1, <1>2, <1>3, Inductive, PTL DEF Spec

-----------------------------------------------------------------------------
(* What whoami says of the persistence of the tokens. *)

\* A whoami that has its user has noted the flag as it is now.
Noted(r, flag) ==
  r.tool = "whoami" =>
    /\ r.prog = Whoami
    /\ r.state = "running" /\ Len(r.todo) = 1 => flag \in r.flags
    /\ r.state = "ok" => r.said \in r.flags

WhoamiInv == \A c \in Calls : Noted(call[c], degraded)

\* A running whoami is at its status exactly when one request is left.
LEMMA WhoamiAt ==
  ASSUME IInv, NEW c \in Calls, Running(c), call[c].tool = "whoami", call[c].prog = Whoami
  PROVE /\ Len(call[c].todo) \in Nat
        /\ Len(call[c].todo) = 1 <=> Request(c) = "status"
        /\ Len(call[c].todo) = 2 <=> Request(c) = "getUser"
<1>1. /\ CallInv(call[c], env) /\ call[c].state = "running" /\ call[c].tool # "session_status"
      /\ call[c].todo \in Seq(AllRequests)
  BY RequestFacts
<1>2. PICK k \in 0..Len(call[c].prog) : Reached(call[c], k)
  BY <1>1 DEF CallInv
<1>3. k + 1 \in 1..Len(call[c].prog) /\ Request(c) = call[c].prog[k + 1]
  BY <1>1, <1>2, NextRequest DEF Request
<1>4. Len(Whoami) = 3 /\ Whoami[1] = "client" /\ Whoami[2] = "getUser" /\ Whoami[3] = "status"
  BY DEF Whoami
<1>5. k \in 0..2 /\ Len(call[c].todo) \in Nat /\ Len(call[c].todo) + k = 3
  BY <1>1, <1>2, <1>3, <1>4 DEF Reached
<1> DEFINE len == Len(call[c].todo)
<1>6. len \in Nat /\ len + k = 3 /\ Request(c) = Whoami[k + 1]
  BY <1>3, <1>5
<1> HIDE DEF len
<1>7. CASE k = 0
  <2>1. len = 3 /\ Request(c) = "client"
    BY <1>4, <1>6, <1>7
  <2> QED
    BY <2>1 DEF len
<1>8. CASE k = 1
  <2>1. len = 2 /\ Request(c) = "getUser"
    BY <1>4, <1>6, <1>8
  <2> QED
    BY <2>1 DEF len
<1>9. CASE k = 2
  <2>1. len = 1 /\ Request(c) = "status"
    BY <1>4, <1>6, <1>9
  <2> QED
    BY <2>1 DEF len
<1> QED
  BY <1>5, <1>7, <1>8, <1>9

\* A rotation keeps the note of every running whoami up to date.
LEMMA RotationNoted ==
  ASSUME IInv, WhoamiInv, NEW c \in Calls, NEW r \in CallRecords, Rotation(c, r),
         r.tool = "whoami" =>
           /\ r.prog = Whoami /\ r.state # "ok"
           /\ r.state = "running" /\ Len(r.todo) = 1 => Request(c) = "getUser"
  PROVE WhoamiInv'
<1>1. PICK d \in BOOLEAN :
        /\ degraded' = d
        /\ call' = [o \in Calls |->
             LET n == IF o = c THEN r ELSE call[o]
             IN [n EXCEPT !.flags =
                  IF o = c /\ n.tool = "whoami" /\ Request(c) = "getUser" THEN {d}
                  ELSE IF @ = {} \/ n.state # "running" THEN @ ELSE @ \cup {d}]]
  BY DEF Rotation
<1> SUFFICES ASSUME NEW o \in Calls PROVE Noted(call'[o], d)
  BY <1>1 DEF WhoamiInv
<1> DEFINE n == IF o = c THEN r ELSE call[o]
           F == IF o = c /\ n.tool = "whoami" /\ Request(c) = "getUser" THEN {d}
                ELSE IF n.flags = {} \/ n.state # "running" THEN n.flags ELSE n.flags \cup {d}
           q == [n EXCEPT !.flags = F]
<1>2. n \in CallRecords /\ call'[o] = q
  BY <1>1 DEF IInv
<1> HIDE DEF F
<1>3. /\ q.tool = n.tool /\ q.prog = n.prog /\ q.state = n.state /\ q.todo = n.todo
      /\ q.said = n.said /\ q.flags = F
  <2> HIDE DEF n
  <2> QED
    BY <1>2 DEF CallRecords
<1>4. CASE o = c
  <2>1. n = r
    BY <1>4
  <2>2. n.tool = "whoami" /\ Request(c) = "getUser" => F = {d}
    BY <1>4 DEF F
  <2> HIDE DEF n, q
  <2> QED
    BY <1>2, <1>3, <2>1, <2>2 DEF Noted
<1>5. CASE o # c
  <2>1. n = call[o] /\ Noted(n, degraded)
    BY <1>5 DEF WhoamiInv
  <2>2. F = IF n.flags = {} \/ n.state # "running" THEN n.flags ELSE n.flags \cup {d}
    BY <1>5 DEF F
  <2> HIDE DEF n, q
  <2>3. n.state # "running" => F = n.flags
    BY <2>2
  <2>4. n.state = "running" /\ n.flags # {} => d \in F
    BY <2>2
  <2> QED
    BY <1>2, <1>3, <2>1, <2>3, <2>4 DEF Noted
<1> QED
  BY <1>4, <1>5

\* A step of one call that leaves the flag alone.
LEMMA OneCallNoted ==
  ASSUME IInv, WhoamiInv, NEW c \in Calls, NEW r, call' = [call EXCEPT ![c] = r],
         degraded' = degraded, Noted(r, degraded)
  PROVE WhoamiInv'
BY DEF WhoamiInv, IInv

LEMMA AnsweredNoted ==
  ASSUME IInv, WhoamiInv, NEW c \in Calls, Succeeds(c) \/ Refused(c)
  PROVE WhoamiInv'
<1>1. Running(c) /\ Request(c) # "status"
  BY DEF Succeeds, Refused
<1>2. /\ call[c] \in CallRecords /\ call[c].state = "running" /\ call[c].todo # <<>>
      /\ call[c].todo \in Seq(AllRequests)
      /\ call[c].tool = "whoami" => call[c].prog = Whoami
  BY <1>1, RequestFacts DEF CallInv, WhoamiInv, Noted
<1>3. call[c].tool = "whoami" =>
        /\ Len(call[c].todo) \in Nat /\ Len(call[c].todo) # 1
        /\ Len(call[c].todo) = 2 <=> Request(c) = "getUser"
  BY <1>1, <1>2, WhoamiAt
<1>4. CASE Succeeds(c)
  <2> DEFINE r == [Advanced(c) EXCEPT !.done = @ \cup ({Request(c)} \ Plain),
                                      !.answer = Answer(c, Request(c))]
  <2>1. /\ Rotation(c, r) /\ account' \in After(c, Request(c)) /\ Possible(c, Request(c))
    BY <1>4 DEF Succeeds
  <2>2. AccountOK(account')
    BY <1>1, <2>1, RequestFacts, AfterOK DEF IInv, Possible
  <2>3. Answer(c, Request(c)) \in [Settings -> Calls \cup {Old}]
    BY <1>2, <2>2 DEF Answer, AccountOK, Accounts, CallRecords
  <2>4. r \in CallRecords
    BY <1>1, <1>2, <2>1, <2>3, RequestFacts, AdvancedInv DEF CallInv, Possible
  <2>5. r.tool = call[c].tool /\ r.prog = call[c].prog
    BY <1>2 DEF Advanced, Ended, CallRecords
  <2>6. Len(call[c].todo) # 1 => r.state = "running" /\ r.todo = Tail(call[c].todo)
    BY <1>2 DEF Advanced, CallRecords
  <2> HIDE DEF r
  <2>7. Len(call[c].todo) \in Nat /\ Len(Tail(call[c].todo)) = Len(call[c].todo) - 1
    BY <1>2
  <2>8. Len(Tail(call[c].todo)) = 1 => Len(call[c].todo) = 2
    BY <2>7
  <2> QED
    BY <1>3, <1>2, <2>1, <2>4, <2>5, <2>6, <2>8, RotationNoted
<1>5. CASE Refused(c)
  <2>1. PICK X \in Undone(c) : Rotation(c, [AfterError(c) EXCEPT !.done = @ \ X])
    BY <1>5 DEF Refused
  <2> DEFINE r == [AfterError(c) EXCEPT !.done = @ \ X]
  <2>2. <<>> \in Seq(AllRequests) /\ <<"status">> \in Seq(AllRequests)
    BY DEF AllRequests, ReadRequests
  <2>3. /\ AfterError(c) \in CallRecords
        /\ AfterError(c).tool = call[c].tool /\ AfterError(c).prog = call[c].prog
        /\ call[c].tool = "whoami" => AfterError(c).state = "error"
    BY <1>2, <2>2 DEF AfterError, Ended, CallRecords, States
  <2>4. /\ r \in CallRecords
        /\ r.tool = call[c].tool /\ r.prog = call[c].prog
        /\ r.state = AfterError(c).state
    BY <2>3 DEF CallRecords
  <2>5. Rotation(c, r)
    BY <2>1
  <2> HIDE DEF r
  <2> QED
    BY <1>2, <2>3, <2>4, <2>5, RotationNoted
<1> QED
  BY <1>4, <1>5

LEMMA OthersNoted ==
  ASSUME IInv, WhoamiInv, NEW c \in Calls, Invoke(c) \/ Invalid(c) \/ ReadsStatus(c) \/ Lost(c)
  PROVE WhoamiInv'
<1>1. call[c] \in CallRecords /\ degraded' = degraded
      /\ (call[c].tool = "whoami" => call[c].prog = Whoami)
  BY DEF IInv, WhoamiInv, Noted, Invoke, Invalid, ReadsStatus, Lost
<1>2. CASE Invoke(c)
  <2>1. PICK t \in Registered, a \in Addresses \cup {None}, header \in {"none", "other", "token"} :
          call' = [call EXCEPT ![c] =
            IF Accepted(header)
            THEN [NewCall EXCEPT !.state = "running", !.tool = t[1], !.prog = t[2],
                                 !.todo = t[2], !.arg = a]
            ELSE [NewCall EXCEPT !.state = "unauthorized"]]
    BY <1>2 DEF Invoke
  <2>2. t[1] = "whoami" => t[2] = Whoami
    BY RegisteredPrograms
  <2>3. Len(Whoami) = 3
    BY DEF Whoami
  <2>4. Noted([NewCall EXCEPT !.state = "unauthorized"], degraded)
    BY DEF Noted, NewCall
  <2> DEFINE r == [NewCall EXCEPT !.state = "running", !.tool = t[1], !.prog = t[2],
                                  !.todo = t[2], !.arg = a]
  <2>5. r.state = "running" /\ r.tool = t[1] /\ r.prog = t[2] /\ r.todo = t[2]
    BY DEF NewCall
  <2> HIDE DEF r
  <2>6. Noted(r, degraded)
    BY <2>2, <2>3, <2>5 DEF Noted
  <2> QED
    BY <1>1, <2>1, <2>4, <2>6, OneCallNoted DEF r
<1>3. CASE Invalid(c)
  <2>1. Noted(Ended(c, "error"), degraded)
    BY <1>1 DEF Noted, Ended, CallRecords
  <2> QED
    BY <1>1, <1>3, <2>1, OneCallNoted DEF Invalid
<1>4. CASE Lost(c)
  <2> DEFINE r == [AfterError(c) EXCEPT !.done = @ \cup {Request(c)}]
  <2>1. Noted(r, degraded)
    BY <1>1 DEF Noted, AfterError, Ended, CallRecords
  <2>2. call' = [call EXCEPT ![c] = r]
    BY <1>4 DEF Lost
  <2> HIDE DEF r
  <2> QED
    BY <1>1, <2>1, <2>2, OneCallNoted
<1>5. CASE ReadsStatus(c)
  <2> DEFINE r == [Advanced(c) EXCEPT !.said = degraded]
  <2>1. Running(c) /\ Request(c) = "status"
    BY <1>5 DEF ReadsStatus
  <2>2. call[c].tool = "whoami" => Len(call[c].todo) = 1 /\ degraded \in call[c].flags
    BY <1>1, <2>1, WhoamiAt DEF WhoamiInv, Noted, Running
  <2>3. /\ r.tool = call[c].tool /\ r.prog = call[c].prog /\ r.said = degraded
        /\ r.flags = call[c].flags
        /\ Len(call[c].todo) = 1 => r.state = "ok"
    BY <1>1 DEF Advanced, Ended, CallRecords
  <2> HIDE DEF r
  <2>4. Noted(r, degraded)
    BY <1>1, <2>2, <2>3 DEF Noted
  <2>5. call' = [call EXCEPT ![c] = r]
    BY <1>5 DEF ReadsStatus, r
  <2> QED
    BY <1>1, <2>4, <2>5, OneCallNoted
<1> QED
  BY <1>2, <1>3, <1>4, <1>5

\* proton_whoami reports a persistence flag that is no older than its user, so a
\* failed save that its own request caused is in what it says.
THEOREM WhoamiReports == Spec => []WhoamiReportsOwnRotation
<1>1. Init => WhoamiInv
  <2>1. NewCall.tool = ""
    BY DEF NewCall
  <2> QED
    BY <2>1 DEF Init, WhoamiInv, Noted
<1>2. ASSUME IInv, WhoamiInv, [Next]_vars
      PROVE WhoamiInv'
  <2>1. CASE UNCHANGED <<degraded, call>>
    BY <1>2, <2>1 DEF WhoamiInv
  <2>2. ASSUME NEW c \in Calls, CallStep(c)
        PROVE WhoamiInv'
    BY <1>2, <2>2, AnsweredNoted, OthersNoted DEF CallStep
  <2> QED
    BY <1>2, <2>1, <2>2 DEF Next, vars, ServerStep, Edit
<1>3. WhoamiInv => WhoamiReportsOwnRotation
  BY DEF WhoamiInv, Noted, WhoamiReportsOwnRotation
<1> QED
  BY <1>1, <1>2, <1>3, Inductive, PTL DEF Spec
=============================================================================
