-------------------------- MODULE AlgorithmsProofs --------------------------
(***************************************************************************)
(* The pure parts of the program, for every input: what a tool that        *)
(* decrypts reports, a direct API call, the status command, the log, the   *)
(* tokens after two-factor, the sender of a draft, the event listing.      *)
(*                                                                         *)
(* Two lemmas carry the proofs.  Early returns are lists of probes: the    *)
(* first probe that holds gives the result.  Loops are folds: the function *)
(* a fold chooses exists, and what each pass keeps holds after the last.   *)
(***************************************************************************)
EXTENDS Algorithms, SequenceTheorems, FunctionTheorems, FiniteSetTheorems,
        WellFoundedInduction, TLAPS

LEMMA ProbeFields ==
  ASSUME NEW c, NEW s
  PROVE  Probe(c, s).when = c /\ Probe(c, s).says = s
BY DEF Probe

\* The first probe of a list that holds answers.
LEMMA FirstHolds ==
  ASSUME NEW p, NEW n \in Nat, DOMAIN p = 1..n,
         NEW k \in 1..n, p[k].when, \A j \in 1..(k - 1) : ~p[j].when
  PROVE  First(p) = p[k].says
<1> DEFINE Chosen(i) == p[i].when /\ \A j \in 1..(i - 1) : ~p[j].when
           i == CHOOSE i \in DOMAIN p : Chosen(i)
<1>1. i \in DOMAIN p /\ Chosen(i)
  <2>1. \E x \in DOMAIN p : Chosen(x)  OBVIOUS
  <2> QED  BY <2>1
<1>2. i = k
  <2>1. i \in 1..n  BY <1>1
  <2>2. ~(i < k)
    <3>1. SUFFICES ASSUME i < k PROVE FALSE  OBVIOUS
    <3>2. i \in 1..(k - 1)  BY <2>1, <3>1
    <3> QED  BY <1>1, <3>2
  <2>3. ~(k < i)
    <3>1. SUFFICES ASSUME k < i PROVE FALSE  OBVIOUS
    <3>2. k \in 1..(i - 1)  BY <2>1, <3>1
    <3> QED  BY <1>1, <3>2
  <2> QED  BY <2>1, <2>2, <2>3
<1> QED  BY <1>2 DEF First

LEMMA LeastIndex ==
  ASSUME NEW n \in Nat, NEW S \in SUBSET (1..n), S # {}
  PROVE  \E k \in S : \A j \in 1..(k - 1) : j \notin S
<1> DEFINE R == OpToRel(<, Nat)
<1>1. PICK k \in S : \A j \in S : ~(<<j, k>> \in R)
  <2>1. S \subseteq Nat  OBVIOUS
  <2> QED  BY <2>1, NatLessThanWellFounded, WFMin
<1>2. ASSUME NEW j \in 1..(k - 1), j \in S PROVE FALSE
  <2>0. k \in 1..n  BY <1>1
  <2>1. j \in Nat /\ k \in Nat /\ j < k  BY <2>0
  <2>2. <<j, k>> \in R  BY <2>1 DEF OpToRel
  <2> QED  BY <1>1, <1>2, <2>2
<1> QED  BY <1>1, <1>2

\* A list whose last probe holds answers with the first that holds.
LEMMA FirstAnswers ==
  ASSUME NEW p, NEW n \in Nat \ {0}, DOMAIN p = 1..n, p[n].when
  PROVE  \E k \in 1..n : /\ First(p) = p[k].says
                         /\ p[k].when
                         /\ \A j \in 1..(k - 1) : ~p[j].when
<1> DEFINE S == {k \in 1..n : p[k].when}
<1>1. S \in SUBSET (1..n) /\ n \in S  OBVIOUS
<1>2. PICK k \in S : \A j \in 1..(k - 1) : j \notin S
  <2> HIDE DEF S
  <2> QED  BY <1>1, LeastIndex
<1>3. k \in 1..n /\ p[k].when  BY <1>2
<1>4. \A j \in 1..(k - 1) : ~p[j].when  BY <1>2, <1>3
<1>5. First(p) = p[k].says  BY <1>3, <1>4, FirstHolds
<1> QED  BY <1>3, <1>4, <1>5

LEMMA ProbeHolds ==
  ASSUME NEW c, NEW s
  PROVE  /\ c => Probe(c, s).when
         /\ ~c => ~Probe(c, s).when
         /\ Probe(c, s).says = s
BY DEF Probe

LEMMA FailsRequest ==
  ASSUME NEW w, NEW request
  PROVE  /\ Fails(w, request).when <=> w.broken = request
         /\ Fails(w, request).says = Err(w.error)
BY DEF Fails, Probe

LEMMA ReturnsAlways == \A v : Returns(v).when /\ Returns(v).says = Ok(v)
BY DEF Returns, Probe

\* A list of two.
LEMMA FirstOfTwo ==
  ASSUME NEW a, NEW b, b.when
  PROVE  First(<<a, b>>) = IF a.when THEN a.says ELSE b.says
<1> DEFINE p == <<a, b>>
<1>1. DOMAIN p = 1..2 /\ p[1] = a /\ p[2] = b /\ 2 \in Nat \ {0}  OBVIOUS
<1> HIDE DEF p
<1>2. PICK k \in 1..2 : First(p) = p[k].says /\ p[k].when /\ \A j \in 1..(k - 1) : ~p[j].when
  BY <1>1, FirstAnswers
<1>3. CASE k = 1  BY <1>1, <1>2, <1>3 DEF p
<1>4. CASE k = 2
  <2>1. 1 \in 1..(k - 1)  BY <1>4
  <2> QED  BY <1>1, <1>2, <1>4, <2>1 DEF p
<1> QED  BY <1>3, <1>4

\* A request and what it returns when it does not fail.
LEMMA OneRequest ==
  ASSUME NEW w, NEW request, NEW v
  PROVE  First(<<Fails(w, request), Returns(v)>>)
           = IF w.broken = request THEN Err(w.error) ELSE Ok(v)
BY FirstOfTwo, FailsRequest, ReturnsAlways

\* keyring.Unlock, probe by probe.
KeyMissing(w) == ~w.primary \/ ~w.salt
NoneOpens(w) == Addresses # {} /\ Usable(w) = {}
Reached(w) == ~KeyMissing(w) /\ RightPassword(w)

LEMMA UnlockAnswers ==
  ASSUME NEW w, NEW f
  PROVE  \/ Denied(f) /\ Unlock(w, f) = Err(Wrap("ErrKeyringUnlockScope", f.error))
         \/ ~Denied(f) /\ f.broken \in {"salts", "user"} /\ Unlock(w, f) = Err(f.error)
         \/ f.broken \notin {"salts", "user"} /\ KeyMissing(w) /\ Unlock(w, f) = Err(Plain)
         \/ /\ f.broken \notin {"salts", "user"} /\ ~KeyMissing(w) /\ ~RightPassword(w)
            /\ Unlock(w, f) = Locked
         \/ f.broken = "addresses" /\ Reached(w) /\ Unlock(w, f) = Err(f.error)
         \/ /\ f.broken \notin {"salts", "user", "addresses"} /\ Reached(w) /\ NoneOpens(w)
            /\ Unlock(w, f) = Locked
         \/ /\ f.broken \notin {"salts", "user", "addresses"} /\ Reached(w) /\ ~NoneOpens(w)
            /\ Unlock(w, f) = Ok(Usable(w))
<1> DEFINE p == <<SaltsDenied(f), Fails(f, "salts"), Fails(f, "user"), Probe(KeyMissing(w), Err(Plain)),
                  Probe(~RightPassword(w), Locked), Fails(f, "addresses"),
                  Probe(NoneOpens(w), Locked), Returns(Usable(w))>>
<1>1. /\ DOMAIN p = 1..8 /\ 8 \in Nat \ {0}
      /\ p[1] = SaltsDenied(f) /\ p[2] = Fails(f, "salts") /\ p[3] = Fails(f, "user")
      /\ p[4] = Probe(KeyMissing(w), Err(Plain)) /\ p[5] = Probe(~RightPassword(w), Locked)
      /\ p[6] = Fails(f, "addresses") /\ p[7] = Probe(NoneOpens(w), Locked) /\ p[8] = Returns(Usable(w))
  OBVIOUS
<1>2. Unlock(w, f) = First(p)  BY DEF Unlock, KeyMissing, NoneOpens
<1>3. p[1].when <=> Denied(f)  BY <1>1 DEF SaltsDenied, Denied, Probe
<1>4. /\ p[4].when <=> KeyMissing(w)
      /\ p[5].when <=> ~RightPassword(w)
      /\ p[7].when <=> NoneOpens(w)
  BY <1>1 DEF Probe
<1> HIDE DEF p
<1>5. PICK k \in 1..8 : First(p) = p[k].says /\ p[k].when /\ \A j \in 1..(k - 1) : ~p[j].when
  <2>1. p[8].when  BY <1>1, ReturnsAlways
  <2> QED  BY <1>1, <2>1, FirstAnswers
<1>6. CASE k = 1  BY <1>1, <1>2, <1>3, <1>5, <1>6, ProbeFields DEF SaltsDenied
<1>7. CASE k = 2
  <2>1. 1 \in 1..(k - 1)  BY <1>7
  <2> QED  BY <1>1, <1>2, <1>3, <1>5, <1>7, <2>1, FailsRequest
<1>8. k >= 3 => ~Denied(f) /\ f.broken # "salts"
  <2>1. k >= 3 => 1 \in 1..(k - 1) /\ 2 \in 1..(k - 1)  OBVIOUS
  <2> QED  BY <2>1, <1>1, <1>3, <1>5, FailsRequest
<1>9. k >= 4 => f.broken # "user"
  <2>1. k >= 4 => 3 \in 1..(k - 1)  OBVIOUS
  <2> QED  BY <2>1, <1>1, <1>5, FailsRequest
<1>10. k >= 5 => ~KeyMissing(w)
  <2>1. k >= 5 => 4 \in 1..(k - 1)  OBVIOUS
  <2> QED  BY <2>1, <1>4, <1>5
<1>11. k >= 6 => RightPassword(w)
  <2>1. k >= 6 => 5 \in 1..(k - 1)  OBVIOUS
  <2> QED  BY <2>1, <1>4, <1>5
<1>12. k >= 7 => f.broken # "addresses"
  <2>1. k >= 7 => 6 \in 1..(k - 1)  OBVIOUS
  <2> QED  BY <2>1, <1>1, <1>5, FailsRequest
<1>13. k = 8 => ~NoneOpens(w)
  <2>1. k = 8 => 7 \in 1..(k - 1)  OBVIOUS
  <2> QED  BY <2>1, <1>4, <1>5
<1>14. CASE k = 3  BY <1>1, <1>2, <1>5, <1>8, <1>14, FailsRequest
<1>15. CASE k = 4  BY <1>1, <1>2, <1>4, <1>5, <1>8, <1>9, <1>15, ProbeFields
<1>16. CASE k = 5  BY <1>1, <1>2, <1>4, <1>5, <1>8, <1>9, <1>10, <1>16, ProbeFields
<1>17. CASE k = 6  BY <1>1, <1>2, <1>5, <1>8, <1>9, <1>10, <1>11, <1>17, FailsRequest DEF Reached
<1>18. CASE k = 7
  BY <1>1, <1>2, <1>4, <1>5, <1>8, <1>9, <1>10, <1>11, <1>12, <1>18, ProbeFields DEF Reached
<1>19. CASE k = 8
  BY <1>1, <1>2, <1>8, <1>9, <1>10, <1>11, <1>12, <1>13, <1>5, <1>19, ReturnsAlways DEF Reached
<1> QED  BY <1>6, <1>7, <1>14, <1>15, <1>16, <1>17, <1>18, <1>19

\* calendar.ResolveKeyring, probe by probe.
LEMMA ResolveAnswers ==
  ASSUME NEW w, NEW krs
  PROVE  \/ w.broken \in {"members", "addresses2", "passphrase", "calendarKeys"}
            /\ ResolveKeyring(w, krs) = Err(w.error)
         \/ (~Passphrase(w, krs) \/ ~w.calendarKeys) /\ ResolveKeyring(w, krs) = Locked
         \/ /\ w.broken \notin {"members", "addresses2", "passphrase", "calendarKeys"}
            /\ Passphrase(w, krs) /\ w.calendarKeys /\ ResolveKeyring(w, krs) = Ok(krs)
<1> DEFINE p == <<Fails(w, "members"), Fails(w, "addresses2"), Fails(w, "passphrase"),
                  Probe(~Passphrase(w, krs), Locked), Fails(w, "calendarKeys"),
                  Probe(~w.calendarKeys, Locked), Returns(krs)>>
<1>1. /\ DOMAIN p = 1..7 /\ 7 \in Nat \ {0}
      /\ p[1] = Fails(w, "members") /\ p[2] = Fails(w, "addresses2") /\ p[3] = Fails(w, "passphrase")
      /\ p[4] = Probe(~Passphrase(w, krs), Locked) /\ p[5] = Fails(w, "calendarKeys")
      /\ p[6] = Probe(~w.calendarKeys, Locked) /\ p[7] = Returns(krs)
  OBVIOUS
<1>2. ResolveKeyring(w, krs) = First(p)  BY DEF ResolveKeyring
<1>3. (p[4].when <=> ~Passphrase(w, krs)) /\ (p[6].when <=> ~w.calendarKeys)  BY <1>1 DEF Probe
<1> HIDE DEF p
<1>4. PICK k \in 1..7 : First(p) = p[k].says /\ p[k].when /\ \A j \in 1..(k - 1) : ~p[j].when
  <2>1. p[7].when  BY <1>1, ReturnsAlways
  <2> QED  BY <1>1, <2>1, FirstAnswers
<1>5. CASE k \in {1, 2, 3, 5}  BY <1>1, <1>2, <1>4, <1>5, FailsRequest
<1>6. CASE k = 4 \/ k = 6  BY <1>1, <1>2, <1>3, <1>4, <1>6, ProbeFields
<1>7. CASE k = 7
  <2>1. \A j \in 1..6 : ~p[j].when  BY <1>4, <1>7
  <2>2. /\ ~p[1].when /\ ~p[2].when /\ ~p[3].when
        /\ ~p[4].when /\ ~p[5].when /\ ~p[6].when
    BY <2>1
  <2> QED  BY <1>1, <1>2, <1>3, <1>4, <1>7, <2>2, FailsRequest, ReturnsAlways
<1> QED  BY <1>5, <1>6, <1>7

LEMMA AddressAnswers ==
  ASSUME NEW krs, NEW a
  PROVE  AddressKeyRing(krs, a) =
           IF a \in krs THEN Ok({a}) ELSE Err(Sentinel("ErrAddressKeyringMissing"))
<1> DEFINE m == Probe(a \notin krs, Err(Sentinel("ErrAddressKeyringMissing")))
<1>1. (m.when <=> a \notin krs) /\ m.says = Err(Sentinel("ErrAddressKeyringMissing"))  BY DEF Probe
<1>2. AddressKeyRing(krs, a) = First(<<m, Returns({a})>>)  BY DEF AddressKeyRing
<1> HIDE DEF m
<1> QED  BY <1>1, <1>2, FirstOfTwo, ReturnsAlways

LEMMA BodyAnswers ==
  ASSUME NEW krs, NEW a, NEW body
  PROVE  DecryptBody(krs, a, body) =
           IF a \in krs /\ body = "sealed" THEN Ok({"text"}) ELSE Err(Sentinel("ErrBodyUndecryptable"))
<1> DEFINE m == Probe(a \notin krs \/ body # "sealed", Err(Sentinel("ErrBodyUndecryptable")))
<1>1. (m.when <=> a \notin krs \/ body # "sealed") /\ m.says = Err(Sentinel("ErrBodyUndecryptable"))
  BY DEF Probe
<1>2. DecryptBody(krs, a, body) = First(<<m, Returns({"text"})>>)  BY DEF DecryptBody
<1> HIDE DEF m
<1> QED  BY <1>1, <1>2, FirstOfTwo, ReturnsAlways

LEMMA PartsAnswer ==
  ASSUME NEW w
  PROVE  DecryptSharedICS(w) =
           IF "broken" \in {w.parts[i] : i \in DOMAIN w.parts} THEN Err(Plain) ELSE Ok(w.parts)
<1> DEFINE broken == "broken" \in {w.parts[i] : i \in DOMAIN w.parts}
           m == Probe(broken, Err(Plain))
<1>1. (m.when <=> broken) /\ m.says = Err(Plain)  BY DEF Probe
<1>2. DecryptSharedICS(w) = First(<<m, Returns(w.parts)>>)  BY DEF DecryptSharedICS
<1> HIDE DEF m
<1> QED  BY <1>1, <1>2, FirstOfTwo, ReturnsAlways

-----------------------------------------------------------------------------
(***************************************************************************)
(* The error map.                                                          *)
(***************************************************************************)
\* Two, four, one and four probes in a row.
LEMMA Eleven ==
  ASSUME NEW a1, NEW a2, NEW a3, NEW a4, NEW a5, NEW a6, NEW a7, NEW a8, NEW a9, NEW a10, NEW a11,
         NEW p, p = <<a1, a2>> \o <<a3, a4, a5, a6>> \o <<a7>> \o <<a8, a9, a10, a11>>
  PROVE  /\ DOMAIN p = 1..11
         /\ p[1] = a1 /\ p[2] = a2 /\ p[3] = a3 /\ p[4] = a4 /\ p[5] = a5 /\ p[6] = a6
         /\ p[7] = a7 /\ p[8] = a8 /\ p[9] = a9 /\ p[10] = a10 /\ p[11] = a11
<1> DEFINE A == {a1, a2, a3, a4, a5, a6, a7, a8, a9, a10, a11}
           q1 == <<a7>>
           q2 == <<a1, a2>>
           q4 == <<a3, a4, a5, a6>>
           r4 == <<a8, a9, a10, a11>>
           p1 == q2 \o q4
           p2 == p1 \o q1
           Joined(s, t, u) == /\ u \in Seq(A) /\ Len(u) = Len(s) + Len(t)
                              /\ \A i \in 1..(Len(s) + Len(t)) :
                                    u[i] = IF i <= Len(s) THEN s[i] ELSE t[i - Len(s)]
<1>1. /\ q2 \in Seq(A) /\ Len(q2) = 2 /\ q2[1] = a1 /\ q2[2] = a2
      /\ q4 \in Seq(A) /\ Len(q4) = 4 /\ q4[1] = a3 /\ q4[2] = a4 /\ q4[3] = a5 /\ q4[4] = a6
      /\ q1 \in Seq(A) /\ Len(q1) = 1 /\ q1[1] = a7
      /\ r4 \in Seq(A) /\ Len(r4) = 4 /\ r4[1] = a8 /\ r4[2] = a9 /\ r4[3] = a10 /\ r4[4] = a11
  OBVIOUS
<1>2. ASSUME NEW s \in Seq(A), NEW t \in Seq(A) PROVE Joined(s, t, s \o t)
  <2> HIDE DEF A
  <2> QED  BY ConcatProperties
<1>3. p = p2 \o r4  OBVIOUS
<1> HIDE DEF q1, q2, q4, r4, A
<1>4. Joined(q2, q4, p1)  BY <1>1, <1>2
<1> HIDE DEF p1
<1>5. p1 \in Seq(A) /\ Len(p1) = 6
      /\ p1[1] = a1 /\ p1[2] = a2 /\ p1[3] = a3 /\ p1[4] = a4 /\ p1[5] = a5 /\ p1[6] = a6
  BY <1>1, <1>4
<1>6. Joined(p1, q1, p2)  BY <1>1, <1>2, <1>5
<1> HIDE DEF p2
<1>7. p2 \in Seq(A) /\ Len(p2) = 7 /\ p2[7] = a7
      /\ p2[1] = a1 /\ p2[2] = a2 /\ p2[3] = a3 /\ p2[4] = a4 /\ p2[5] = a5 /\ p2[6] = a6
  BY <1>1, <1>5, <1>6
<1>8. Joined(p2, r4, p)
  <2>1. Joined(p2, r4, p2 \o r4)  BY <1>1, <1>2, <1>7
  <2> QED  BY <1>3, <2>1
<1>9. Len(p) = 11 /\ DOMAIN p = 1..11  BY <1>1, <1>7, <1>8
<1> QED  BY <1>1, <1>7, <1>8, <1>9

\* errToMCP, probe by probe.
ScopeTagged(e) == "ErrKeyringUnlockScope" \in e.tags
ApiAnswered(e) == e.api.present /\ e.api.status # 0
Local(e) == ~ScopeTagged(e) /\ ~ApiAnswered(e) /\ ~e.http.present

LEMMA MapAnswers ==
  ASSUME NEW e
  PROVE  \/ ScopeTagged(e) /\ Map(e) = Says("keyring_unlock_scope")
         \/ ~ScopeTagged(e) /\ "ErrTOTPRejected" \in e.tags /\ Map(e) = Says("2fa_rejected")
         \/ ~ScopeTagged(e) /\ e.api.present /\ e.api.hv /\ Map(e) = Says("captcha")
         \/ ~ScopeTagged(e) /\ ~e.api.hv /\ ApiAnswered(e) /\ Map(e) = mapStatus(e.api.status, NoHttp)
         \/ ~ScopeTagged(e) /\ ~ApiAnswered(e) /\ e.http.present /\ Map(e) = mapStatus(e.http.status, e.http)
         \/ Local(e) /\ Map(e) = Says("upstream")
         \/ Local(e) /\ ~e.net /\ "ErrNoSession" \in e.tags /\ Map(e) = Says("auth_required")
         \/ Local(e) /\ ~e.net /\ "ErrBodyUndecryptable" \in e.tags /\ Map(e) = Says("body_undecryptable")
         \/ Local(e) /\ ~e.net /\ "ErrAddressKeyringMissing" \in e.tags
            /\ Map(e) = Says("address_keyring_missing")
         \/ Local(e) /\ ~e.net /\ "ErrKeyringLocked" \in e.tags /\ Map(e) = Says("keyring_locked")
<1> DEFINE b1 == ScopeProbe(e)
           b2 == Tagged(e, "ErrTOTPRejected", "2fa_rejected")
           b3 == Probe(e.api.present /\ e.api.hv, Says("captcha"))
           b4 == Probe(e.api.present /\ e.api.status # 0, mapStatus(e.api.status, NoHttp))
           b5 == Probe(e.http.present, mapStatus(e.http.status, e.http))
           b6 == Probe(e.net, Says("upstream"))
           b7 == Tagged(e, "ErrNoSession", "auth_required")
           b8 == Tagged(e, "ErrBodyUndecryptable", "body_undecryptable")
           b9 == Tagged(e, "ErrAddressKeyringMissing", "address_keyring_missing")
           b10 == Tagged(e, "ErrKeyringLocked", "keyring_locked")
           b11 == Probe(TRUE, Says("upstream"))
           p == Probes(e)
<1>1. p = <<b1, b2>> \o <<b3, b4, b5, b6>> \o <<b7>> \o <<b8, b9, b10, b11>>
  BY DEF Probes, NetworkProbes, KeyringProbes
<1>2. /\ b1.when <=> ScopeTagged(e)
      /\ b2.when <=> "ErrTOTPRejected" \in e.tags
      /\ b3.when <=> e.api.present /\ e.api.hv
      /\ b4.when <=> ApiAnswered(e)
      /\ b5.when <=> e.http.present
      /\ b6.when <=> e.net
      /\ b7.when <=> "ErrNoSession" \in e.tags
      /\ b8.when <=> "ErrBodyUndecryptable" \in e.tags
      /\ b9.when <=> "ErrAddressKeyringMissing" \in e.tags
      /\ b10.when <=> "ErrKeyringLocked" \in e.tags
      /\ b11.when
  BY DEF ScopeProbe, Tagged, ScopeTagged, ApiAnswered, Probe
<1>3. /\ b1.says = Says("keyring_unlock_scope") /\ b2.says = Says("2fa_rejected")
      /\ b3.says = Says("captcha") /\ b4.says = mapStatus(e.api.status, NoHttp)
      /\ b5.says = mapStatus(e.http.status, e.http) /\ b6.says = Says("upstream")
      /\ b7.says = Says("auth_required") /\ b8.says = Says("body_undecryptable")
      /\ b9.says = Says("address_keyring_missing") /\ b10.says = Says("keyring_locked")
      /\ b11.says = Says("upstream")
  BY DEF ScopeProbe, Tagged, Probe
<1>4. Map(e) = First(p)  BY DEF Map
<1> HIDE DEF p, b1, b2, b3, b4, b5, b6, b7, b8, b9, b10, b11
<1>5. /\ DOMAIN p = 1..11
      /\ p[1] = b1 /\ p[2] = b2 /\ p[3] = b3 /\ p[4] = b4
      /\ p[5] = b5 /\ p[6] = b6 /\ p[7] = b7 /\ p[8] = b8
      /\ p[9] = b9 /\ p[10] = b10 /\ p[11] = b11
  BY <1>1, Eleven
<1>6. 11 \in Nat \ {0}  OBVIOUS
<1>7. PICK k \in 1..11 : First(p) = p[k].says /\ p[k].when /\ \A j \in 1..(k - 1) : ~p[j].when
  BY <1>5, <1>2, <1>6, FirstAnswers
<1>8. k >= 2 => ~ScopeTagged(e)
  <2>1. k >= 2 => 1 \in 1..(k - 1)  OBVIOUS
  <2> QED  BY <1>5, <1>2, <1>7, <2>1
<1>9. k >= 5 => ~ApiAnswered(e)
  <2>1. k >= 5 => 4 \in 1..(k - 1)  OBVIOUS
  <2> QED  BY <1>5, <1>2, <1>7, <2>1
<1>10. k >= 6 => ~e.http.present
  <2>1. k >= 6 => 5 \in 1..(k - 1)  OBVIOUS
  <2> QED  BY <1>5, <1>2, <1>7, <2>1
<1>11. k >= 7 => ~e.net
  <2>1. k >= 7 => 6 \in 1..(k - 1)  OBVIOUS
  <2> QED  BY <1>5, <1>2, <1>7, <2>1
<1>12. CASE k = 1  BY <1>5, <1>2, <1>3, <1>4, <1>7, <1>12
<1>13. CASE k = 2  BY <1>5, <1>2, <1>3, <1>4, <1>7, <1>8, <1>13
<1>14. CASE k = 3  BY <1>5, <1>2, <1>3, <1>4, <1>7, <1>8, <1>14
<1>15. CASE k = 4
  <2>1. 3 \in 1..(k - 1)  BY <1>15
  <2>2. ~e.api.hv  BY <1>5, <1>2, <1>7, <1>15, <2>1 DEF ApiAnswered
  <2> QED  BY <1>5, <1>2, <1>3, <1>4, <1>7, <1>8, <1>15, <2>2
<1>16. CASE k = 5  BY <1>5, <1>2, <1>3, <1>4, <1>7, <1>8, <1>9, <1>16
<1>17. CASE k = 6 \/ k = 11
  BY <1>5, <1>2, <1>3, <1>4, <1>7, <1>8, <1>9, <1>10, <1>17 DEF Local
<1>18. CASE k \in 7..10
  <2>1. Local(e) /\ ~e.net  BY <1>8, <1>9, <1>10, <1>11, <1>18 DEF Local
  <2>2. CASE k = 7  BY <1>5, <1>2, <1>3, <1>4, <1>7, <2>1, <2>2
  <2>3. CASE k = 8  BY <1>5, <1>2, <1>3, <1>4, <1>7, <2>1, <2>3
  <2>4. CASE k = 9  BY <1>5, <1>2, <1>3, <1>4, <1>7, <2>1, <2>4
  <2>5. CASE k = 10  BY <1>5, <1>2, <1>3, <1>4, <1>7, <2>1, <2>5
  <2> QED  BY <1>18, <2>2, <2>3, <2>4, <2>5
<1> QED  BY <1>12, <1>13, <1>14, <1>15, <1>16, <1>17, <1>18

-----------------------------------------------------------------------------
(***************************************************************************)
(* The tools that need a key.                                              *)
(***************************************************************************)
LEMMA Results ==
  /\ \A v : Ok(v).ok /\ Ok(v).value = v
  /\ \A e : ~Err(e).ok /\ Err(e).err = e
BY DEF Ok, Err

Message == Sentinel("ErrBodyUndecryptable")
Missing == Sentinel("ErrAddressKeyringMissing")

LEMMA WorldsAreGiven ==
  ASSUME NEW w \in Worlds
  PROVE  /\ w.tool \in {"get_message", "get_event", "create_draft"}
         /\ w.relogin \in {"logged in", "challenged", "declined"}
         /\ w.error \in RequestErrors /\ w.again.error \in RequestErrors
         /\ w.broken = "creds" => ~w.error.api.present
<1>1. \A x \in Worlds : /\ x.tool \in {"get_message", "get_event", "create_draft"}
                        /\ x.relogin \in {"logged in", "challenged", "declined"}
                        /\ x.error \in RequestErrors /\ x.again.error \in RequestErrors
                        /\ x.broken = "creds" => ~x.error.api.present
  BY AlgorithmsAssumption
<1> QED  BY <1>1

\* Wrapping an error changes none of what Proton said.
LEMMA WrapKeeps ==
  ASSUME NEW e \in RequestErrors, NEW s
  PROVE  ScopeDenied(Wrap(s, e)) <=> ScopeDenied(e)
<1>1. Wrap(s, e).api = e.api
  BY DEF Wrap, RequestErrors, Transport, Plain, Chain
<1> QED  BY <1>1 DEF ScopeDenied

\* Session.unlockOnce: the stored credentials, then keyring.Unlock.
LEMMA UnlockOnceAnswers ==
  ASSUME NEW w, NEW f
  PROVE  UnlockOnce(w, f) = IF f.broken = "creds" THEN Err(f.error) ELSE Unlock(w, f)
BY OneRequest, Results DEF UnlockOnce, Then

\* The first unlock is denied for want of scope, with a login left to try,
\* exactly when Heals says so.
LEMMA DeniedHeals ==
  ASSUME NEW w \in Worlds
  PROVE  Heals(w) <=> ~UnlockOnce(w, w).ok /\ ScopeDenied(UnlockOnce(w, w).err) /\ ~w.spent
<1> DEFINE u == UnlockOnce(w, w)
           denied == ~u.ok /\ ScopeDenied(u.err) /\ ~w.spent
<1>1. w.error \in RequestErrors /\ (w.broken = "creds" => ~w.error.api.present)  BY WorldsAreGiven
<1>2. ~ScopeDenied(Plain) /\ ~ScopeDenied(Sentinel("ErrKeyringLocked"))
  BY DEF ScopeDenied, Plain, Sentinel, Chain, NoApi
<1>3. u = IF w.broken = "creds" THEN Err(w.error) ELSE Unlock(w, w)  BY UnlockOnceAnswers
<1> HIDE DEF u
<1>4. CASE w.broken = "creds"
  <2>1. ~ScopeDenied(u.err)  BY <1>1, <1>3, <1>4, Results DEF ScopeDenied
  <2> QED  BY <1>4, <2>1 DEF Heals, u
<1>5. CASE w.broken # "creds" /\ Denied(w) /\ u = Err(Wrap("ErrKeyringUnlockScope", w.error))
  <2>1. ~u.ok /\ ScopeDenied(u.err) /\ ScopeDenied(w.error) /\ w.broken = "salts"
    BY <1>1, <1>5, WrapKeeps, Results DEF Denied
  <2> QED  BY <2>1 DEF Heals, u
<1>6. CASE w.broken # "creds" /\ ~Denied(w) /\ w.broken \in {"salts", "user"} /\ u = Err(w.error)
  BY <1>6, Results DEF Heals, Denied, u
<1>7. CASE w.broken \notin {"salts", "user"} /\ KeyMissing(w) /\ u = Err(Plain)
  BY <1>2, <1>7, Results DEF Heals, KeyMissing, u
<1>8. CASE w.broken \notin {"salts", "user"} /\ ~RightPassword(w) /\ u = Locked
  BY <1>2, <1>8, Results DEF Heals, Locked, u
<1>9. CASE w.broken = "addresses" /\ Reached(w) /\ u = Err(w.error)
  BY <1>9, Results DEF Heals, Reached, KeyMissing, u
<1>10. CASE w.broken \notin {"salts", "user", "addresses"} /\ u \in {Locked, Ok(Usable(w))}
  BY <1>2, <1>10, Results DEF Heals, Locked, u
<1> QED  BY <1>3, <1>4, <1>5, <1>6, <1>7, <1>8, <1>9, <1>10, UnlockAnswers

\* Session.Keyrings: a challenge, or what the last unlock answers.
LEMMA KeyringsAnswer ==
  ASSUME NEW w \in Worlds
  PROVE  Keyrings(w) = IF Challenged(w) THEN Err(Mapped) ELSE UnlockOnce(w, LastUnlock(w))
<1> DEFINE u == UnlockOnce(w, w)
<1>1. Keyrings(w) = IF Heals(w) THEN HealScopeDenial(w, u) ELSE u
  <2>1. Heals(w) <=> ~(u.ok \/ ~ScopeDenied(u.err) \/ w.spent)  BY DeniedHeals
  <2> QED  BY <2>1 DEF Keyrings
<1>2. CASE ~Heals(w)
  BY <1>1, <1>2 DEF Challenged, LastUnlock, Retries
<1>3. CASE Heals(w) /\ w.relogin = "logged in"
  BY <1>1, <1>3 DEF Challenged, LastUnlock, Retries, HealScopeDenial
<1>4. CASE Heals(w) /\ w.relogin = "challenged"
  BY <1>1, <1>4 DEF Challenged, LastUnlock, Retries, HealScopeDenial
<1>5. CASE Heals(w) /\ w.relogin = "declined"
  BY <1>1, <1>5 DEF Challenged, LastUnlock, Retries, HealScopeDenial
<1> QED  BY <1>2, <1>3, <1>4, <1>5, WorldsAreGiven

\* How a tool may end with an error: a challenge that was mapped before, what
\* Proton answered the last unlock, with the scope named when it denied the
\* salts, what it answered another request, or a key that is missing or does not
\* open.
EndsRight(w, r) ==
  LET f == LastUnlock(w)
  IN /\ Challenged(w) => ~r.ok /\ r.err = Mapped
     /\ ~Challenged(w) /\ Denied(f) => ~r.ok /\ r.err = Wrap("ErrKeyringUnlockScope", f.error)
     /\ ~Challenged(w) /\ ~Denied(f) /\ f.broken = "salts" => ~r.ok /\ r.err = f.error
     /\ ~Challenged(w) /\ ~Denied(f) /\ ~r.ok =>
          \/ r.err \in {w.error, f.error, Plain, Message, Missing}
          \/ /\ r.err = Sentinel("ErrKeyringLocked")
             /\ w.tool = "get_event" \/ ~RightPassword(w) \/ Usable(w) = {}

\* Whether every unlock that is tried is let through by Proton.
Unlocks(w) == ~Challenged(w) /\ ~Denied(LastUnlock(w)) /\ LastUnlock(w).broken # "salts"

\* A request outside the unlock that fails ends the tool with its error.
LEMMA OtherRequest ==
  ASSUME NEW w, w.broken \notin {"salts", "user", "addresses"}
  PROVE  Unlocks(w) /\ LastUnlock(w) = w
BY DEF Unlocks, Challenged, LastUnlock, Retries, Heals, Denied

LEMMA RequestEnds ==
  ASSUME NEW w, NEW request \in {"message", "event", "sender"}, NEW v, NEW next, EndsRight(w, next)
  PROVE  EndsRight(w, Then(First(<<Fails(w, request), Returns(v)>>), next))
<1>1. CASE w.broken = request
  <2>1. First(<<Fails(w, request), Returns(v)>>) = Err(w.error)  BY <1>1, OneRequest
  <2>2. Then(Err(w.error), next) = Err(w.error)  BY Results DEF Then
  <2>3. EndsRight(w, Err(w.error))  BY <1>1, OtherRequest, Results DEF EndsRight, Unlocks
  <2> QED  BY <2>1, <2>2, <2>3
<1>2. CASE w.broken # request
  <2>1. First(<<Fails(w, request), Returns(v)>>) = Ok(v)  BY <1>2, OneRequest
  <2>2. Then(Ok(v), next) = next  BY Results DEF Then
  <2> QED  BY <2>1, <2>2
<1> QED  BY <1>1, <1>2

\* Session.Client fails with the error of the store or of the refresh, or with
\* one that was mapped before; it is there whenever neither fails.
LEMMA RefreshAnswers ==
  ASSUME NEW w
  PROVE  RefreshFails(w) \in {Ok({}), Err(w.error), Err(Plain)}
<1> DEFINE b1 == Probe(RefreshRejected(w.error) /\ ~w.spent /\ w.relogin = "logged in", Ok({}))
           b2 == Probe(RefreshRejected(w.error) /\ ~w.spent /\ w.relogin = "challenged", Err(Mapped))
           b3 == Probe(Map(w.error).code = "auth_required", Err(Mapped))
           b4 == Probe(TRUE, Err(w.error))
           p == <<b1, b2, b3, b4>>
<1>1. DOMAIN p = 1..4 /\ p[1] = b1 /\ p[2] = b2 /\ p[3] = b3 /\ p[4] = b4 /\ 4 \in Nat \ {0}
  OBVIOUS
<1>2. RefreshFails(w) = First(p)  BY DEF RefreshFails
<1>3. b4.when  BY DEF Probe
<1>4. b1.says = Ok({}) /\ b2.says = Err(Mapped) /\ b3.says = Err(Mapped) /\ b4.says = Err(w.error)
  BY ProbeFields
<1> HIDE DEF p, b1, b2, b3, b4
<1>5. PICK k \in 1..4 : First(p) = p[k].says  BY <1>1, <1>3, FirstAnswers
<1>6. k \in {1, 2, 3, 4}  OBVIOUS
<1> QED  BY <1>1, <1>2, <1>4, <1>5, <1>6 DEF Mapped

LEMMA ClientAnswers ==
  ASSUME NEW w
  PROVE  /\ Client(w) \in {Ok({}), Err(w.error), Err(Plain)}
         /\ w.broken \notin {"load", "refresh"} => Client(w) = Ok({})
<1> DEFINE b1 == Fails(w, "load")
           b2 == Probe(w.broken = "refresh", RefreshFails(w))
           b3 == Returns({})
           p == <<b1, b2, b3>>
<1>1. DOMAIN p = 1..3 /\ p[1] = b1 /\ p[2] = b2 /\ p[3] = b3 /\ 3 \in Nat \ {0}
  OBVIOUS
<1>2. Client(w) = First(p)  BY DEF Client
<1>3. /\ b1.when <=> w.broken = "load"
      /\ b1.says = Err(w.error)
      /\ b2.when <=> w.broken = "refresh"
      /\ b2.says = RefreshFails(w)
      /\ b3.when /\ b3.says = Ok({})
  BY FailsRequest, ReturnsAlways, ProbeFields
<1> HIDE DEF p, b1, b2, b3
<1>4. PICK k \in 1..3 : First(p) = p[k].says /\ p[k].when
  BY <1>1, <1>3, FirstAnswers
<1>5. k \in {1, 2, 3}  OBVIOUS
<1> QED  BY <1>1, <1>2, <1>3, <1>4, <1>5, RefreshAnswers

LEMMA ClientEnds ==
  ASSUME NEW w, NEW next, EndsRight(w, next)
  PROVE  EndsRight(w, Then(Client(w), next))
<1>1. CASE Client(w) = Ok({})  BY <1>1, Results DEF Then
<1>2. CASE Client(w) # Ok({})
  <2>1. w.broken \in {"load", "refresh"}  BY <1>2, ClientAnswers
  <2>2. Client(w) \in {Err(w.error), Err(Plain)}  BY <1>2, ClientAnswers
  <2>3. Unlocks(w)  BY <2>1, OtherRequest
  <2>4. Then(Client(w), next) \in {Err(w.error), Err(Plain)}  BY <2>2, Results DEF Then
  <2> QED  BY <2>3, <2>4, Results DEF EndsRight, Unlocks
<1> QED  BY <1>1, <1>2

\* What follows an unlock matters only when it succeeded.
LEMMA UnlockEnds ==
  ASSUME NEW w \in Worlds, NEW next, Unlocks(w) => EndsRight(w, next)
  PROVE  EndsRight(w, Then(Keyrings(w), next))
<1> DEFINE f == LastUnlock(w)
<1>1. CASE Challenged(w)
  <2>1. Keyrings(w) = Err(Mapped)  BY <1>1, KeyringsAnswer
  <2> QED  BY <1>1, <2>1, Results DEF Then, EndsRight
<1>2. CASE ~Challenged(w) /\ Denied(f)
  <2>1. f.broken = "salts"  BY <1>2 DEF Denied
  <2> HIDE DEF f
  <2>2. Keyrings(w) = Unlock(w, f)  BY <1>2, <2>1, KeyringsAnswer, UnlockOnceAnswers DEF f
  <2>3. Unlock(w, f) = Err(Wrap("ErrKeyringUnlockScope", f.error))  BY <1>2, <2>1, UnlockAnswers
  <2> QED  BY <1>2, <2>2, <2>3, Results DEF Then, EndsRight, f
<1>3. CASE ~Challenged(w) /\ ~Denied(f) /\ f.broken = "salts"
  <2> HIDE DEF f
  <2>2. Keyrings(w) = Unlock(w, f)  BY <1>3, KeyringsAnswer, UnlockOnceAnswers DEF f
  <2>3. Unlock(w, f) = Err(f.error)  BY <1>3, UnlockAnswers
  <2> QED  BY <1>3, <2>2, <2>3, Results DEF Then, EndsRight, f
<1>4. CASE Unlocks(w)
  <2>1. ~Challenged(w) /\ ~Denied(f) /\ f.broken # "salts" /\ EndsRight(w, next)
    BY <1>4 DEF Unlocks
  <2> HIDE DEF f
  <2>2. Keyrings(w) = IF f.broken = "creds" THEN Err(f.error) ELSE Unlock(w, f)
    BY <2>1, KeyringsAnswer, UnlockOnceAnswers DEF f
  <2>3. CASE Keyrings(w) = Ok(Usable(w))  BY <2>1, <2>3, Results DEF Then
  <2>4. CASE Keyrings(w) \in {Err(f.error), Err(Plain)}
    BY <2>1, <2>4, Results DEF Then, EndsRight, f
  <2>5. CASE (~RightPassword(w) \/ NoneOpens(w)) /\ Keyrings(w) = Locked
    BY <2>1, <2>5, Results DEF Then, EndsRight, Locked, NoneOpens, f
  <2> QED  BY <2>1, <2>2, <2>3, <2>4, <2>5, UnlockAnswers
<1> QED  BY <1>1, <1>2, <1>3, <1>4 DEF Unlocks

LEMMA MessageEnds == \A w \in Worlds : EndsRight(w, GetMessageBody(w))
<1> SUFFICES ASSUME NEW w \in Worlds PROVE EndsRight(w, GetMessageBody(w))  OBVIOUS
<1> DEFINE body == DecryptBody(Keyrings(w).value, w.addr, w.body)
<1>1. ASSUME Unlocks(w) PROVE EndsRight(w, body)
  <2>1. body \in {Ok({"text"}), Err(Message)}  BY BodyAnswers DEF Message
  <2> QED  BY <1>1, <2>1, Results DEF EndsRight, Unlocks
<1> HIDE DEF body
<1>2. EndsRight(w, Then(Keyrings(w), body))  BY <1>1, UnlockEnds
<1>3. EndsRight(w, Then(First(<<Fails(w, "message"), Returns({})>>), Then(Keyrings(w), body)))
  BY <1>2, RequestEnds
<1>4. EndsRight(w, Then(Client(w), Then(First(<<Fails(w, "message"), Returns({})>>),
                                        Then(Keyrings(w), body))))
  BY <1>3, ClientEnds
<1> QED  BY <1>4 DEF GetMessageBody, body

LEMMA DraftEnds == \A w \in Worlds : EndsRight(w, SenderKeyRing(w))
<1> SUFFICES ASSUME NEW w \in Worlds PROVE EndsRight(w, SenderKeyRing(w))  OBVIOUS
<1> DEFINE ring == AddressKeyRing(Keyrings(w).value, w.addr)
<1>1. ASSUME Unlocks(w) PROVE EndsRight(w, ring)
  <2>1. ring \in {Ok({w.addr}), Err(Missing)}  BY AddressAnswers DEF Missing
  <2> QED  BY <1>1, <2>1, Results DEF EndsRight, Unlocks
<1> HIDE DEF ring
<1>2. EndsRight(w, Then(Keyrings(w), ring))  BY <1>1, UnlockEnds
<1>3. EndsRight(w, Then(First(<<Fails(w, "sender"), Returns({})>>), Then(Keyrings(w), ring)))
  BY <1>2, RequestEnds
<1>4. EndsRight(w, Then(Client(w), Then(First(<<Fails(w, "sender"), Returns({})>>),
                                        Then(Keyrings(w), ring))))
  BY <1>3, ClientEnds
<1> QED  BY <1>4 DEF SenderKeyRing, ring

LEMMA EventEnds == \A w \in Worlds : w.tool = "get_event" => EndsRight(w, GetEvent(w))
<1> SUFFICES ASSUME NEW w \in Worlds, w.tool = "get_event" PROVE EndsRight(w, GetEvent(w))  OBVIOUS
<1> DEFINE calendar == ResolveKeyring(w, Keyrings(w).value)
           ics == DecryptSharedICS(w)
           parsed == ParseICS(ics.value)
           event == Then(First(<<Fails(w, "event"), Returns({})>>), Then(ics, parsed))
<1>1. ASSUME Unlocks(w) PROVE EndsRight(w, Then(calendar, event))
  <2>1. EndsRight(w, Then(ics, parsed))
    <3>1. ics \in {Ok(w.parts), Err(Plain)}  BY PartsAnswer
    <3>2. parsed.ok \/ parsed.err = Plain  BY Results DEF ParseICS
    <3> HIDE DEF ics, parsed
    <3>3. Then(ics, parsed) \in {Err(Plain), parsed}  BY <3>1, Results DEF Then
    <3> QED  BY <1>1, <3>2, <3>3, Results DEF EndsRight, Unlocks
  <2> HIDE DEF ics, parsed
  <2>2. EndsRight(w, event)  BY <2>1, RequestEnds
  <2> HIDE DEF event
  <2>3. calendar \in {Err(w.error), Locked} \/ calendar.ok  BY ResolveAnswers, Results
  <2> HIDE DEF calendar
  <2> QED  BY <1>1, <2>2, <2>3, Results DEF Then, EndsRight, Locked, Unlocks
<1> HIDE DEF calendar, event
<1>2. EndsRight(w, Then(Keyrings(w), Then(calendar, event)))  BY <1>1, UnlockEnds
<1>3. Then(CalendarKeyring(w), event) = Then(Keyrings(w), Then(calendar, event))
  BY DEF CalendarKeyring, Then, calendar
<1>4. EndsRight(w, Then(Client(w), Then(CalendarKeyring(w), event)))
  BY <1>2, <1>3, ClientEnds
<1> QED  BY <1>4 DEF GetEvent, event

LEMMA ResultEnds ==
  ASSUME NEW w \in Worlds
  PROVE  EndsRight(w, Result(w))
<1>1. CASE w.tool = "get_message"  BY <1>1, MessageEnds DEF Result
<1>2. CASE w.tool = "get_event"  BY <1>2, EventEnds DEF Result
<1>3. CASE w.tool = "create_draft"  BY <1>3, DraftEnds DEF Result
<1> QED  BY <1>1, <1>2, <1>3, WorldsAreGiven

LEMMA StatusCodes ==
  ASSUME NEW status, NEW http
  PROVE  /\ mapStatus(status, http).code \in {"auth_required", "plan_required", "permission_denied", "not_found",
                                              "conflict", "validation", "rate_limited", "upstream"}
         /\ mapStatus(status, http).code = mapStatus(status, NoHttp).code
         /\ mapStatus(status, http).retry # 0 => mapStatus(status, http).code = "rate_limited"
<1>1. CASE status \in DOMAIN CodeOfStatus
  <2>1. \A h : /\ mapStatus(status, h).code = CodeOfStatus[status]
               /\ mapStatus(status, h).retry = IF status = 429 THEN RetryAfterSeconds(h) ELSE 0
    BY <1>1 DEF mapStatus, Says
  <2>2. CodeOfStatus[status] \in {"auth_required", "plan_required", "permission_denied", "not_found",
                                  "conflict", "validation", "rate_limited"}
    BY <1>1 DEF CodeOfStatus
  <2>3. status = 429 => CodeOfStatus[status] = "rate_limited"  BY <1>1 DEF CodeOfStatus
  <2> QED  BY <2>1, <2>2, <2>3
<1>2. CASE status \notin DOMAIN CodeOfStatus
  <2>1. \A h : mapStatus(status, h) = Says("upstream")  BY <1>2 DEF mapStatus
  <2>2. Says("upstream").code = "upstream" /\ Says("upstream").retry = 0  BY DEF Says
  <2> QED  BY <2>1, <2>2
<1> QED  BY <1>1, <1>2

LEMMA MapCodes ==
  \A e : /\ Map(e).code # "ok"
         /\ Map(e).retry # 0 => Map(e).code = "rate_limited"
         /\ Map(e).code = "keyring_unlock_scope" <=> ScopeTagged(e)
         /\ Map(e).code = "keyring_locked" => "ErrKeyringLocked" \in e.tags
<1> SUFFICES ASSUME NEW e
             PROVE  /\ Map(e).code # "ok"
                    /\ Map(e).retry # 0 => Map(e).code = "rate_limited"
                    /\ Map(e).code = "keyring_unlock_scope" <=> ScopeTagged(e)
                    /\ Map(e).code = "keyring_locked" => "ErrKeyringLocked" \in e.tags
  OBVIOUS
<1>1. \A c : Says(c).code = c /\ Says(c).retry = 0  BY DEF Says
<1>2. CASE ScopeTagged(e)
  <2>1. Map(e) = Says("keyring_unlock_scope")  BY <1>2, MapAnswers DEF Local
  <2> QED  BY <1>1, <1>2, <2>1
<1>3. CASE /\ ~ScopeTagged(e)
           /\ Map(e) \in {Says("2fa_rejected"), Says("captcha"), Says("upstream"), Says("auth_required"),
                          Says("body_undecryptable"), Says("address_keyring_missing")}
  BY <1>1, <1>3
<1>4. CASE ~ScopeTagged(e) /\ \E s, h : Map(e) = mapStatus(s, h)
  <2>1. PICK s, h : Map(e) = mapStatus(s, h)  BY <1>4
  <2> QED  BY <1>4, <2>1, StatusCodes
<1>5. CASE ~ScopeTagged(e) /\ "ErrKeyringLocked" \in e.tags /\ Map(e) = Says("keyring_locked")
  BY <1>1, <1>5
<1> QED  BY <1>2, <1>3, <1>4, <1>5, MapAnswers

\* What a run of a decrypting tool reports is EndsRight, read through Map.
LEMMA Diagnosis ==
  ASSUME NEW w \in Worlds, ~Result(w).ok
  PROVE  LET code == Map(Result(w).err).code
             last == LastUnlock(w)
         IN /\ code = "keyring_unlock_scope" <=> Denied(last) /\ ~Challenged(w)
            /\ code = "keyring_locked" /\ RightPassword(w) /\ Usable(w) # {} => w.tool = "get_event"
            /\ last.broken = "salts" /\ last.error.net => code = "upstream"
<1> DEFINE err == Result(w).err
           f == LastUnlock(w)
<1>1. EndsRight(w, Result(w))  BY ResultEnds
<1>2. w.error \in RequestErrors /\ f.error \in RequestErrors  BY WorldsAreGiven DEF LastUnlock
<1> HIDE DEF f
<1>3. ASSUME NEW e \in RequestErrors
      PROVE  /\ "ErrKeyringUnlockScope" \notin e.tags /\ "ErrKeyringLocked" \notin e.tags
             /\ e.net => e = Transport
  BY <1>3 DEF RequestErrors, Transport, Plain, Chain
<1>4. /\ Plain.tags = {} /\ Mapped.tags = {} /\ Message.tags = {"ErrBodyUndecryptable"}
      /\ Missing.tags = {"ErrAddressKeyringMissing"}
      /\ Sentinel("ErrKeyringLocked").tags = {"ErrKeyringLocked"}
  BY DEF Plain, Chain, Mapped, Message, Missing, Sentinel
<1>5. "ErrKeyringUnlockScope" \in Wrap("ErrKeyringUnlockScope", f.error).tags
      /\ "ErrKeyringLocked" \notin Wrap("ErrKeyringUnlockScope", f.error).tags
  BY <1>2, <1>3 DEF Wrap, RequestErrors, Transport, Plain, Chain
<1>6. ScopeTagged(err) <=> Denied(f) /\ ~Challenged(w)
  BY <1>1, <1>2, <1>3, <1>4, <1>5 DEF EndsRight, ScopeTagged, f
<1>7. "ErrKeyringLocked" \in err.tags => w.tool = "get_event" \/ ~RightPassword(w) \/ Usable(w) = {}
  BY <1>1, <1>2, <1>3, <1>4, <1>5 DEF EndsRight, f
<1>8. ASSUME f.broken = "salts", f.error.net PROVE Map(err).code = "upstream"
  <2>1. f.error = Transport  BY <1>2, <1>3, <1>8
  <2>2. ~Denied(f)  BY <2>1 DEF Denied, ScopeDenied, Transport, Plain, Chain, NoApi
  <2>3. err \in {Transport, Plain}
    BY <1>1, <1>8, <2>1, <2>2 DEF EndsRight, f, Mapped
  <2>4. /\ Transport.tags = {} /\ ~Transport.api.present /\ ~Transport.http.present
        /\ Plain.tags = {} /\ ~Plain.api.present /\ ~Plain.http.present
    BY DEF Transport, Plain, Chain, NoApi, NoHttp
  <2>5. Map(Transport) = Says("upstream") /\ Map(Plain) = Says("upstream")
    BY <2>4, MapAnswers DEF ScopeTagged, ApiAnswered
  <2> QED  BY <2>3, <2>5 DEF Says
<1> QED  BY <1>6, <1>7, <1>8, MapCodes DEF f

\* Nothing that Proton or a key of the account refuses, after a login that heals
\* where the first unlock was denied.
Served(w) == w.broken = "none" \/ (Retries(w) /\ w.again.broken = "none")
Opens(w) == Served(w) /\ RightPassword(w) /\ w.primary /\ w.salt

LEMMA OnlyUnlockFails ==
  ASSUME NEW w, Served(w)
  PROVE  /\ w.broken \in {"none", "salts", "user", "addresses"}
         /\ ~Challenged(w) /\ LastUnlock(w).broken = "none"
BY DEF Served, Retries, Heals, Challenged, LastUnlock

LEMMA UnlockOpens ==
  ASSUME NEW w \in Worlds, Opens(w), NEW a \in Usable(w)
  PROVE  Keyrings(w) = Ok(Usable(w))
<1> DEFINE f == LastUnlock(w)
<1>1. ~Challenged(w) /\ f.broken = "none"  BY OnlyUnlockFails DEF Opens
<1> HIDE DEF f
<1>2. Keyrings(w) = Unlock(w, f)  BY <1>1, KeyringsAnswer, UnlockOnceAnswers DEF f
<1>3. ~Denied(f) /\ ~KeyMissing(w) /\ ~NoneOpens(w) /\ RightPassword(w)
  BY <1>1 DEF Opens, Denied, KeyMissing, NoneOpens
<1> QED  BY <1>1, <1>2, <1>3, UnlockAnswers

LEMMA RequestAnswered ==
  ASSUME NEW w, NEW request, w.broken # request, NEW v, NEW next
  PROVE  Then(First(<<Fails(w, request), Returns(v)>>), next) = next
BY OneRequest, Results DEF Then

LEMMA ClientAnswered ==
  ASSUME NEW w, w.broken \notin {"load", "refresh"}, NEW next
  PROVE  Then(Client(w), next) = next
BY ClientAnswers, Results DEF Then

LEMMA OneKey ==
  ASSUME NEW w \in Worlds, Opens(w)
  PROVE  /\ w.tool = "get_message" /\ w.addr \in Usable(w) /\ w.body = "sealed" => Result(w).ok
         /\ w.tool = "create_draft" /\ w.addr \in Usable(w) => Result(w).ok
         /\ w.tool = "get_event" /\ w.calendarKeys /\ w.parts = <<"sealed">>
              /\ (\E i \in DOMAIN w.members : Matches(Usable(w), w.members[i])) => Result(w).ok
<1>0. w.broken \in {"none", "salts", "user", "addresses"}  BY OnlyUnlockFails DEF Opens
<1>1. ASSUME w.tool = "get_message", w.addr \in Usable(w), w.body = "sealed" PROVE Result(w).ok
  <2>1. Keyrings(w) = Ok(Usable(w))  BY <1>1, UnlockOpens
  <2>2. DecryptBody(Keyrings(w).value, w.addr, w.body) = Ok({"text"})  BY <1>1, <2>1, BodyAnswers, Results
  <2>3. GetMessageBody(w) = Then(Keyrings(w), DecryptBody(Keyrings(w).value, w.addr, w.body))
    BY <1>0, RequestAnswered, ClientAnswered DEF GetMessageBody
  <2>4. GetMessageBody(w) = Ok({"text"})  BY <2>1, <2>2, <2>3, Results DEF Then
  <2> QED  BY <1>1, <2>4, Results DEF Result
<1>2. ASSUME w.tool = "create_draft", w.addr \in Usable(w) PROVE Result(w).ok
  <2>1. Keyrings(w) = Ok(Usable(w))  BY <1>2, UnlockOpens
  <2>2. AddressKeyRing(Keyrings(w).value, w.addr) = Ok({w.addr})  BY <1>2, <2>1, AddressAnswers, Results
  <2>3. SenderKeyRing(w) = Then(Keyrings(w), AddressKeyRing(Keyrings(w).value, w.addr))
    BY <1>0, RequestAnswered, ClientAnswered DEF SenderKeyRing
  <2>4. SenderKeyRing(w) = Ok({w.addr})  BY <2>1, <2>2, <2>3, Results DEF Then
  <2> QED  BY <1>2, <2>4, Results DEF Result
<1>3. ASSUME w.tool = "get_event", w.calendarKeys, w.parts = <<"sealed">>,
             \E i \in DOMAIN w.members : Matches(Usable(w), w.members[i])
      PROVE  Result(w).ok
  <2>1. Keyrings(w) = Ok(Usable(w)) /\ Passphrase(w, Usable(w))
    <3>1. PICK i \in DOMAIN w.members : Matches(Usable(w), w.members[i])  BY <1>3
    <3>2. w.members[i].addr \in Usable(w)  BY <3>1 DEF Matches
    <3> QED  BY <1>3, <3>2, UnlockOpens DEF Passphrase
  <2>2. ResolveKeyring(w, Usable(w)) = Ok(Usable(w))  BY <1>0, <1>3, <2>1, ResolveAnswers
  <2>3. CalendarKeyring(w) = Ok(Usable(w))  BY <2>1, <2>2, Results DEF CalendarKeyring, Then
  <2>4. DecryptSharedICS(w) = Ok(<<"sealed">>)
    <3>1. "broken" \notin {w.parts[i] : i \in DOMAIN w.parts}  BY <1>3
    <3> QED  BY <1>3, <3>1, PartsAnswer
  <2>5. ParseICS(<<"sealed">>).ok
    <3>1. <<"sealed">> # <<>> /\ <<"sealed">>[1] # "blank"  OBVIOUS
    <3> QED  BY <3>1, Results DEF ParseICS
  <2>6. GetEvent(w) = ParseICS(<<"sealed">>)
    <3>1. GetEvent(w) = Then(CalendarKeyring(w), Then(DecryptSharedICS(w), ParseICS(DecryptSharedICS(w).value)))
      BY <1>0, RequestAnswered, ClientAnswered DEF GetEvent
    <3> QED  BY <2>3, <2>4, <3>1, Results DEF Then
  <2> QED  BY <1>3, <2>5, <2>6 DEF Result
<1> QED  BY <1>1, <1>2, <1>3

-----------------------------------------------------------------------------
(***************************************************************************)
(* A direct call, the status command, the log.                             *)
(***************************************************************************)
Refused(r) == r.json /\ (r.error \/ r.code \notin {0, 1000})

LEMMA RawAnswers ==
  ASSUME NEW name, NEW id, NEW r
  PROVE  \/ ~ValidPathID(id) /\ RawResult(name, id, r) = Map(Plain)
         \/ RawResult(name, id, r) = Map(RawError(r))
         \/ r.net /\ ~(r.status >= 400) /\ ~Refused(r) /\ RawResult(name, id, r) = Says("ok")
<1> DEFINE b1 == Probe(Endpoints[name].id /\ ~ValidPathID(id), Map(Plain))
           b2 == Probe(~r.net \/ r.status >= 400, Map(RawError(r)))
           b3 == Probe(Refused(r), Map(RawError(r)))
           b4 == Probe(Endpoints[name].body /\ ~r.shape, Map(RawError(r)))
           b5 == Probe(TRUE, Says("ok"))
           p == <<b1, b2, b3, b4, b5>>
<1>1. /\ DOMAIN p = 1..5 /\ p[1] = b1 /\ p[2] = b2 /\ p[3] = b3 /\ p[4] = b4 /\ p[5] = b5
  OBVIOUS
<1>2. RawResult(name, id, r) = First(p)  BY DEF RawResult, Refused
<1>3. /\ b1.when => ~ValidPathID(id)
      /\ b2.when <=> ~r.net \/ r.status >= 400
      /\ b3.when <=> Refused(r)
      /\ b5.when
  BY DEF Probe
<1>4. /\ b1.says = Map(Plain) /\ b2.says = Map(RawError(r)) /\ b3.says = Map(RawError(r))
      /\ b4.says = Map(RawError(r)) /\ b5.says = Says("ok")
  BY ProbeFields
<1>5. 5 \in Nat \ {0}  OBVIOUS
<1> HIDE DEF p, b1, b2, b3, b4, b5
<1>6. PICK k \in 1..5 : First(p) = p[k].says /\ p[k].when /\ \A j \in 1..(k - 1) : ~p[j].when
  BY <1>1, <1>3, <1>5, FirstAnswers
<1>7. CASE k = 1  BY <1>1, <1>2, <1>3, <1>4, <1>6, <1>7
<1>8. CASE k \in 2..4  BY <1>1, <1>2, <1>4, <1>6, <1>8
<1>9. CASE k = 5
  <2>1. 2 \in 1..(k - 1) /\ 3 \in 1..(k - 1)  BY <1>9
  <2> QED  BY <1>1, <1>2, <1>3, <1>4, <1>6, <1>9, <2>1
<1> QED  BY <1>7, <1>8, <1>9

LEMMA ApiErrorMaps ==
  ASSUME NEW status, status # 0, NEW code
  PROVE  Map(ApiError(status, code)) = mapStatus(status, NoHttp)
<1> DEFINE f == ApiError(status, code)
<1>1. f.tags = {} /\ f.api.present /\ ~f.api.hv /\ f.api.status = status
  BY DEF ApiError, Api, Plain, Chain
<1> HIDE DEF f
<1>2. Map(f) = mapStatus(status, NoHttp)  BY <1>1, MapAnswers DEF ScopeTagged, ApiAnswered, Local
<1> QED  BY <1>2 DEF f

LEMMA CaptchaMaps ==
  ASSUME NEW status, status # 0
  PROVE  Map([Plain EXCEPT !.api = Captcha(status)]) = Says("captcha")
<1> DEFINE f == [Plain EXCEPT !.api = Captcha(status)]
<1>1. f.tags = {} /\ f.api.present /\ f.api.hv /\ f.api.status = status
  BY DEF Captcha, Api, Plain, Chain
<1> HIDE DEF f
<1>2. Map(f) = Says("captcha")  BY <1>1, MapAnswers DEF ScopeTagged, ApiAnswered, Local
<1> QED  BY <1>2 DEF f

\* What the library makes of a refusal: human verification, or its status.
LEMMA LibraryMaps ==
  ASSUME NEW r, r.status # 0
  PROVE  LET library == Map(LibraryError(r)).code
             ofStatus == mapStatus(r.status, NoHttp).code
         IN (IF library = "captcha" THEN ofStatus ELSE library) = ofStatus
<1>1. CASE r.json /\ r.code = 9001
  <2>1. LibraryError(r) = [Plain EXCEPT !.api = Captcha(r.status)]  BY <1>1 DEF LibraryError
  <2>2. Says("captcha").code = "captcha"  BY DEF Says
  <2> QED  BY <2>1, <2>2, CaptchaMaps
<1>2. CASE ~(r.json /\ r.code = 9001)
  <2>1. LibraryError(r) = ApiError(r.status, IF r.json THEN r.code ELSE 0)  BY <1>2 DEF LibraryError
  <2> QED  BY <2>1, ApiErrorMaps
<1> QED  BY <1>1, <1>2

LEMMA Refusals ==
  ASSUME NEW name, NEW id, NEW r
  PROVE  LET says == RawResult(name, id, r)
             library == Map(LibraryError(r)).code
         IN /\ r.net /\ r.status >= 400 /\ id = "plain" =>
                 says.code = IF library = "captcha" THEN Map(ApiError(r.status, 0)).code ELSE library
            /\ Refused(r) => says.code # "ok"
            /\ says.retry # 0 => says.code = "rate_limited"
<1>1. ASSUME r.net, r.status >= 400, id = "plain"
      PROVE  /\ RawResult(name, id, r).code = mapStatus(r.status, NoHttp).code
             /\ r.status # 0
  <2>1. RawResult(name, id, r) = Map(RawError(r))  BY <1>1, RawAnswers DEF ValidPathID
  <2> DEFINE e == RawError(r)
             h == Http(r.status, r.retryAfter)
  <2>2. e.tags = {} /\ ~e.api.present /\ e.http = h /\ e.http.present /\ e.http.status = r.status
    BY <1>1 DEF RawError, Plain, Chain, NoApi, Http
  <2>3. r.status # 0
    <3>1. ~(0 >= 400)  OBVIOUS
    <3> QED  BY <1>1, <3>1
  <2> HIDE DEF e
  <2>4. Map(e) = mapStatus(r.status, h)
    BY <2>2, MapAnswers DEF ScopeTagged, ApiAnswered, Local
  <2> QED  BY <2>1, <2>3, <2>4, StatusCodes DEF e
<1>2. ASSUME Refused(r) PROVE RawResult(name, id, r).code # "ok"
  BY <1>2, RawAnswers, MapCodes
<1>3. ASSUME RawResult(name, id, r).retry # 0 PROVE RawResult(name, id, r).code = "rate_limited"
  <2>1. Says("ok").retry = 0  BY DEF Says
  <2> QED  BY <1>3, <2>1, RawAnswers, MapCodes
<1> QED  BY <1>1, <1>2, <1>3, LibraryMaps, ApiErrorMaps

LEMMA StatusTrue ==
  ASSUME NEW s \in StatusRuns, NEW b \in DOMAIN s.stores \ {s.backend}
  PROVE  LET says == RunStatus(s).says
         IN /\ says = "not logged in" => s.stores[b] \in {"empty", "none"}
            /\ says = "other backend has a session" => s.stores[b] = "session"
            /\ says = "other backend unreadable" => s.stores[b] = "unreadable"
<1>0. s \in [backend: Backends \cup {"other"}, client: BOOLEAN, user: BOOLEAN, degraded: BOOLEAN,
             stores: [Backends -> {"empty", "session", "unreadable", "none"}]]
  BY AlgorithmsAssumption
<1> DEFINE code == IF s.degraded THEN 3 ELSE 0
           b1 == Probe(s.backend = "other" \/ s.stores[s.backend] = "none", [says |-> "", code |-> 1])
           b2 == Probe(~s.client, [says |-> WriteNotLoggedIn(s), code |-> code])
           b3 == Probe(~s.user, [says |-> "", code |-> 1])
           b4 == Probe(TRUE, [says |-> "logged in", code |-> code])
           p == <<b1, b2, b3, b4>>
<1>1. /\ DOMAIN p = 1..4 /\ p[1] = b1 /\ p[2] = b2 /\ p[3] = b3 /\ p[4] = b4 /\ 4 \in Nat \ {0}
  OBVIOUS
<1>2. RunStatus(s) = First(p)  BY DEF RunStatus
<1>3. b4.when /\ (b1.when <=> s.backend = "other" \/ s.stores[s.backend] = "none")  BY DEF Probe
<1>4. /\ b1.says.says = "" /\ b3.says.says = ""
      /\ b2.says.says = WriteNotLoggedIn(s) /\ b4.says.says = "logged in"
  <2> HIDE DEF code
  <2> QED  BY DEF Probe
<1> HIDE DEF p, b1, b2, b3, b4, code
<1>5. PICK k \in 1..4 : First(p) = p[k].says /\ p[k].when /\ \A j \in 1..(k - 1) : ~p[j].when
  BY <1>1, <1>3, FirstAnswers
<1>6. CASE k \in {1, 3, 4}
  <2>1. RunStatus(s).says \in {"", "logged in"}  BY <1>1, <1>2, <1>4, <1>5, <1>6
  <2> QED  BY <2>1
<1>7. CASE k = 2
  <2>1. 1 \in 1..(k - 1)  BY <1>7
  <2>2. s.backend \in Backends  BY <1>0, <1>1, <1>3, <1>5, <2>1
  <2>3. RunStatus(s).says = WriteNotLoggedIn(s)  BY <1>1, <1>2, <1>4, <1>5, <1>7
  <2>4. b = IF s.backend = "file" THEN "keychain" ELSE "file"  BY <1>0, <2>2 DEF Backends
  <2>5. s.stores[b] \in {"empty", "session", "unreadable", "none"}  BY <1>0
  <2>6. ProbeOtherBackend(s) = ProbeBackend(s.stores[b])  BY <2>4 DEF ProbeOtherBackend
  <2>7. CASE s.stores[b] = "session"
    <3>1. ProbeBackend("session") = "found"  BY DEF ProbeBackend
    <3>2. WriteNotLoggedIn(s) = "other backend has a session"
      BY <2>6, <2>7, <3>1 DEF WriteNotLoggedIn
    <3> QED  BY <2>3, <2>7, <3>2
  <2>8. CASE s.stores[b] = "unreadable"
    <3>1. ProbeBackend("unreadable") = "unreadable"  BY DEF ProbeBackend
    <3>2. WriteNotLoggedIn(s) = "other backend unreadable"
      BY <2>6, <2>8, <3>1 DEF WriteNotLoggedIn
    <3> QED  BY <2>3, <2>8, <3>2
  <2>9. CASE s.stores[b] \in {"empty", "none"}
    <3>1. ProbeBackend("empty") = "absent" /\ ProbeBackend("none") = "absent"  BY DEF ProbeBackend
    <3>2. WriteNotLoggedIn(s) = "not logged in"  BY <2>6, <2>9, <3>1 DEF WriteNotLoggedIn
    <3> QED  BY <2>3, <2>9, <3>2
  <2> QED  BY <2>5, <2>7, <2>8, <2>9
<1>8. k \in {1, 3, 4} \/ k = 2  OBVIOUS
<1> QED  BY <1>6, <1>7, <1>8

\* One leaf: the name stays, the value does where the name is not sensitive.
LEMMA LeafRedacted ==
  ASSUME NEW S, NEW x \in Attribute(S)
  PROVE  /\ RedactLeaf(x).name = x.name /\ RedactLeaf(x).members = x.members
         /\ RedactLeaf(x).value = IF IsSensitive(x.name) THEN "<redacted>" ELSE x.value
BY DEF Attribute, RedactLeaf

LEMMA Redacted ==
  ASSUME NEW a \in LogRecords
  PROVE  LET logged == Leaves(a)
             written == Leaves(RedactAttr(a))
         IN /\ RedactAttr(a).name = a.name /\ DOMAIN written = DOMAIN logged
            /\ \A i \in DOMAIN logged :
                 /\ written[i].name = logged[i].name
                 /\ written[i].value = IF IsSensitive(logged[i].name) THEN "<redacted>"
                                       ELSE logged[i].value
<1>0. a \in Attribute(Seq(Attribute({<<>>})))  BY AlgorithmsAssumption
<1>1. CASE a.members = <<>>
  <2>1. RedactAttr(a) = RedactLeaf(a)  BY <1>1 DEF RedactAttr
  <2>2. /\ RedactLeaf(a).name = a.name /\ RedactLeaf(a).members = <<>>
        /\ RedactLeaf(a).value = IF IsSensitive(a.name) THEN "<redacted>" ELSE a.value
    BY <1>0, <1>1, LeafRedacted
  <2>3. Leaves(RedactAttr(a)) = <<RedactLeaf(a)>> /\ Leaves(a) = <<a>>
    BY <1>1, <2>1, <2>2 DEF Leaves
  <2> QED  BY <2>1, <2>2, <2>3
<1>2. CASE a.members # <<>>
  <2> DEFINE m == [i \in DOMAIN a.members |-> RedactLeaf(a.members[i])]
  <2>1. RedactAttr(a).members = m /\ RedactAttr(a).name = a.name
    BY <1>0, <1>2 DEF RedactAttr, Attribute
  <2> DEFINE n == Len(a.members)
  <2>2. n \in Nat /\ n # 0 /\ a.members \in [1..n -> Attribute({<<>>})]
    <3>1. a.members \in Seq(Attribute({<<>>}))  BY <1>0 DEF Attribute
    <3>2. n # 0  BY <1>2, <3>1, EmptySeq
    <3> QED  BY <3>1, <3>2, LenProperties
  <2>3. m # <<>>
    <3>1. 1 \in DOMAIN m  BY <2>2
    <3>2. DOMAIN <<>> = {}  OBVIOUS
    <3> QED  BY <3>1, <3>2
  <2>4. Leaves(RedactAttr(a)) = m /\ Leaves(a) = a.members  BY <1>2, <2>1, <2>3 DEF Leaves
  <2>5. ASSUME NEW i \in DOMAIN a.members
        PROVE  /\ m[i].name = a.members[i].name
               /\ m[i].value = IF IsSensitive(a.members[i].name) THEN "<redacted>"
                               ELSE a.members[i].value
    <3>1. a.members[i] \in Attribute({<<>>})  BY <2>2, <2>5
    <3> QED  BY <2>5, <3>1, LeafRedacted
  <2>6. DOMAIN m = DOMAIN a.members  OBVIOUS
  <2> HIDE DEF m
  <2> QED  BY <2>1, <2>4, <2>5, <2>6
<1> QED  BY <1>1, <1>2

-----------------------------------------------------------------------------
(***************************************************************************)
(* Loops.  A loop over a sequence is a fold.                               *)
(***************************************************************************)
\* What holds before the first pass and is kept by each holds after the last.
LEMMA LoopInduction ==
  ASSUME NEW n \in Nat, NEW I, 0 \in I, \A k \in 1..n : k - 1 \in I => k \in I
  PROVE  \A k \in 0..n : k \in I
<1> DEFINE S == {k \in 1..n : k \notin I}
<1>1. S = {}
  <2>1. SUFFICES ASSUME S # {} PROVE FALSE  OBVIOUS
  <2>2. S \in SUBSET (1..n)  OBVIOUS
  <2>3. PICK k \in S : \A j \in 1..(k - 1) : j \notin S
    <3> HIDE DEF S
    <3> QED  BY <2>1, <2>2, LeastIndex
  <2>4. k \in 1..n /\ k \notin I  BY <2>3
  <2>5. CASE k = 1  BY <2>4, <2>5
  <2>6. CASE k # 1
    <3>1. k - 1 \in 1..(k - 1) /\ k - 1 \in 1..n  BY <2>4, <2>6
    <3>2. k - 1 \in I  BY <2>3, <3>1
    <3> QED  BY <2>4, <3>2
  <2> QED  BY <2>5, <2>6
<1> QED  BY <1>1

\* The last index of a set of indices.
LEMMA LastIndex ==
  ASSUME NEW n \in Nat, NEW S \in SUBSET (1..n), S # {}
  PROVE  Max(S) \in S /\ \A i \in S : i <= Max(S)
<1> DEFINE R == {j \in 1..n : n + 1 - j \in S}
<1>1. R \in SUBSET (1..n) /\ R # {}
  <2>1. PICK i \in S : TRUE  OBVIOUS
  <2>2. n + 1 - i \in 1..n /\ n + 1 - (n + 1 - i) = i  OBVIOUS
  <2> QED  BY <2>1, <2>2
<1>2. PICK m \in R : \A j \in 1..(m - 1) : j \notin R
  <2> HIDE DEF R
  <2> QED  BY <1>1, LeastIndex
<1> DEFINE x == n + 1 - m
<1>3. x \in S /\ m = n + 1 - x  BY <1>2
<1>4. ASSUME NEW i \in S PROVE x >= i
  <2>1. SUFFICES ASSUME ~(x >= i) PROVE FALSE  OBVIOUS
  <2>2. n + 1 - i \in R /\ n + 1 - i \in 1..(m - 1)  BY <1>3, <2>1
  <2> QED  BY <1>2, <2>2
<1>5. \E y \in S : \A i \in S : y >= i  BY <1>3, <1>4
<1>6. Max(S) \in S /\ \A i \in S : Max(S) >= i  BY <1>5 DEF Max
<1> QED  BY <1>6

\* The initial indices without their last.
LEMMA LastOfInitial ==
  ASSUME NEW k \in Nat \ {0}
  PROVE  Max(1..k) = k /\ (1..k) \ {k} = 1..(k - 1)
<1>1. 1..k \in SUBSET (1..k) /\ k \in 1..k  OBVIOUS
<1>2. Max(1..k) \in 1..k /\ \A i \in 1..k : i <= Max(1..k)  BY <1>1, LastIndex
<1>3. k <= Max(1..k)  BY <1>1, <1>2
<1> QED  BY <1>2, <1>3

\* The function a fold is defined by exists, for a pass G on results in T.
Folds(iter, n, base, G) ==
  iter = [S \in SUBSET (1..n) |->
            IF S = {} THEN base ELSE G[<<iter[S \ {Max(S)}], Max(S)>>]]

\* Such a function exists: one pass after the other builds it, each on the
\* result for the indices below.
LEMMA FoldExists ==
  ASSUME NEW T, NEW base \in T, NEW n \in Nat, NEW G \in [T \X (1..n) -> T]
  PROVE  \E iter \in [SUBSET (1..n) -> T] : Folds(iter, n, base, G)
<1> DEFINE I == {m \in 0..n : \E iter \in [SUBSET (1..m) -> T] : Folds(iter, m, base, G)}
<1>1. 0 \in I
  <2> DEFINE iter == [S \in SUBSET (1..0) |-> base]
  <2>1. 1..0 = {}  OBVIOUS
  <2>2. iter \in [SUBSET (1..0) -> T]  OBVIOUS
  <2>3. Folds(iter, 0, base, G)  BY <2>1 DEF Folds
  <2>4. \E g \in [SUBSET (1..0) -> T] : Folds(g, 0, base, G)
    <3> HIDE DEF iter
    <3> QED  BY <2>2, <2>3
  <2>5. 0 \in 0..n  OBVIOUS
  <2> QED  BY <2>4, <2>5
<1>2. ASSUME NEW m \in 1..n, m - 1 \in I PROVE m \in I
  <2>1. PICK g \in [SUBSET (1..(m - 1)) -> T] : Folds(g, m - 1, base, G)  BY <1>2
  <2> DEFINE iter == [S \in SUBSET (1..m) |-> IF m \in S THEN G[<<g[S \ {m}], m>>] ELSE g[S]]
  <2>2. ASSUME NEW S \in SUBSET (1..m)
        PROVE  /\ m \in S => S \ {m} \in SUBSET (1..(m - 1)) /\ Max(S) = m /\ S # {}
               /\ m \notin S => S \in SUBSET (1..(m - 1)) /\ (S # {} => Max(S) \in S)
    <3>0. m \in Nat  OBVIOUS
    <3>1. CASE m \in S
      <4>1. Max(S) \in S /\ \A i \in S : i <= Max(S)  BY <3>0, <3>1, LastIndex
      <4>2. Max(S) \in 1..m /\ m <= Max(S)  BY <3>1, <4>1
      <4> QED  BY <3>1, <4>2
    <3>2. CASE m \notin S
      <4>1. S # {} => Max(S) \in S  BY <3>0, LastIndex
      <4> QED  BY <3>2, <4>1
    <3> QED  BY <3>1, <3>2
  <2>3. iter \in [SUBSET (1..m) -> T]
    <3>1. ASSUME NEW S \in SUBSET (1..m)
          PROVE  (IF m \in S THEN G[<<g[S \ {m}], m>>] ELSE g[S]) \in T
      <4>1. CASE m \in S
        <5>1. g[S \ {m}] \in T  BY <2>1, <2>2, <4>1
        <5> QED  BY <4>1, <5>1
      <4>2. CASE m \notin S  BY <2>1, <2>2, <4>2
      <4> QED  BY <4>1, <4>2
    <3> QED  BY <3>1
  <2>4. ASSUME NEW S \in SUBSET (1..m)
        PROVE  iter[S] = IF S = {} THEN base ELSE G[<<iter[S \ {Max(S)}], Max(S)>>]
    <3>1. CASE m \in S
      <4>1. S \ {m} \in SUBSET (1..m) /\ m \notin S \ {m}  OBVIOUS
      <4>2. iter[S \ {m}] = g[S \ {m}]  BY <4>1
      <4>3. iter[S] = G[<<g[S \ {m}], m>>]  BY <3>1
      <4> QED  BY <2>2, <3>1, <4>2, <4>3
    <3>2. CASE m \notin S
      <4>1. iter[S] = g[S]  BY <3>2
      <4>2. g[S] = IF S = {} THEN base ELSE G[<<g[S \ {Max(S)}], Max(S)>>]
        BY <2>1, <2>2, <3>2 DEF Folds
      <4>3. S \ {Max(S)} \in SUBSET (1..m) /\ m \notin S \ {Max(S)}  BY <3>2
      <4>4. iter[S \ {Max(S)}] = g[S \ {Max(S)}]  BY <4>3
      <4> HIDE DEF iter
      <4> QED  BY <4>1, <4>2, <4>4
    <3> QED  BY <3>1, <3>2
  <2>5. Folds(iter, m, base, G)
    <3>1. iter = [S \in SUBSET (1..m) |-> iter[S]]  OBVIOUS
    <3> HIDE DEF iter
    <3> QED  BY <2>4, <3>1 DEF Folds
  <2> HIDE DEF iter
  <2> QED  BY <2>3, <2>5
<1>3. n \in I
  <2> HIDE DEF I
  <2>1. n \in 0..n  OBVIOUS
  <2> QED  BY <1>1, <1>2, <2>1, LoopInduction
<1> QED  BY <1>3

\* The results for the initial parts of a sequence are the states of its loop.
Passes(iter, n, base, G, T) ==
  /\ iter[{}] = base
  /\ \A S \in SUBSET (1..n) : S # {} /\ iter[S \ {Max(S)}] \in T =>
                                iter[S] = G[<<iter[S \ {Max(S)}], Max(S)>>]

\* A loop from base that ends with last.
Loops(T, n, base, last, G) ==
  \E loop \in [0..n -> T] : /\ loop[0] = base /\ loop[n] = last
                            /\ \A k \in 1..n : loop[k] = G[<<loop[k - 1], k>>]

\* The loop that a fold runs.
LEMMA LoopOf ==
  ASSUME NEW T, NEW base \in T, NEW n \in Nat, NEW G \in [T \X (1..n) -> T],
         NEW iter, Passes(iter, n, base, G, T)
  PROVE  Loops(T, n, base, iter[1..n], G)
<1> DEFINE loop == [k \in 0..n |-> iter[1..k]]
           I == {k \in 0..n : loop[k] \in T}
<1>1. loop[0] = base /\ loop[n] = iter[1..n]
  <2>1. 1..0 = {}  OBVIOUS
  <2> QED  BY <2>1 DEF Passes
<1>2. ASSUME NEW k \in 1..n, loop[k - 1] \in T PROVE loop[k] = G[<<loop[k - 1], k>>]
  <2>1. k \in 1..k /\ 1..k \in SUBSET (1..n) /\ k - 1 \in 0..n /\ k \in 0..n  OBVIOUS
  <2>2. Max(1..k) = k /\ (1..k) \ {k} = 1..(k - 1)  BY LastOfInitial
  <2>3. loop[k - 1] = iter[1..(k - 1)] /\ loop[k] = iter[1..k]  BY <2>1
  <2>4. 1..k # {}  BY <2>1
  <2> HIDE DEF loop
  <2> QED  BY <1>2, <2>1, <2>2, <2>3, <2>4 DEF Passes
<1>3. \A k \in 0..n : loop[k] \in T
  <2>1. 0 \in I
    <3>1. 0 \in 0..n  OBVIOUS
    <3> HIDE DEF loop
    <3> QED  BY <1>1, <3>1
  <2>2. ASSUME NEW k \in 1..n, k - 1 \in I PROVE k \in I
    <3>1. k \in 0..n /\ loop[k - 1] \in T /\ <<loop[k - 1], k>> \in T \X (1..n)  BY <2>2
    <3>2. loop[k] = G[<<loop[k - 1], k>>]  BY <1>2, <3>1
    <3> HIDE DEF loop
    <3> QED  BY <3>1, <3>2
  <2> HIDE DEF I
  <2>3. \A k \in 0..n : k \in I  BY <2>1, <2>2, LoopInduction
  <2> QED  BY <2>3 DEF I
<1>4. loop \in [0..n -> T]  BY <1>3
<1> HIDE DEF loop
<1>5. \A k \in 1..n : k - 1 \in 0..n  OBVIOUS
<1> QED  BY <1>1, <1>2, <1>3, <1>4, <1>5 DEF Loops

\* The hook on every response of the call, the first first (auth2fa_capture.go).
LEMMA HookLoop ==
  ASSUME NEW T, NoAuth \in T, NEW n \in Nat, NEW s, DOMAIN s = 1..n,
         \A t \in T, k \in 1..n : Hook(t, s[k]) \in T
  PROVE  \E loop \in [0..n -> T] : /\ loop[0] = NoAuth /\ loop[n] = Captured(s)
                                   /\ \A k \in 1..n : loop[k] = Hook(loop[k - 1], s[k])
<1> DEFINE G == [p \in T \X (1..n) |-> Hook(p[1], s[p[2]])]
           Pass(iter) == [S \in SUBSET DOMAIN s |->
                            IF S = {} THEN NoAuth ELSE Hook(iter[S \ {Max(S)}], s[Max(S)])]
           iter == CHOOSE iter : iter = Pass(iter)
<1>1. Captured(s) = iter[1..n]  BY DEF Captured, FoldLeft, MapThenFoldSet
<1> HIDE DEF Hook
<1>2. G \in [T \X (1..n) -> T] /\ \A t \in T, k \in 1..n : G[<<t, k>>] = Hook(t, s[k])  OBVIOUS
<1> HIDE DEF G
<1>3. \A S \in SUBSET (1..n) : S # {} => Max(S) \in 1..n  BY LastIndex
<1>4. iter = Pass(iter)
  <2>1. PICK g \in [SUBSET (1..n) -> T] : Folds(g, n, NoAuth, G)  BY <1>2, FoldExists
  <2>2. g = Pass(g)  BY <1>2, <1>3, <2>1 DEF Folds
  <2> QED  BY <2>2
<1> HIDE DEF iter
<1>5. Passes(iter, n, NoAuth, G, T)  BY <1>2, <1>3, <1>4 DEF Passes
<1>6. PICK loop \in [0..n -> T] : /\ loop[0] = NoAuth /\ loop[n] = iter[1..n]
                                  /\ \A k \in 1..n : loop[k] = G[<<loop[k - 1], k>>]
  <2>1. Loops(T, n, NoAuth, iter[1..n], G)  BY <1>2, <1>5, LoopOf
  <2> QED  BY <2>1 DEF Loops
<1>7. ASSUME NEW k \in 1..n PROVE loop[k] = Hook(loop[k - 1], s[k])
  <2>1. k - 1 \in 0..n  BY <1>7
  <2>2. loop[k - 1] \in T  BY <1>6, <2>1
  <2> QED  BY <1>2, <1>6, <2>2
<1> QED  BY <1>1, <1>6, <1>7

\* The tokens of a response, from whichever shape has one.
LEMMA BodyParsed ==
  ASSUME NEW r
  PROVE  /\ ParseAuth2FABody(r).ok <=> HasTokenField(r.wrapped) \/ HasTokenField(r.flat)
         /\ ParseAuth2FABody(r).ok => HasTokenField(ParseAuth2FABody(r).auth)
         /\ ParseAuth2FABody(r).auth \in {r.wrapped, r.flat, NoAuth}
<1> DEFINE b1 == Probe(HasTokenField(r.wrapped), [ok |-> TRUE, auth |-> r.wrapped])
           b2 == Probe(HasTokenField(r.flat), [ok |-> TRUE, auth |-> r.flat])
           b3 == Probe(TRUE, [ok |-> FALSE, auth |-> NoAuth])
           p == <<b1, b2, b3>>
<1>1. DOMAIN p = 1..3 /\ p[1] = b1 /\ p[2] = b2 /\ p[3] = b3 /\ 3 \in Nat \ {0}  OBVIOUS
<1>2. ParseAuth2FABody(r) = First(p)  BY DEF ParseAuth2FABody
<1>3. /\ b1.when <=> HasTokenField(r.wrapped)
      /\ b2.when <=> HasTokenField(r.flat)
      /\ b3.when
  BY DEF Probe
<1>4. /\ b1.says.ok /\ b1.says.auth = r.wrapped
      /\ b2.says.ok /\ b2.says.auth = r.flat
      /\ ~b3.says.ok /\ b3.says.auth = NoAuth
  BY DEF Probe
<1> HIDE DEF p, b1, b2, b3
<1>5. PICK k \in 1..3 : First(p) = p[k].says /\ p[k].when /\ \A j \in 1..(k - 1) : ~p[j].when
  BY <1>1, <1>3, FirstAnswers
<1>6. CASE k = 1  BY <1>1, <1>2, <1>3, <1>4, <1>5, <1>6
<1>7. CASE k = 2  BY <1>1, <1>2, <1>3, <1>4, <1>5, <1>7
<1>8. CASE k = 3
  <2>1. 1 \in 1..(k - 1) /\ 2 \in 1..(k - 1)  BY <1>8
  <2> QED  BY <1>1, <1>2, <1>3, <1>4, <1>5, <1>8, <2>1
<1> QED  BY <1>6, <1>7, <1>8

\* The hook keeps what the last usable response brought.
Brings(r) == r.path = "2fa" /\ r.status = 200 /\ (HasTokenField(r.wrapped) \/ HasTokenField(r.flat))

\* What the hook holds after the call: the last usable response, or nothing.
LEMMA LastCaptured ==
  ASSUME NEW s \in Seq(Response)
  PROVE  LET got == Captured(s)
             good == {i \in DOMAIN s : Brings(s[i])}
         IN /\ good = {} => got = NoAuth
            /\ \A i \in good : (\A j \in good : j <= i) => got = ParseAuth2FABody(s[i]).auth
<1> DEFINE n == Len(s)
           T == [Fields -> STRING] \cup {NoAuth}
           good(k) == {i \in 1..k : Brings(s[i])}
<1>1. n \in Nat /\ DOMAIN s = 1..n /\ \A k \in 1..n : s[k] \in Response
  BY LenProperties, ElementOfSeq
<1>2. NoAuth \in T  OBVIOUS
<1>3. ASSUME NEW t \in T, NEW k \in 1..n PROVE Hook(t, s[k]) \in T
  <2>1. s[k].wrapped \in T /\ s[k].flat \in T  BY <1>1 DEF Response
  <2>2. ParseAuth2FABody(s[k]).auth \in T  BY <1>2, <2>1, BodyParsed
  <2> HIDE DEF T
  <2> QED  BY <2>2 DEF Hook
<1>4. PICK loop \in [0..n -> T] : /\ loop[0] = NoAuth /\ loop[n] = Captured(s)
                                  /\ \A k \in 1..n : loop[k] = Hook(loop[k - 1], s[k])
  <2> HIDE DEF T, n
  <2> QED  BY <1>1, <1>2, <1>3, HookLoop
<1> DEFINE Kept(k) ==
             /\ good(k) = {} => loop[k] = NoAuth
             /\ \A i \in good(k) : (\A j \in good(k) : j <= i) => loop[k] = ParseAuth2FABody(s[i]).auth
           I == {k \in 0..n : Kept(k)}
<1>5. 0 \in I
  <2>1. good(0) = {}  OBVIOUS
  <2> QED  BY <1>1, <1>4, <2>1
<1>6. ASSUME NEW k \in 1..n, k - 1 \in I PROVE k \in I
  <2>1. loop[k] = IF Brings(s[k]) THEN ParseAuth2FABody(s[k]).auth ELSE loop[k - 1]
    BY <1>4, BodyParsed DEF Hook, Brings
  <2>2. k \in Nat /\ k - 1 \in 0..n /\ k \in 0..n  BY <1>1
  <2>3. CASE Brings(s[k])
    <3>1. k \in good(k)  BY <2>2, <2>3
    <3>2. \A i \in good(k) : (\A j \in good(k) : j <= i) => i = k
      <4>1. \A i \in good(k) : i <= k /\ i \in Nat  BY <2>2
      <4> HIDE DEF good
      <4> QED  BY <2>2, <3>1, <4>1
    <3> HIDE DEF good
    <3> QED  BY <2>1, <2>2, <2>3, <3>1, <3>2
  <2>4. CASE ~Brings(s[k])
    <3>1. good(k) = good(k - 1)
      <4>1. good(k - 1) \subseteq good(k)  BY <2>2
      <4>2. \A i \in good(k) : i \in 1..(k - 1)  BY <2>2, <2>4
      <4> QED  BY <4>1, <4>2
    <3>2. Kept(k - 1) /\ loop[k] = loop[k - 1]  BY <1>6, <2>1, <2>4
    <3> HIDE DEF good
    <3> QED  BY <2>2, <3>1, <3>2
  <2> QED  BY <2>3, <2>4
<1>7. n \in I
  <2> HIDE DEF I
  <2>1. n \in 0..n  BY <1>1
  <2> QED  BY <1>1, <1>5, <1>6, <2>1, LoopInduction
<1> QED  BY <1>1, <1>4, <1>7

\* The tokens after two-factor are those of that response, and an empty one is
\* taken from before.
LEMMA TokensKept ==
  ASSUME NEW x \in TwoFactors
  PROVE  LET good == {i \in DOMAIN x.responses : Brings(x.responses[i])}
             last == CHOOSE i \in good : \A j \in good : j <= i
             auth == IF good = {} THEN NoAuth ELSE ParseAuth2FABody(x.responses[last]).auth
         IN \A f \in Fields : AfterTwoFactor(x.base, x.responses)[f]
                               = IF auth[f] = "" THEN x.base[f] ELSE auth[f]
<1> DEFINE s == x.responses
           good == {i \in DOMAIN s : Brings(s[i])}
           last == CHOOSE i \in good : \A j \in good : j <= i
           auth == IF good = {} THEN NoAuth ELSE ParseAuth2FABody(s[last]).auth
<1>1. s \in Seq(Response) /\ x.base \in [Fields -> STRING]  BY AlgorithmsAssumption
<1>2. good # {} => last \in good /\ \A j \in good : j <= last
  <2>1. SUFFICES ASSUME good # {} PROVE \E i \in good : \A j \in good : j <= i  OBVIOUS
  <2>2. Len(s) \in Nat /\ good \in SUBSET (1..Len(s))  BY <1>1, LenProperties
  <2> HIDE DEF good
  <2> QED  BY <2>1, <2>2, LastIndex
<1>3. Captured(s) = auth
  <2>1. /\ good = {} => Captured(s) = NoAuth
        /\ \A i \in good : (\A j \in good : j <= i) => Captured(s) = ParseAuth2FABody(s[i]).auth
    BY <1>1, LastCaptured
  <2> HIDE DEF good, last, s
  <2> QED  BY <1>2, <2>1
<1>4. good # {} => HasTokenField(auth)
  <2>1. good # {} => Brings(s[last])  BY <1>2
  <2> HIDE DEF good, last
  <2> QED  BY <2>1, BodyParsed DEF Brings
<1>5. good = {} => ~HasTokenField(auth)  BY DEF HasTokenField, NoAuth, Fields
<1>6. AfterTwoFactor(x.base, s) = Merge(auth, x.base)  BY <1>3 DEF AfterTwoFactor
<1> HIDE DEF good, last
<1>7. ASSUME NEW f \in Fields
      PROVE  Merge(auth, x.base)[f] = IF auth[f] = "" THEN x.base[f] ELSE auth[f]
  <2>1. CASE good = {}  BY <1>5, <1>7, <2>1 DEF Merge, NoAuth
  <2>2. CASE good # {}
    <3> HIDE DEF auth
    <3> QED  BY <1>4, <1>7, <2>2 DEF Merge
  <2> QED  BY <2>1, <2>2
<1> QED  BY <1>6, <1>7 DEF good, last

\* The loop over the addresses of an account (drafts.go).
LEMMA BetterLoop ==
  ASSUME NEW T, NoSender \in T, NEW n \in Nat, NEW s, DOMAIN s = 1..n,
         \A t \in T, k \in 1..n : Better(t, s[k]) \in T
  PROVE  \E loop \in [0..n -> T] : /\ loop[0] = NoSender /\ loop[n] = DefaultSender(s)
                                   /\ \A k \in 1..n : loop[k] = Better(loop[k - 1], s[k])
<1> DEFINE G == [p \in T \X (1..n) |-> Better(p[1], s[p[2]])]
           Pass(iter) == [S \in SUBSET DOMAIN s |->
                            IF S = {} THEN NoSender ELSE Better(iter[S \ {Max(S)}], s[Max(S)])]
           iter == CHOOSE iter : iter = Pass(iter)
<1>1. DefaultSender(s) = iter[1..n]  BY DEF DefaultSender, FoldLeft, MapThenFoldSet
<1> HIDE DEF Better
<1>2. G \in [T \X (1..n) -> T] /\ \A t \in T, k \in 1..n : G[<<t, k>>] = Better(t, s[k])  OBVIOUS
<1> HIDE DEF G
<1>3. \A S \in SUBSET (1..n) : S # {} => Max(S) \in 1..n  BY LastIndex
<1>4. iter = Pass(iter)
  <2>1. PICK g \in [SUBSET (1..n) -> T] : Folds(g, n, NoSender, G)  BY <1>2, FoldExists
  <2>2. g = Pass(g)  BY <1>2, <1>3, <2>1 DEF Folds
  <2> QED  BY <2>2
<1> HIDE DEF iter
<1>5. Passes(iter, n, NoSender, G, T)  BY <1>2, <1>3, <1>4 DEF Passes
<1>6. PICK loop \in [0..n -> T] : /\ loop[0] = NoSender /\ loop[n] = iter[1..n]
                                  /\ \A k \in 1..n : loop[k] = G[<<loop[k - 1], k>>]
  <2>1. Loops(T, n, NoSender, iter[1..n], G)  BY <1>2, <1>5, LoopOf
  <2> QED  BY <2>1 DEF Loops
<1>7. ASSUME NEW k \in 1..n PROVE loop[k] = Better(loop[k - 1], s[k])
  <2>1. k - 1 \in 0..n  BY <1>7
  <2>2. loop[k - 1] \in T  BY <1>6, <2>1
  <2> QED  BY <1>2, <1>6, <2>2
<1> QED  BY <1>1, <1>6, <1>7

\* The loop over the addresses ends with one of the lowest order that can send.
LEMMA DefaultIsLowest ==
  ASSUME NEW s \in Seq(Address)
  PROVE  LET able == {i \in DOMAIN s : CanSend(s[i])}
         IN IF able = {} THEN DefaultSender(s) = NoSender
            ELSE \E i \in able : DefaultSender(s) = s[i] /\ \A j \in able : s[i].order <= s[j].order
<1> DEFINE n == Len(s)
           T == Address \cup {NoSender}
           able(k) == {i \in 1..k : CanSend(s[i])}
<1>1. n \in Nat /\ DOMAIN s = 1..n /\ \A k \in 1..n : s[k] \in Address
  BY LenProperties, ElementOfSeq
<1>2. NoSender \in T  OBVIOUS
<1>3. ASSUME NEW t \in T, NEW k \in 1..n PROVE Better(t, s[k]) \in T
  BY <1>1 DEF Better
<1>4. PICK loop \in [0..n -> T] : /\ loop[0] = NoSender /\ loop[n] = DefaultSender(s)
                                  /\ \A k \in 1..n : loop[k] = Better(loop[k - 1], s[k])
  <2> HIDE DEF T, n
  <2> QED  BY <1>1, <1>2, <1>3, BetterLoop
<1>5. \A k \in 1..n : s[k] # NoSender /\ s[k].order \in Int  BY <1>1 DEF NoSender, Address
<1> DEFINE Lowest(k) ==
             IF able(k) = {} THEN loop[k] = NoSender
             ELSE \E i \in able(k) : loop[k] = s[i] /\ \A j \in able(k) : s[i].order <= s[j].order
           I == {k \in 0..n : Lowest(k)}
<1>6. 0 \in I
  <2>1. able(0) = {}  OBVIOUS
  <2> QED  BY <1>1, <1>4, <2>1
<1>7. ASSUME NEW k \in 1..n, k - 1 \in I PROVE k \in I
  <2>1. k \in Nat /\ k - 1 \in 0..n /\ k \in 0..n  BY <1>1
  <2>2. Lowest(k - 1) /\ loop[k] = Better(loop[k - 1], s[k])  BY <1>4, <1>7
  <2>3. able(k) = able(k - 1) \cup (IF CanSend(s[k]) THEN {k} ELSE {})
    <3>1. \A i : i \in 1..k <=> i \in 1..(k - 1) \/ i = k  BY <2>1
    <3> QED  BY <3>1
  <2>4. able(k - 1) \subseteq 1..n  BY <2>1
  <2> HIDE DEF able
  <2>5. CASE ~CanSend(s[k])  BY <2>1, <2>2, <2>3, <2>5 DEF Better
  <2>6. CASE CanSend(s[k]) /\ able(k - 1) = {}
    <3>1. loop[k] = s[k] /\ able(k) = {k}  BY <2>2, <2>3, <2>6 DEF Better
    <3>2. k \in able(k) /\ \A j \in able(k) : s[k].order <= s[j].order  BY <1>5, <3>1
    <3>3. Lowest(k)  BY <3>1, <3>2
    <3> HIDE DEF Lowest
    <3> QED  BY <2>1, <3>3
  <2>7. CASE CanSend(s[k]) /\ able(k - 1) # {}
    <3>1. PICK i \in able(k - 1) : loop[k - 1] = s[i] /\ \A j \in able(k - 1) : s[i].order <= s[j].order
      BY <2>2, <2>7
    <3>2. loop[k] = IF s[k].order < s[i].order THEN s[k] ELSE s[i]
      BY <1>5, <2>2, <2>4, <2>7, <3>1 DEF Better
    <3>3. \A j \in able(k) : (j \in able(k - 1) \/ j = k) /\ s[j].order \in Int
      BY <1>5, <2>3, <2>4
    <3>4. CASE s[k].order < s[i].order
      <4>1. k \in able(k) /\ \A j \in able(k) : s[k].order <= s[j].order
        BY <1>5, <2>3, <2>4, <2>7, <3>1, <3>3, <3>4
      <4> QED  BY <2>1, <3>2, <3>4, <4>1
    <3>5. CASE ~(s[k].order < s[i].order)
      <4>1. i \in able(k) /\ \A j \in able(k) : s[i].order <= s[j].order
        BY <1>5, <2>3, <2>4, <3>1, <3>3, <3>5
      <4> QED  BY <2>1, <3>2, <3>5, <4>1
    <3> QED  BY <3>4, <3>5
  <2> QED  BY <2>5, <2>6, <2>7
<1>8. n \in I
  <2> HIDE DEF I
  <2>1. n \in 0..n  BY <1>1
  <2> QED  BY <1>1, <1>6, <1>7, <2>1, LoopInduction
<1> QED  BY <1>1, <1>4, <1>8

\* The address of a name.
LEMMA FoundByName ==
  ASSUME NEW s \in Seq(Address), NEW name
  PROVE  LET i == SelectInSeq(s, LAMBDA a : a.id = name)
         IN \/ i \in DOMAIN s /\ s[i].id = name
            \/ i = 0 /\ \A j \in DOMAIN s : s[j].id # name
<1> DEFINE S == {i \in 1..Len(s) : s[i].id = name}
<1>1. Len(s) \in Nat /\ DOMAIN s = 1..Len(s)  BY LenProperties
<1>2. SelectInSeq(s, LAMBDA a : a.id = name) = IF S # {} THEN Min(S) ELSE 0  BY DEF SelectInSeq
<1>3. S # {} => Min(S) \in S
  <2>1. SUFFICES ASSUME S # {} PROVE \E x \in S : \A y \in S : x =< y  BY DEF Min
  <2>2. PICK k \in S : \A j \in 1..(k - 1) : j \notin S
    <3>1. S \in SUBSET (1..Len(s))  OBVIOUS
    <3> HIDE DEF S
    <3> QED  BY <1>1, <2>1, <3>1, LeastIndex
  <2>3. ASSUME NEW y \in S PROVE k <= y
    <3>1. y \in 1..Len(s) /\ k \in 1..Len(s)  OBVIOUS
    <3>2. ~(y \in 1..(k - 1))  BY <2>2, <2>3
    <3> QED  BY <1>1, <3>1, <3>2
  <2> QED  BY <2>3
<1> QED  BY <1>1, <1>2, <1>3

\* The sender of a draft can send, and is the one named or of the lowest order.
LEMMA SenderFits ==
  ASSUME NEW x \in Senders
  PROVE  LET able == {i \in DOMAIN x.addrs : CanSend(x.addrs[i])}
             fit == {x.addrs[i] : i \in {i \in able :
                      IF x.named # 0 THEN x.addrs[i].id = x.named
                      ELSE \A j \in able : x.addrs[i].order <= x.addrs[j].order}}
             sender == ResolveSender(x.addrs, x.named)
         IN IF fit = {} THEN sender = NoSender ELSE sender \in fit
<1> DEFINE s == x.addrs
           able == {i \in DOMAIN s : CanSend(s[i])}
           best == {i \in able : IF x.named # 0 THEN s[i].id = x.named
                                  ELSE \A j \in able : s[i].order <= s[j].order}
           fit == {s[i] : i \in best}
           sender == ResolveSender(s, x.named)
           Fits == IF fit = {} THEN sender = NoSender ELSE sender \in fit
<1>1. s \in Seq(Address) /\ \A i, j \in DOMAIN s : s[i].id = s[j].id => i = j
  BY AlgorithmsAssumption
<1>2. ASSUME x.named = 0 PROVE Fits
  <2>1. sender = DefaultSender(s)  BY <1>2 DEF ResolveSender
  <2>2. IF able = {} THEN sender = NoSender
        ELSE \E i \in able : sender = s[i] /\ \A j \in able : s[i].order <= s[j].order
    <3> HIDE DEF s, sender
    <3> QED  BY <1>1, <2>1, DefaultIsLowest
  <2> HIDE DEF s, sender, able
  <2> QED  BY <1>2, <2>2
<1>3. ASSUME x.named # 0 PROVE Fits
  <2> DEFINE i == SelectInSeq(s, LAMBDA a : a.id = x.named)
  <2>1. \/ i \in DOMAIN s /\ s[i].id = x.named
        \/ i = 0 /\ \A j \in DOMAIN s : s[j].id # x.named
    BY <1>1, FoundByName
  <2>2. sender = IF i = 0 \/ ~CanSend(s[i]) THEN NoSender ELSE s[i]  BY <1>3 DEF ResolveSender
  <2> HIDE DEF i
  <2>3. i \in DOMAIN s => i # 0
    <3>1. Len(s) \in Nat /\ DOMAIN s = 1..Len(s)  BY <1>1, LenProperties
    <3> QED  BY <3>1
  <2> HIDE DEF s, sender
  <2>4. CASE i \in best
    <3>1. sender = s[i]  BY <2>2, <2>3, <2>4
    <3> QED  BY <2>4, <3>1
  <2>5. CASE i \notin best
    <3>1. sender = NoSender  BY <1>3, <2>1, <2>2, <2>5
    <3>2. best = {}  BY <1>1, <1>3, <2>1, <2>5
    <3> HIDE DEF best
    <3> QED  BY <3>1, <3>2
  <2> QED  BY <2>4, <2>5
<1> QED  BY <1>2, <1>3

-----------------------------------------------------------------------------
(***************************************************************************)
(* A sequence draws from a set of places with a time each: every entry is  *)
(* the time of a place of its own, and if all is true no place is left.    *)
(***************************************************************************)
Draws(s, S, t, all) ==
  \E h \in Injection(DOMAIN s, S) : /\ \A i \in DOMAIN s : s[i] = t[h[i]]
                                    /\ all => h \in Surjection(DOMAIN s, S)

\* Nothing drawn from nowhere.
LEMMA DrawsNothing ==
  ASSUME NEW t, NEW all
  PROVE  Draws(<<>>, {}, t, all)
<1> DEFINE h == [i \in {} |-> {}]
<1>1. DOMAIN <<>> = {} /\ h \in [{} -> {}]  OBVIOUS
<1>2. h \in Injection({}, {})  BY Fun_IsInj, <1>1
<1>3. h \in Surjection({}, {})  BY Fun_IsSurj, <1>1
<1> HIDE DEF h
<1> QED  BY <1>1, <1>2, <1>3 DEF Draws

\* What is drawn from fewer places is drawn from more, with some left.
LEMMA DrawsFewer ==
  ASSUME NEW s, NEW S, NEW R, S \subseteq R, NEW t, NEW all, Draws(s, S, t, all),
         NEW some, some => all /\ S = R
  PROVE  Draws(s, R, t, some)
<1>1. PICK h \in Injection(DOMAIN s, S) : /\ \A i \in DOMAIN s : s[i] = t[h[i]]
                                          /\ all => h \in Surjection(DOMAIN s, S)
  BY DEF Draws
<1>2. h \in [DOMAIN s -> R] /\ \A a, b \in DOMAIN s : h[a] = h[b] => a = b
  BY Fun_InjectionProperties
<1>3. h \in Injection(DOMAIN s, R)  BY <1>2, Fun_IsInj
<1> QED  BY <1>1, <1>3 DEF Draws

\* Two draws from places apart, one after the other.
LEMMA DrawsJoined ==
  ASSUME NEW s \in Seq(Int), NEW u \in Seq(Int), NEW S, NEW R, S \cap R = {}, NEW t,
         NEW a, NEW b, Draws(s, S, t, a), Draws(u, R, t, b)
  PROVE  Draws(s \o u, S \cup R, t, a /\ b)
<1> DEFINE v == s \o u
           m == Len(s)
           n == Len(u)
<1>1. m \in Nat /\ n \in Nat /\ DOMAIN s = 1..m /\ DOMAIN u = 1..n  BY LenProperties
<1>2. v \in Seq(Int) /\ Len(v) = m + n
      /\ \A i \in 1..(m + n) : v[i] = IF i <= m THEN s[i] ELSE u[i - m]
  BY ConcatProperties
<1>3. DOMAIN v = 1..(m + n)  BY <1>2, LenProperties
<1> HIDE DEF v, m, n
<1>4. PICK h \in Injection(1..m, S) :
        (\A i \in 1..m : s[i] = t[h[i]]) /\ (a => h \in Surjection(1..m, S))
  BY <1>1 DEF Draws
<1>5. PICK g \in Injection(1..n, R) :
        (\A i \in 1..n : u[i] = t[g[i]]) /\ (b => g \in Surjection(1..n, R))
  BY <1>1 DEF Draws
<1>6. h \in [1..m -> S] /\ \A i, j \in 1..m : h[i] = h[j] => i = j  BY Fun_InjectionProperties
<1>7. g \in [1..n -> R] /\ \A i, j \in 1..n : g[i] = g[j] => i = j  BY Fun_InjectionProperties
<1> DEFINE f == [i \in 1..(m + n) |-> IF i <= m THEN h[i] ELSE g[i - m]]
<1>8. \A i \in 1..(m + n) : /\ i <= m => i \in 1..m /\ f[i] = h[i] /\ f[i] \in S
                            /\ ~(i <= m) => i - m \in 1..n /\ f[i] = g[i - m] /\ f[i] \in R
  BY <1>1, <1>6, <1>7
<1>9. f \in Injection(1..(m + n), S \cup R)
  <2>1. f \in [1..(m + n) -> S \cup R]  BY <1>8
  <2>2. ASSUME NEW i \in 1..(m + n), NEW j \in 1..(m + n), f[i] = f[j] PROVE i = j
    <3> HIDE DEF f
    <3>1. (i <= m) <=> (j <= m)  BY <1>8, <2>2
    <3>2. CASE i <= m  BY <1>6, <1>8, <2>2, <3>1, <3>2
    <3>3. CASE ~(i <= m)
      <4>1. i - m = j - m  BY <1>7, <1>8, <2>2, <3>1, <3>3
      <4> QED  BY <1>1, <4>1
    <3> QED  BY <3>2, <3>3
  <2> HIDE DEF f
  <2> QED  BY <2>1, <2>2, Fun_IsInj
<1>10. ASSUME NEW i \in 1..(m + n) PROVE v[i] = t[f[i]]
  <2> HIDE DEF f
  <2>1. CASE i <= m  BY <1>2, <1>4, <1>8, <2>1
  <2>2. CASE ~(i <= m)  BY <1>2, <1>5, <1>8, <2>2
  <2> QED  BY <2>1, <2>2
<1>11. ASSUME a, b PROVE f \in Surjection(1..(m + n), S \cup R)
  <2>1. h \in Surjection(1..m, S) /\ g \in Surjection(1..n, R)  BY <1>4, <1>5, <1>11
  <2>4. /\ \A p \in S : \E i \in 1..m : h[i] = p
        /\ \A p \in R : \E i \in 1..n : g[i] = p
    BY <2>1 DEF Surjection
  <2>2. ASSUME NEW p \in S \cup R PROVE \E i \in 1..(m + n) : f[i] = p
    <3>1. CASE p \in S
      <4>1. PICK i \in 1..m : h[i] = p  BY <2>4, <3>1
      <4>2. i \in 1..(m + n) /\ i <= m  BY <1>1
      <4> QED  BY <1>8, <4>1, <4>2
    <3>2. CASE p \in R
      <4>1. PICK i \in 1..n : g[i] = p  BY <2>4, <3>2
      <4>2. i + m \in 1..(m + n) /\ ~(i + m <= m) /\ (i + m) - m = i  BY <1>1
      <4> HIDE DEF f
      <4> QED  BY <1>8, <4>1, <4>2
    <3> QED  BY <2>2, <3>1, <3>2
  <2>3. f \in [1..(m + n) -> S \cup R]  BY <1>8
  <2> HIDE DEF f
  <2> QED  BY <2>2, <2>3, Fun_IsSurj
<1> HIDE DEF f
<1>12. Draws(v, S \cup R, t, a /\ b)  BY <1>3, <1>9, <1>10, <1>11 DEF Draws
<1> QED  BY <1>12 DEF v

\* One more entry, from one more place.
LEMMA DrawsAppended ==
  ASSUME NEW s \in Seq(Int), NEW S, NEW p, p \notin S, NEW t, t[p] \in Int, NEW all,
         Draws(s, S, t, all)
  PROVE  Draws(Append(s, t[p]), S \cup {p}, t, all)
<1> DEFINE u == <<t[p]>>
           h == [i \in 1..1 |-> p]
<1>1. u \in Seq(Int) /\ DOMAIN u = 1..1 /\ u[1] = t[p] /\ 1..1 = {1}  OBVIOUS
<1>2. h \in [1..1 -> {p}] /\ h[1] = p  OBVIOUS
<1>3. h \in Injection(1..1, {p})
  <2> HIDE DEF h
  <2> QED  BY <1>1, <1>2, Fun_IsInj
<1>4. h \in Surjection(1..1, {p})
  <2> HIDE DEF h
  <2> QED  BY <1>1, <1>2, Fun_IsSurj
<1>5. Append(s, t[p]) = s \o u  BY AppendIsConcat
<1> HIDE DEF u, h
<1>6. Draws(u, {p}, t, TRUE)  BY <1>1, <1>2, <1>3, <1>4 DEF Draws
<1>7. Draws(s \o u, S \cup {p}, t, all /\ TRUE)  BY <1>1, <1>6, DrawsJoined
<1>8. (all /\ TRUE) => Draws(s \o u, S \cup {p}, t, all)
  BY <1>7 DEF Draws
<1>9. ~(all /\ TRUE) => Draws(s \o u, S \cup {p}, t, all)
  BY <1>7 DEF Draws
<1> QED  BY <1>5, <1>8, <1>9

\* The same entries under other names of the places.
LEMMA DrawsRenamed ==
  ASSUME NEW s, NEW S, NEW R, NEW t, NEW w, NEW all, NEW f \in Bijection(S, R),
         \A p \in S : t[p] = w[f[p]], Draws(s, S, t, all)
  PROVE  Draws(s, R, w, all)
<1>1. PICK h \in Injection(DOMAIN s, S) : /\ \A i \in DOMAIN s : s[i] = t[h[i]]
                                          /\ all => h \in Surjection(DOMAIN s, S)
  BY DEF Draws
<1>2. f \in Injection(S, R) /\ f \in Surjection(S, R)  BY Fun_BijectionProperties
<1> DEFINE g == [i \in DOMAIN s |-> f[h[i]]]
<1>3. g \in Injection(DOMAIN s, R)  BY <1>2, Fun_InjTransitive
<1>4. all => g \in Surjection(DOMAIN s, R)  BY <1>1, <1>2, Fun_SurjTransitive
<1>5. ASSUME NEW i \in DOMAIN s PROVE s[i] = w[g[i]]
  <2>1. h[i] \in S  BY Fun_InjectionProperties
  <2> QED  BY <1>1, <2>1
<1> HIDE DEF g
<1> QED  BY <1>3, <1>4, <1>5 DEF Draws

\* The order of the entries does not matter.
LEMMA DrawsPermuted ==
  ASSUME NEW s, NEW S, NEW t, NEW all, NEW q \in Bijection(DOMAIN s, DOMAIN s),
         Draws(s, S, t, all)
  PROVE  Draws([i \in DOMAIN s |-> s[q[i]]], S, t, all)
<1> DEFINE u == [i \in DOMAIN s |-> s[q[i]]]
<1>1. PICK h \in Injection(DOMAIN s, S) : /\ \A i \in DOMAIN s : s[i] = t[h[i]]
                                          /\ all => h \in Surjection(DOMAIN s, S)
  BY DEF Draws
<1>2. q \in Injection(DOMAIN s, DOMAIN s) /\ q \in Surjection(DOMAIN s, DOMAIN s)
      /\ q \in [DOMAIN s -> DOMAIN s]
  BY Fun_BijectionProperties
<1> DEFINE g == [i \in DOMAIN s |-> h[q[i]]]
<1>3. g \in Injection(DOMAIN s, S)  BY <1>2, Fun_InjTransitive
<1>4. all => g \in Surjection(DOMAIN s, S)  BY <1>1, <1>2, Fun_SurjTransitive
<1>5. \A i \in DOMAIN s : u[i] = t[g[i]]  BY <1>1, <1>2
<1>6. DOMAIN u = DOMAIN s  OBVIOUS
<1> HIDE DEF g, u
<1>7. Draws(u, S, t, all)  BY <1>3, <1>4, <1>5, <1>6 DEF Draws
<1> QED  BY <1>7 DEF u

\* The indices of a sequence, or the places, that have a time.
PlacesOf(s, D, x) == {i \in D : s[i] = x}

\* No time is drawn more often than places have it.
LEMMA DrawsCounted ==
  ASSUME NEW s, NEW S, NEW t, NEW all, IsFiniteSet(S), Draws(s, S, t, all), NEW x
  PROVE  Cardinality(PlacesOf(s, DOMAIN s, x)) <= Cardinality(PlacesOf(t, S, x))
<1>1. PICK h \in Injection(DOMAIN s, S) : \A i \in DOMAIN s : s[i] = t[h[i]]  BY DEF Draws
<1>2. h \in [DOMAIN s -> S] /\ \A a, b \in DOMAIN s : h[a] = h[b] => a = b
  BY Fun_InjectionProperties
<1> DEFINE D == {i \in DOMAIN s : s[i] = x}
           R == {p \in S : t[p] = x}
           g == [i \in D |-> h[i]]
<1>3. g \in [D -> R]  BY <1>1, <1>2
<1>4. \A a, b \in D : g[a] = g[b] => a = b  BY <1>2
<1>5. IsFiniteSet(R)  BY FS_Subset
<1> HIDE DEF D, R, g
<1>6. g \in Injection(D, R)  BY <1>3, <1>4, Fun_IsInj
<1>7. Cardinality(D) <= Cardinality(R)  BY <1>5, <1>6, FS_Injection
<1> QED  BY <1>7 DEF D, R, PlacesOf

\* As many entries as places, when no place is left.
LEMMA DrawsAllOf ==
  ASSUME NEW s \in Seq(Int), NEW S, NEW t, IsFiniteSet(S), Draws(s, S, t, TRUE)
  PROVE  Len(s) = Cardinality(S)
<1>1. PICK h \in Injection(DOMAIN s, S) : h \in Surjection(DOMAIN s, S)  BY DEF Draws
<1>2. Len(s) \in Nat /\ DOMAIN s = 1..Len(s)  BY LenProperties
<1>3. Cardinality(DOMAIN s) = Cardinality(S)  BY <1>1, FS_Injection
<1>4. Cardinality(1..Len(s)) = Len(s)
  <2> DEFINE n == Len(s)
  <2>1. n \in Nat  BY <1>2
  <2> HIDE DEF n
  <2>2. Cardinality(1..n) = IF 1 > n THEN 0 ELSE n - 1 + 1  BY <2>1, FS_Interval
  <2> QED  BY <2>1, <2>2 DEF n
<1> QED  BY <1>2, <1>3, <1>4

\* A sequence of times can be put in order, and the listing is.
LEMMA OrderExists ==
  ASSUME NEW n \in Nat, NEW s \in [1..n -> Int]
  PROVE  \E p \in Bijection(1..n, 1..n) : \A i, j \in 1..n : i < j => s[p[i]] <= s[p[j]]
<1> DEFINE Orders(p, m) == /\ p \in Bijection(1..m, 1..m)
                           /\ \A i, j \in 1..m : i < j => s[p[i]] <= s[p[j]]
           I == {m \in 0..n : \E p : Orders(p, m)}
<1>1. 0 \in I
  <2> DEFINE p == [i \in 1..0 |-> i]
  <2>1. 1..0 = {} /\ p \in [1..0 -> 1..0]  OBVIOUS
  <2> HIDE DEF p
  <2>2. p \in Bijection(1..0, 1..0)  BY <2>1, Fun_IsBij
  <2>3. Orders(p, 0)  BY <2>1, <2>2
  <2>4. 0 \in 0..n  OBVIOUS
  <2> HIDE DEF Orders
  <2> QED  BY <2>3, <2>4
<1>2. ASSUME NEW m \in 1..n, m - 1 \in I PROVE m \in I
  <2>1. PICK p : Orders(p, m - 1)  BY <1>2
  <2>2. /\ p \in [1..(m - 1) -> 1..(m - 1)]
        /\ \A a, b \in 1..(m - 1) : p[a] = p[b] => a = b
        /\ \A t \in 1..(m - 1) : \E i \in 1..(m - 1) : p[i] = t
    <3>1. p \in Bijection(1..(m - 1), 1..(m - 1))  BY <2>1
    <3> QED  BY <3>1 DEF Bijection, Injection, Surjection, IsInjective
  <2>3. PICK k \in 1..m : /\ k = m \/ s[p[k]] > s[m]
                          /\ \A i \in 1..(k - 1) : ~(s[p[i]] > s[m])
    <3> DEFINE K == {i \in 1..m : i = m \/ s[p[i]] > s[m]}
    <3>1. m \in Nat /\ K \in SUBSET (1..m) /\ m \in K  OBVIOUS
    <3>2. PICK k \in K : \A j \in 1..(k - 1) : j \notin K
      <4> HIDE DEF K
      <4> QED  BY <3>1, LeastIndex
    <3>3. \A j \in 1..(k - 1) : j \in 1..m  BY <3>1, <3>2
    <3> QED  BY <3>2, <3>3
  <2> DEFINE q == [i \in 1..m |-> IF i < k THEN p[i] ELSE IF i = k THEN m ELSE p[i - 1]]
  <2>4. \A i \in 1..m : /\ i < k => i \in 1..(m - 1) /\ q[i] = p[i] /\ q[i] \in 1..(m - 1)
                        /\ i = k => q[i] = m
                        /\ i > k => i - 1 \in 1..(m - 1) /\ q[i] = p[i - 1] /\ q[i] \in 1..(m - 1)
    <3> SUFFICES ASSUME NEW i \in 1..m
                 PROVE  /\ i < k => i \in 1..(m - 1) /\ q[i] = p[i] /\ q[i] \in 1..(m - 1)
                        /\ i = k => q[i] = m
                        /\ i > k => i - 1 \in 1..(m - 1) /\ q[i] = p[i - 1] /\ q[i] \in 1..(m - 1)
      OBVIOUS
    <3>1. m \in Nat /\ k \in Nat /\ 1 <= k /\ k <= m /\ i \in Nat /\ 1 <= i /\ i <= m  BY <2>3
    <3>2. q[i] = IF i < k THEN p[i] ELSE IF i = k THEN m ELSE p[i - 1]  OBVIOUS
    <3>3. i < k => i \in 1..(m - 1)  BY <3>1
    <3>4. i > k => i - 1 \in 1..(m - 1) /\ ~(i < k) /\ i # k  BY <3>1
    <3>5. i = k => ~(i < k)  BY <3>1
    <3> HIDE DEF q
    <3> QED  BY <2>2, <3>2, <3>3, <3>4, <3>5
  <2>5. q \in [1..m -> 1..m]
    <3>1. ASSUME NEW i \in 1..m PROVE q[i] \in 1..m
      <4> HIDE DEF q
      <4> QED  BY <2>3, <2>4
    <3> QED  BY <3>1
  <2>6. \A a, b \in 1..m : q[a] = q[b] => a = b
    <3> SUFFICES ASSUME NEW a \in 1..m, NEW b \in 1..m, q[a] = q[b] PROVE a = b  OBVIOUS
    <3> HIDE DEF q
    <3>1. q[a] = m <=> a = k  BY <2>3, <2>4
    <3>2. q[b] = m <=> b = k  BY <2>3, <2>4
    <3>3. CASE a < k /\ b < k  BY <2>2, <2>4, <3>3
    <3>4. CASE a > k /\ b > k
      <4>1. a - 1 = b - 1  BY <2>2, <2>4, <3>4
      <4> QED  BY <4>1
    <3>5. CASE a < k /\ b > k
      <4>1. a = b - 1  BY <2>2, <2>4, <3>5
      <4> QED  BY <2>3, <3>5, <4>1
    <3>6. CASE a > k /\ b < k
      <4>1. a - 1 = b  BY <2>2, <2>4, <3>6
      <4> QED  BY <2>3, <3>6, <4>1
    <3> QED  BY <2>3, <3>1, <3>2, <3>3, <3>4, <3>5, <3>6
  <2>7. \A t \in 1..m : \E i \in 1..m : q[i] = t
    <3> SUFFICES ASSUME NEW t \in 1..m PROVE \E i \in 1..m : q[i] = t  OBVIOUS
    <3> HIDE DEF q
    <3>1. CASE t = m  BY <2>3, <2>4, <3>1
    <3>2. CASE t # m
      <4>1. PICK i \in 1..(m - 1) : p[i] = t  BY <2>2, <3>2
      <4>2. i \in 1..m /\ i + 1 \in 1..m /\ (i + 1) - 1 = i  OBVIOUS
      <4>3. CASE i < k  BY <2>4, <4>1, <4>2, <4>3
      <4>4. CASE ~(i < k)
        <5>1. i + 1 > k  BY <2>3, <4>2, <4>4
        <5>2. q[i + 1] = t  BY <2>4, <4>1, <4>2, <5>1
        <5> QED  BY <4>2, <5>2
      <4> QED  BY <4>3, <4>4
    <3> QED  BY <3>1, <3>2
  <2> HIDE DEF q
  <2>8. q \in Bijection(1..m, 1..m)  BY <2>5, <2>6, <2>7, Fun_IsBij
  <2>9. ASSUME NEW i \in 1..m, NEW j \in 1..m, i < j PROVE s[q[i]] <= s[q[j]]
    <3>0. \A a, b \in 1..(m - 1) : a < b => s[p[a]] <= s[p[b]]  BY <2>1
    <3>1. \A a \in 1..(m - 1) : p[a] \in 1..n /\ s[p[a]] \in Int  BY <2>2
    <3>2. s[m] \in Int  OBVIOUS
    <3>3. CASE j < k
      <4>1. i < k  BY <2>9, <3>3
      <4> QED  BY <2>4, <2>9, <3>0, <3>3, <4>1
    <3>4. CASE j = k
      <4>1. i \in 1..(k - 1) /\ i < k  BY <2>9, <3>4
      <4>2. ~(s[p[i]] > s[m])  BY <2>3, <4>1
      <4>3. q[i] = p[i] /\ q[j] = m /\ i \in 1..(m - 1)  BY <2>4, <3>4, <4>1
      <4> QED  BY <3>1, <3>2, <4>2, <4>3
    <3>5. CASE j > k
      <4>1. j - 1 \in 1..(m - 1) /\ q[j] = p[j - 1]  BY <2>4, <3>5
      <4>2. k \in 1..(m - 1) /\ s[p[k]] > s[m]  BY <2>3, <3>5
      <4>3. CASE i < k
        <5>1. q[i] = p[i] /\ i \in 1..(m - 1) /\ i < j - 1  BY <2>4, <3>5, <4>3
        <5> QED  BY <3>0, <4>1, <5>1
      <4>4. CASE i = k
        <5>1. q[i] = m  BY <2>4, <4>4
        <5>2. s[p[k]] <= s[p[j - 1]]
          <6>1. CASE k = j - 1  BY <3>1, <4>2, <6>1
          <6>2. CASE k # j - 1
            <7>1. k < j - 1  BY <3>5, <6>2
            <7> QED  BY <3>0, <4>1, <4>2, <7>1
          <6> QED  BY <6>1, <6>2
        <5> QED  BY <3>1, <3>2, <4>1, <4>2, <5>1, <5>2
      <4>5. CASE i > k
        <5>1. i - 1 \in 1..(m - 1) /\ q[i] = p[i - 1] /\ i - 1 < j - 1  BY <2>4, <2>9, <4>5
        <5> QED  BY <3>0, <4>1, <5>1
      <4> QED  BY <4>3, <4>4, <4>5
    <3> QED  BY <3>3, <3>4, <3>5
  <2>10. Orders(q, m)  BY <2>8, <2>9
  <2>11. m \in 0..n  OBVIOUS
  <2> HIDE DEF Orders
  <2> QED  BY <2>10, <2>11
<1>3. n \in I
  <2> HIDE DEF I
  <2>1. n \in 0..n  OBVIOUS
  <2> QED  BY <1>1, <1>2, <2>1, LoopInduction
<1> QED  BY <1>3

\* The iteration of a rule, value by value (recurrence.go).
Iterates(T, s, n, limit) ==
  \E loop \in [0..n -> T] : /\ loop[0] = NotStarted /\ loop[n] = Iterate(s, limit)
                            /\ \A k \in 1..n : loop[k] = Step(loop[k - 1], s[k], limit)
StepsWithin(T, s, n, limit) == \A t \in T, k \in 1..n : Step(t, s[k], limit) \in T

\* Steps that stay in T iterate in T.
LEMMA StepLoop ==
  ASSUME NEW T, NotStarted \in T, NEW n \in Nat, NEW s, NEW limit, DOMAIN s = 1..n,
         StepsWithin(T, s, n, limit)
  PROVE  Iterates(T, s, n, limit)
<1> DEFINE G == [p \in T \X (1..n) |-> Step(p[1], s[p[2]], limit)]
           Pass(iter) == [S \in SUBSET DOMAIN s |->
                            IF S = {} THEN NotStarted ELSE Step(iter[S \ {Max(S)}], s[Max(S)], limit)]
           iter == CHOOSE iter : iter = Pass(iter)
<1>1. Iterate(s, limit) = iter[1..n]  BY DEF Iterate, FoldLeft, MapThenFoldSet
<1> HIDE DEF Step
<1>2. G \in [T \X (1..n) -> T] /\ \A t \in T, k \in 1..n : G[<<t, k>>] = Step(t, s[k], limit)
  BY DEF StepsWithin
<1> HIDE DEF G
<1>3. \A S \in SUBSET (1..n) : S # {} => Max(S) \in 1..n  BY LastIndex
<1>4. iter = Pass(iter)
  <2>1. PICK g \in [SUBSET (1..n) -> T] : Folds(g, n, NotStarted, G)  BY <1>2, FoldExists
  <2>2. g = Pass(g)  BY <1>2, <1>3, <2>1 DEF Folds
  <2> QED  BY <2>2
<1> HIDE DEF iter
<1>5. Passes(iter, n, NotStarted, G, T)  BY <1>2, <1>3, <1>4 DEF Passes
<1>6. PICK loop \in [0..n -> T] : /\ loop[0] = NotStarted /\ loop[n] = iter[1..n]
                                  /\ \A k \in 1..n : loop[k] = G[<<loop[k - 1], k>>]
  <2>1. Loops(T, n, NotStarted, iter[1..n], G)  BY <1>2, <1>5, LoopOf
  <2> QED  BY <2>1 DEF Loops
<1>7. ASSUME NEW k \in 1..n PROVE loop[k] = Step(loop[k - 1], s[k], limit)
  <2>1. k - 1 \in 0..n  BY <1>7
  <2>2. loop[k - 1] \in T  BY <1>6, <2>1
  <2> QED  BY <1>2, <1>6, <2>2
<1> QED  BY <1>1, <1>6, <1>7 DEF Iterates

\* The choice of the calendars that are active and shown (calendar.go).
ActiveKeeps(T, n, s) == \A t \in T, k \in 1..n : KeepActive(t, s[k]) \in T

\* A choice that stays in T ends in T.
LEMMA KeepLoop ==
  ASSUME NEW T, NEW first \in T, NEW n \in Nat, NEW s, DOMAIN s = 1..n,
         ActiveKeeps(T, n, s)
  PROVE  first = <<>> => ActiveCalendars(s) \in T
<1> DEFINE G == [p \in T \X (1..n) |-> KeepActive(p[1], s[p[2]])]
           Pass(iter) == [S \in SUBSET DOMAIN s |->
                            IF S = {} THEN first ELSE KeepActive(iter[S \ {Max(S)}], s[Max(S)])]
           iter == CHOOSE iter : iter = Pass(iter)
<1>1. first = <<>> => ActiveCalendars(s) = iter[1..n]  BY DEF ActiveCalendars, FoldLeft, MapThenFoldSet
<1> HIDE DEF KeepActive
<1>2. G \in [T \X (1..n) -> T] /\ \A t \in T, k \in 1..n : G[<<t, k>>] = KeepActive(t, s[k])
  BY DEF ActiveKeeps
<1> HIDE DEF G
<1>3. \A S \in SUBSET (1..n) : S # {} => Max(S) \in 1..n  BY LastIndex
<1>4. iter = Pass(iter)
  <2>1. PICK g \in [SUBSET (1..n) -> T] : Folds(g, n, first, G)  BY <1>2, FoldExists
  <2>2. g = Pass(g)  BY <1>2, <1>3, <2>1 DEF Folds
  <2> QED  BY <2>2
<1> HIDE DEF iter
<1>5. Passes(iter, n, first, G, T)  BY <1>2, <1>3, <1>4 DEF Passes
<1>6. iter[1..n] \in T
  <2>1. Loops(T, n, first, iter[1..n], G)  BY <1>2, <1>5, LoopOf
  <2> QED  BY <2>1 DEF Loops
<1> QED  BY <1>1, <1>6

\* The loop over the events of a calendar.
EventKeeps(T, n, s) == \A t \in T, k \in 1..n : AddEvent(t, s[k]) \in T
EventLoops(T, l, n, s) ==
  \E loop \in [0..n -> T] : /\ loop[0] = l /\ loop[n] = AddEvents(l, s)
                            /\ \A k \in 1..n : loop[k] = AddEvent(loop[k - 1], s[k])

\* The loop runs in every T that its passes keep.
LEMMA EventLoop ==
  ASSUME NEW T, NEW l \in T, NEW n \in Nat, NEW s, DOMAIN s = 1..n,
         EventKeeps(T, n, s)
  PROVE  EventLoops(T, l, n, s)
<1> DEFINE G == [p \in T \X (1..n) |-> AddEvent(p[1], s[p[2]])]
           Pass(iter) == [S \in SUBSET DOMAIN s |->
                            IF S = {} THEN l ELSE AddEvent(iter[S \ {Max(S)}], s[Max(S)])]
           iter == CHOOSE iter : iter = Pass(iter)
<1>1. AddEvents(l, s) = iter[1..n]  BY DEF AddEvents, FoldLeft, MapThenFoldSet
<1> HIDE DEF AddEvent
<1>2. G \in [T \X (1..n) -> T] /\ \A t \in T, k \in 1..n : G[<<t, k>>] = AddEvent(t, s[k])
  BY DEF EventKeeps
<1> HIDE DEF G
<1>3. \A S \in SUBSET (1..n) : S # {} => Max(S) \in 1..n  BY LastIndex
<1>4. iter = Pass(iter)
  <2>1. PICK g \in [SUBSET (1..n) -> T] : Folds(g, n, l, G)  BY <1>2, FoldExists
  <2>2. g = Pass(g)  BY <1>2, <1>3, <2>1 DEF Folds
  <2> QED  BY <2>2
<1> HIDE DEF iter
<1>5. Passes(iter, n, l, G, T)  BY <1>2, <1>3, <1>4 DEF Passes
<1>6. PICK loop \in [0..n -> T] : /\ loop[0] = l /\ loop[n] = iter[1..n]
                                  /\ \A k \in 1..n : loop[k] = G[<<loop[k - 1], k>>]
  <2>1. Loops(T, n, l, iter[1..n], G)  BY <1>2, <1>5, LoopOf
  <2> QED  BY <2>1 DEF Loops
<1>7. ASSUME NEW k \in 1..n PROVE loop[k] = AddEvent(loop[k - 1], s[k])
  <2>1. k - 1 \in 0..n  BY <1>7
  <2>2. loop[k - 1] \in T  BY <1>6, <2>1
  <2> QED  BY <1>2, <1>6, <2>2
<1> QED  BY <1>1, <1>6, <1>7 DEF EventLoops

\* The loop over the calendars of a listing.
CalendarKeeps(T, n, s) == \A t \in T, k \in 1..n : AddCalendar(t, s[k]) \in T
CalendarLoops(T, n, s) ==
  \E loop \in [0..n -> T] : /\ loop[0] = Listing /\ loop[n] = AddCalendars(s)
                            /\ \A k \in 1..n : loop[k] = AddCalendar(loop[k - 1], s[k])

\* The loop runs in every T that its passes keep.
LEMMA CalendarLoop ==
  ASSUME NEW T, Listing \in T, NEW n \in Nat, NEW s, DOMAIN s = 1..n,
         CalendarKeeps(T, n, s)
  PROVE  CalendarLoops(T, n, s)
<1> DEFINE G == [p \in T \X (1..n) |-> AddCalendar(p[1], s[p[2]])]
           Pass(iter) == [S \in SUBSET DOMAIN s |->
                            IF S = {} THEN Listing ELSE AddCalendar(iter[S \ {Max(S)}], s[Max(S)])]
           iter == CHOOSE iter : iter = Pass(iter)
<1>1. AddCalendars(s) = iter[1..n]  BY DEF AddCalendars, FoldLeft, MapThenFoldSet
<1> HIDE DEF AddCalendar
<1>2. G \in [T \X (1..n) -> T] /\ \A t \in T, k \in 1..n : G[<<t, k>>] = AddCalendar(t, s[k])
  BY DEF CalendarKeeps
<1> HIDE DEF G
<1>3. \A S \in SUBSET (1..n) : S # {} => Max(S) \in 1..n  BY LastIndex
<1>4. iter = Pass(iter)
  <2>1. PICK g \in [SUBSET (1..n) -> T] : Folds(g, n, Listing, G)  BY <1>2, FoldExists
  <2>2. g = Pass(g)  BY <1>2, <1>3, <2>1 DEF Folds
  <2> QED  BY <2>2
<1> HIDE DEF iter
<1>5. Passes(iter, n, Listing, G, T)  BY <1>2, <1>3, <1>4 DEF Passes
<1>6. PICK loop \in [0..n -> T] : /\ loop[0] = Listing /\ loop[n] = iter[1..n]
                                  /\ \A k \in 1..n : loop[k] = G[<<loop[k - 1], k>>]
  <2>1. Loops(T, n, Listing, iter[1..n], G)  BY <1>2, <1>5, LoopOf
  <2> QED  BY <2>1 DEF Loops
<1>7. ASSUME NEW k \in 1..n PROVE loop[k] = AddCalendar(loop[k - 1], s[k])
  <2>1. k - 1 \in 0..n  BY <1>7
  <2>2. loop[k - 1] \in T  BY <1>6, <2>1
  <2> QED  BY <1>2, <1>6, <2>2
<1> QED  BY <1>1, <1>6, <1>7 DEF CalendarLoops

\* The length of a sequence, from its domain.
LEMMA LengthFromDomain ==
  ASSUME NEW T, NEW u \in Seq(T), NEW n \in Nat, DOMAIN u = 1..n
  PROVE  Len(u) = n
<1> DEFINE m == Len(u)
<1>1. m \in Nat /\ 1..m = 1..n  BY LenProperties
<1> HIDE DEF m
<1>2. m <= n
  <2>1. CASE m = 0  BY <2>1
  <2>2. CASE m # 0
    <3>1. m \in 1..m  BY <1>1, <2>2
    <3>2. m \in 1..n  BY <1>1, <3>1
    <3> QED  BY <3>2
  <2> QED  BY <2>1, <2>2
<1>3. n <= m
  <2>1. CASE n = 0  BY <1>1, <2>1
  <2>2. CASE n # 0
    <3>1. n \in 1..n  BY <2>2
    <3>2. n \in 1..m  BY <1>1, <3>1
    <3> QED  BY <3>2
  <2> QED  BY <2>1, <2>2
<1>4. m = n  BY <1>1, <1>2, <1>3
<1> QED  BY <1>4 DEF m

\* The order of the listing loses no entry and adds none.
LEMMA SortedRight ==
  ASSUME NEW s \in Seq(Int), NEW S, NEW t, NEW all, Draws(s, S, t, all)
  PROVE  /\ Sorted(s) \in Seq(Int) /\ Len(Sorted(s)) = Len(s) /\ Draws(Sorted(s), S, t, all)
         /\ \A i, j \in DOMAIN Sorted(s) : i <= j => Sorted(s)[i] <= Sorted(s)[j]
<1> DEFINE n == Len(s)
           Orders(p) == \A i, j \in DOMAIN s : i < j => s[p[i]] <= s[p[j]]
           order == CHOOSE p \in Bijection(DOMAIN s, DOMAIN s) : Orders(p)
           u == [i \in DOMAIN s |-> s[order[i]]]
<1>1. n \in Nat /\ DOMAIN s = 1..n /\ s \in [1..n -> Int]  BY LenProperties
<1>2. order \in Bijection(DOMAIN s, DOMAIN s) /\ Orders(order)
  <2>1. \E p \in Bijection(DOMAIN s, DOMAIN s) : Orders(p)
    <3> HIDE DEF n
    <3> QED  BY <1>1, OrderExists
  <2> HIDE DEF Orders
  <2> QED  BY <2>1
<1>3. Sorted(s) = u  BY DEF Sorted
<1> HIDE DEF order, n
<1>4. Draws(u, S, t, all)  BY <1>2, DrawsPermuted
<1>5. order \in [1..n -> 1..n]  BY <1>1, <1>2, Fun_BijectionProperties
<1>6. u \in [1..n -> Int]  BY <1>1, <1>5
<1>7. u \in Seq(Int) /\ Len(u) = n
  <2> HIDE DEF u
  <2>1. u \in Seq(Int)  BY <1>1, <1>6, SeqDef
  <2>2. DOMAIN u = 1..n  BY <1>6
  <2>3. Len(u) = n  BY <1>1, <2>1, <2>2, LengthFromDomain
  <2> QED  BY <2>1, <2>3
<1>8. ASSUME NEW i \in 1..n, NEW j \in 1..n, i <= j PROVE u[i] <= u[j]
  <2>1. CASE i = j  BY <1>6, <2>1
  <2>2. CASE i < j  BY <1>1, <1>2, <2>2
  <2> QED  BY <1>8, <2>1, <2>2
<1>9. DOMAIN u = 1..n  BY <1>1
<1> HIDE DEF u
<1> QED  BY <1>3, <1>4, <1>7, <1>8, <1>9 DEF n

\* An iteration between two values: its times so far are within the limit.
Rising(r) == \A i, j \in DOMAIN r : i <= j => r[i] <= r[j]

LoopState == [occ: Seq(Int), end: {"running", "done", "truncated"}]
Within(t, limit) == Len(t.occ) <= limit
LoopStates(limit) == {t \in LoopState : Within(t, limit)}

\* Its fields.
LEMMA LoopStateParts ==
  ASSUME NEW limit \in Nat \ {0}, NEW t \in LoopStates(limit)
  PROVE  /\ t \in LoopState /\ t.occ \in Seq(Int) /\ Len(t.occ) \in Nat /\ Len(t.occ) <= limit
         /\ t.end \in {"running", "done", "truncated"}
<1>1. t \in LoopState /\ Len(t.occ) <= limit  BY DEF LoopStates, Within
<1>2. t.occ \in Seq(Int) /\ t.end \in {"running", "done", "truncated"}  BY <1>1 DEF LoopState
<1>3. Len(t.occ) \in Nat  BY <1>2, LenProperties
<1> QED  BY <1>1, <1>2, <1>3

\* What a value of the rule does to the iteration.
Moves(t, v, u, limit) ==
  /\ t.end # "running" => u = t
  /\ t.end = "running" /\ v > WinEnd => u.occ = t.occ /\ u.end = "done"
  /\ t.end = "running" /\ v < WinStart => u = t
  /\ t.end = "running" /\ InWindow(v) /\ Len(t.occ) >= limit =>
       u.occ = t.occ /\ u.end = "truncated" /\ Len(t.occ) = limit
  /\ t.end = "running" /\ InWindow(v) /\ ~(Len(t.occ) >= limit) =>
       u.occ = Append(t.occ, v) /\ u.end = "running"

\* A value of the rule moves the iteration so, and keeps it within its limit.
LEMMA StepCases ==
  ASSUME NEW limit \in Nat \ {0}, NEW t \in LoopStates(limit), NEW v \in Int
  PROVE  Step(t, v, limit) \in LoopStates(limit) /\ Moves(t, v, Step(t, v, limit), limit)
<1> DEFINE u == Step(t, v, limit)
           m == Len(t.occ)
<1>1. t \in LoopState /\ t.occ \in Seq(Int) /\ m \in Nat /\ limit \in Nat /\ m <= limit
  BY LoopStateParts
<1>7. /\ t.end = "running" /\ ~(v > WinEnd) /\ ~(v < WinStart) /\ InWindow(v) /\ m >= limit =>
           u = [t EXCEPT !.end = "truncated"]
      /\ t.end = "running" /\ ~(v > WinEnd) /\ ~(v < WinStart) /\ InWindow(v) /\ ~(m >= limit) /\ m < limit =>
           u = [t EXCEPT !.occ = Append(t.occ, v)]
  BY DEF Step
<1> HIDE DEF m
<1>2. /\ v > WinEnd => ~InWindow(v) /\ ~(v < WinStart)
      /\ v < WinStart => ~InWindow(v)
      /\ v > WinEnd \/ v < WinStart \/ InWindow(v)
  BY EventsAssumption DEF InWindow
<1>3. CASE t.end # "running" \/ v < WinStart
  <2>1. u = t  BY <1>2, <1>3 DEF Step
  <2> HIDE DEF u
  <2> QED  BY <1>2, <1>3, <2>1 DEF u, Moves
<1>4. CASE t.end = "running" /\ v > WinEnd
  <2>1. u = [t EXCEPT !.end = "done"]  BY <1>2, <1>4 DEF Step
  <2> HIDE DEF u
  <2>2. u \in LoopState /\ u.end = "done" /\ u.occ = t.occ  BY <1>1, <2>1 DEF LoopState
  <2>3. u \in LoopStates(limit)  BY <1>1, <2>2 DEF LoopStates, Within
  <2> QED  BY <1>2, <1>4, <2>2, <2>3 DEF u, Moves
<1>5. CASE t.end = "running" /\ InWindow(v) /\ m >= limit
  <2>1. u = [t EXCEPT !.end = "truncated"]  BY <1>2, <1>5, <1>7
  <2> HIDE DEF u
  <2>2. u \in LoopState /\ u.end = "truncated" /\ u.occ = t.occ  BY <1>1, <2>1 DEF LoopState
  <2>3. u \in LoopStates(limit)
    <3>1. Len(u.occ) <= limit  BY <1>1, <2>2 DEF m
    <3> QED  BY <2>2, <3>1 DEF LoopStates, Within
  <2>4. m = limit  BY <1>1, <1>5
  <2> QED  BY <1>2, <1>5, <2>2, <2>3, <2>4 DEF u, m, Moves
<1>6. CASE t.end = "running" /\ InWindow(v) /\ ~(m >= limit)
  <2> DEFINE s == Append(t.occ, v)
  <2>1. m < limit  BY <1>1, <1>6
  <2>2. u = [t EXCEPT !.occ = s]  BY <1>2, <1>6, <1>7, <2>1
  <2>3. s \in Seq(Int) /\ Len(s) = m + 1  BY <1>1, AppendProperties DEF m
  <2> HIDE DEF u, s
  <2>4. u \in LoopState /\ u.end = "running" /\ u.occ = s  BY <1>1, <1>6, <2>2, <2>3 DEF LoopState
  <2>5. m + 1 <= limit  BY <1>1, <2>1
  <2>6. u \in LoopStates(limit)  BY <2>3, <2>4, <2>5 DEF LoopStates, Within
  <2> QED  BY <1>2, <1>6, <2>4, <2>6 DEF u, s, m, Moves
<1> HIDE DEF u
<1> QED  BY <1>2, <1>3, <1>4, <1>5, <1>6 DEF u, m

\* Where an iteration begins.
LEMMA NotStartedFits ==
  ASSUME NEW limit \in Nat \ {0}
  PROVE  NotStarted \in LoopStates(limit) /\ NotStarted.occ = <<>> /\ NotStarted.end = "running"
<1>1. NotStarted.occ = <<>> /\ NotStarted.end = "running"  BY DEF NotStarted
<1>2. NotStarted \in LoopState  BY DEF NotStarted, LoopState
<1>3. Len(NotStarted.occ) <= limit
  <2>1. Len(<<>>) = 0  OBVIOUS
  <2>2. Len(NotStarted.occ) = 0  BY <1>1, <2>1
  <2>3. 0 <= limit  OBVIOUS
  <2> QED  BY <2>2, <2>3
<1> QED  BY <1>1, <1>2, <1>3 DEF LoopStates, Within

\* The values of a rule that lie in the window, or the first of them.
LEMMA IterateRight ==
  ASSUME NEW n \in Nat, NEW r, DOMAIN r = 1..n, \A k \in 1..n : r[k] \in Int, Rising(r),
         NEW limit \in Nat \ {0}
  PROVE  LET last == Iterate(r, limit)
         IN /\ last.occ \in Seq(Int) /\ Len(last.occ) <= limit
            /\ Draws(last.occ, {k \in DOMAIN r : InWindow(r[k])}, r, last.end # "truncated")
            /\ last.end = "truncated" => Len(last.occ) = limit
<1> DEFINE T == LoopStates(limit)
<1>2. NotStarted \in T  BY NotStartedFits
<1>3. StepsWithin(T, r, n, limit)  BY StepCases DEF StepsWithin
<1> HIDE DEF T
<1>4. PICK loop \in [0..n -> T] : /\ loop[0] = NotStarted /\ loop[n] = Iterate(r, limit)
                                  /\ \A k \in 1..n : loop[k] = Step(loop[k - 1], r[k], limit)
  <2>1. Iterates(T, r, n, limit)  BY <1>2, <1>3, StepLoop
  <2> QED  BY <2>1 DEF Iterates
<1> DEFINE held(k) == {j \in 1..k : InWindow(r[j])}
           Right(t, k) == /\ Draws(t.occ, held(k), r, t.end # "truncated")
                          /\ t.end = "done" => \E j \in 1..k : r[j] > WinEnd
                          /\ t.end = "truncated" => Len(t.occ) = limit
           I == {k \in 0..n : Right(loop[k], k)}
<1>5. 0 \in I
  <2>1. held(0) = {}  OBVIOUS
  <2>2. Draws(<<>>, {}, r, loop[0].end # "truncated")  BY DrawsNothing
  <2>3. loop[0].occ = <<>> /\ loop[0].end = "running"  BY <1>4, NotStartedFits
  <2>4. 0 \in 0..n  OBVIOUS
  <2> QED  BY <2>1, <2>2, <2>3, <2>4
<1>6. ASSUME NEW k \in 1..n, k - 1 \in I PROVE k \in I
  <2> DEFINE t == loop[k - 1]
             u == loop[k]
  <2>1. k - 1 \in 0..n /\ k \in 0..n /\ r[k] \in Int /\ k \in Nat  OBVIOUS
  <2>2. t \in T /\ u \in T /\ u = Step(t, r[k], limit) /\ Right(t, k - 1)  BY <1>4, <1>6, <2>1
  <2>3. held(k) = held(k - 1) \cup (IF InWindow(r[k]) THEN {k} ELSE {}) /\ k \notin held(k - 1)
    <3>1. \A i : i \in 1..k <=> i \in 1..(k - 1) \/ i = k  BY <2>1
    <3>2. k \notin 1..(k - 1)  BY <2>1
    <3> QED  BY <3>1, <3>2
  <2>4. SUFFICES Right(u, k)
    <3> HIDE DEF u, Right
    <3> QED  BY <2>1 DEF u
  <2> HIDE DEF t, u, held
  <2>5. Draws(t.occ, held(k - 1), r, t.end # "truncated")  BY <2>2
  <2>13. Moves(t, r[k], u, limit)  BY <2>1, <2>2, StepCases DEF T
  <2>14. /\ InWindow(r[k]) \/ r[k] > WinEnd \/ r[k] < WinStart
         /\ r[k] > WinEnd \/ r[k] < WinStart => ~InWindow(r[k])
    BY <2>1, EventsAssumption DEF InWindow
  <2>15. t.occ \in Seq(Int) /\ t.end \in {"running", "done", "truncated"}
    BY <2>2, LoopStateParts DEF T
  <2>6. ASSUME u.end # "done" \/ \E j \in 1..k : r[j] > WinEnd,
               u.end = "truncated" => Len(u.occ) = limit, u.occ = t.occ,
               u.end # "truncated" => t.end # "truncated" /\ ~InWindow(r[k])
        PROVE  Right(u, k)
    <3>1. held(k - 1) \subseteq held(k) /\ (~InWindow(r[k]) => held(k - 1) = held(k))  BY <2>3
    <3>2. Draws(t.occ, held(k), r, u.end # "truncated")  BY <2>5, <2>6, <3>1, DrawsFewer
    <3> QED  BY <2>6, <3>2
  <2> HIDE DEF Right
  <2>7. CASE t.end = "done"
    <3>1. PICK j \in 1..(k - 1) : r[j] > WinEnd  BY <2>2, <2>7 DEF Right
    <3>2. j \in 1..n /\ j <= k /\ j \in 1..k  BY <2>1
    <3>3. r[k] > WinEnd  BY <3>1, <3>2, EventsAssumption DEF Rising
    <3>4. ~InWindow(r[k]) /\ u = t  BY <2>1, <2>7, <2>13, <2>14, <3>3 DEF Moves
    <3> QED  BY <2>6, <2>7, <3>1, <3>2, <3>4
  <2>8. CASE t.end = "truncated"
    <3>1. u = t /\ Len(t.occ) = limit  BY <2>2, <2>8, <2>13 DEF Right, Moves
    <3> QED  BY <2>6, <2>8, <3>1
  <2>9. CASE t.end = "running" /\ r[k] > WinEnd
    <3>1. u.occ = t.occ /\ u.end = "done"  BY <2>9, <2>13 DEF Moves
    <3>2. k \in 1..k  BY <2>1
    <3>3. ~InWindow(r[k])  BY <2>9, <2>14
    <3> QED  BY <2>6, <2>9, <3>1, <3>2, <3>3
  <2>10. CASE t.end = "running" /\ r[k] < WinStart
    <3>1. u = t /\ ~InWindow(r[k])  BY <2>10, <2>13, <2>14 DEF Moves
    <3> QED  BY <2>6, <2>10, <3>1
  <2>11. CASE t.end = "running" /\ InWindow(r[k]) /\ Len(t.occ) >= limit
    <3>1. u.occ = t.occ /\ u.end = "truncated" /\ Len(t.occ) = limit  BY <2>11, <2>13 DEF Moves
    <3> QED  BY <2>6, <3>1
  <2>12. CASE t.end = "running" /\ InWindow(r[k]) /\ ~(Len(t.occ) >= limit)
    <3>1. u.occ = Append(t.occ, r[k]) /\ u.end = "running"  BY <2>12, <2>13 DEF Moves
    <3>2. held(k) = held(k - 1) \cup {k}  BY <2>3, <2>12
    <3>3. Draws(Append(t.occ, r[k]), held(k), r, t.end # "truncated")
      <4> DEFINE all == t.end # "truncated"
      <4>1. Draws(t.occ, held(k - 1), r, all)  BY <2>5
      <4> HIDE DEF all
      <4>2. Draws(Append(t.occ, r[k]), held(k - 1) \cup {k}, r, all)
        BY <2>1, <2>3, <2>15, <4>1, DrawsAppended
      <4> QED  BY <3>2, <4>2 DEF all
    <3>4. Draws(u.occ, held(k), r, u.end # "truncated")  BY <3>1, <3>3, <2>12, DrawsFewer
    <3> QED  BY <3>1, <3>4 DEF Right
  <2> QED  BY <2>7, <2>8, <2>9, <2>10, <2>11, <2>12, <2>14, <2>15
<1>7. n \in I
  <2> HIDE DEF I
  <2>1. n \in 0..n  OBVIOUS
  <2> QED  BY <1>5, <1>6, <2>1, LoopInduction
<1>8. Right(loop[n], n) /\ loop[n] \in T  BY <1>4, <1>7
<1>9. loop[n].occ \in Seq(Int) /\ Len(loop[n].occ) <= limit  BY <1>8, LoopStateParts DEF T
<1> QED  BY <1>4, <1>8, <1>9

\* What the expansion of an event is to be.
Expands(o, ev, limit) ==
  /\ o.ok <=> ~Skipped(ev)
  /\ o.ok => /\ o.occ \in Seq(Int) /\ Len(o.occ) <= limit
             /\ o.truncated \in BOOLEAN /\ (o.truncated => Len(o.occ) = limit)
             /\ Draws(o.occ, Held(ev), TimesOf(ev), ~o.truncated)

\* The fields of an event.
LEMMA EventParts ==
  ASSUME NEW ev \in Event
  PROVE  /\ ev.start \in Int /\ ev.kind \in {"single", "recurring", "bad"} /\ ev.rule \in Seq(Int)
         /\ ev.readable \in BOOLEAN /\ Rising(ev.rule)
BY DEF Event, Rising

\* An event is expanded to what the window holds of it, or the first of that.
LEMMA ExpandRight ==
  ASSUME NEW ev \in Event, NEW limit \in Nat \ {0}
  PROVE  Expands(OccurrencesFor(ev, limit), ev, limit)
<1>1. /\ ev.start \in Int /\ ev.kind \in {"single", "recurring", "bad"} /\ ev.rule \in Seq(Int)
      /\ ev.readable \in BOOLEAN /\ Rising(ev.rule)
  BY EventParts
<1>2. CASE Skipped(ev)
  <2>1. OccurrencesFor(ev, limit) = Unreadable  BY <1>2 DEF Skipped, OccurrencesFor, Expand
  <2>2. ~Unreadable.ok  BY DEF Unreadable
  <2> QED  BY <1>2, <2>1, <2>2 DEF Expands
<1>3. CASE ~Skipped(ev) /\ ev.kind = "single"
  <2> DEFINE s == <<ev.start>>
             occ == IF InWindow(ev.start) THEN s ELSE <<>>
             o == Expansion(occ, FALSE)
  <2>1. OccurrencesFor(ev, limit) = o  BY <1>3 DEF Skipped, OccurrencesFor, Expand
  <2>2. o.ok /\ o.occ = occ /\ o.truncated = FALSE  BY DEF Expansion
  <2>3. TimesOf(ev) = s /\ DOMAIN s = {1} /\ s[1] = ev.start  BY <1>3 DEF TimesOf
  <2>4. s \in Seq(Int) /\ Len(s) = 1 /\ s = Append(<<>>, s[1])  BY <1>1
  <2>5. Draws(<<>>, {}, s, TRUE)
    <3> HIDE DEF s
    <3> QED  BY DrawsNothing
  <2>8. <<>> \in Seq(Int) /\ Len(<<>>) = 0 /\ 0 <= limit /\ 1 <= limit  OBVIOUS
  <2>6. CASE InWindow(ev.start)
    <3>1. occ = s  BY <2>6
    <3>2. Held(ev) = {1}  BY <1>3, <2>3, <2>6 DEF Held
    <3> HIDE DEF occ, o
    <3>3. Draws(s, {} \cup {1}, s, TRUE)
      <4>1. s[1] \in Int /\ 1 \notin {}  BY <1>1, <2>3
      <4> HIDE DEF s
      <4>2. Draws(Append(<<>>, s[1]), {} \cup {1}, s, TRUE)  BY <2>5, <2>8, <4>1, DrawsAppended
      <4> QED  BY <2>4, <4>2
    <3>4. {} \cup {1} = {1} /\ ~o.truncated  BY <2>2
    <3>5. Draws(s, {1}, s, ~o.truncated)  BY <3>3, <3>4, DrawsFewer
    <3> HIDE DEF s
    <3>6. o.occ \in Seq(Int) /\ Len(o.occ) <= limit  BY <2>2, <2>4, <2>8, <3>1
    <3>7. Draws(o.occ, Held(ev), TimesOf(ev), ~o.truncated)  BY <2>2, <2>3, <3>1, <3>2, <3>5
    <3> QED  BY <1>3, <2>1, <2>2, <3>6, <3>7 DEF Expands
  <2>7. CASE ~InWindow(ev.start)
    <3>1. occ = <<>>  BY <2>7
    <3>2. Held(ev) = {}  BY <1>3, <2>3, <2>7 DEF Held
    <3> HIDE DEF occ, o
    <3>3. Draws(<<>>, {}, s, ~o.truncated)  BY DrawsNothing
    <3> HIDE DEF s
    <3>4. o.occ \in Seq(Int) /\ Len(o.occ) <= limit  BY <2>2, <2>8, <3>1
    <3>5. Draws(o.occ, Held(ev), TimesOf(ev), ~o.truncated)  BY <2>2, <2>3, <3>1, <3>2, <3>3
    <3> QED  BY <1>3, <2>1, <2>2, <3>4, <3>5 DEF Expands
  <2> QED  BY <2>6, <2>7
<1>4. CASE ~Skipped(ev) /\ ev.kind # "single"
  <2> DEFINE r == ev.rule
             last == Iterate(r, limit)
             o == Expansion(last.occ, last.end = "truncated")
  <2>1. OccurrencesFor(ev, limit) = o  BY <1>1, <1>4 DEF Skipped, OccurrencesFor, Expand
  <2>2. o.ok /\ o.occ = last.occ /\ o.truncated = (last.end = "truncated")  BY DEF Expansion
  <2>3. TimesOf(ev) = r /\ Held(ev) = {k \in DOMAIN r : InWindow(r[k])}  BY <1>4 DEF TimesOf, Held
  <2>4. Len(r) \in Nat /\ DOMAIN r = 1..Len(r) /\ \A k \in 1..Len(r) : r[k] \in Int
    BY <1>1, LenProperties, ElementOfSeq
  <2> HIDE DEF r
  <2>5. /\ last.occ \in Seq(Int) /\ Len(last.occ) <= limit
        /\ Draws(last.occ, {k \in DOMAIN r : InWindow(r[k])}, r, last.end # "truncated")
        /\ last.end = "truncated" => Len(last.occ) = limit
    BY <1>1, <2>4, IterateRight DEF r
  <2> HIDE DEF last, o
  <2>6. Draws(last.occ, Held(ev), r, ~o.truncated)
    <3>1. Draws(last.occ, Held(ev), r, last.end # "truncated")  BY <2>3, <2>5
    <3> QED  BY <2>2, <3>1, DrawsFewer
  <2> QED  BY <1>4, <2>1, <2>2, <2>3, <2>5, <2>6 DEF Expands
<1> QED  BY <1>2, <1>3, <1>4

-----------------------------------------------------------------------------
(***************************************************************************)
(* The listing while it grows.                                             *)
(***************************************************************************)
ListingState ==
  [all: Seq(Int), truncated: BOOLEAN, skipped: Nat, ended: BOOLEAN, failed: BOOLEAN]
\* The list ends exactly when it is full, and says so.
InLimit(l) ==
  /\ Len(l.all) <= MaxOccurrences
  /\ l.ended <=> Len(l.all) = MaxOccurrences
  /\ l.truncated <=> l.ended
ListingStates == {l \in ListingState : InLimit(l)}

\* What an event does to it.
Added(l, ev, u) ==
  /\ l.ended \/ l.failed => u = l
  /\ ~l.ended /\ ~l.failed =>
       /\ u.failed = l.failed
       /\ u.skipped = l.skipped + (IF Skipped(ev) THEN 1 ELSE 0)
       /\ \E occ \in Seq(Int) : u.all = l.all \o occ /\ Draws(occ, Held(ev), TimesOf(ev), ~u.ended)

\* Its fields.
LEMMA ListingStateParts ==
  ASSUME NEW l \in ListingStates
  PROVE  /\ l \in ListingState /\ l.all \in Seq(Int) /\ l.skipped \in Nat
         /\ l.truncated \in BOOLEAN /\ l.ended \in BOOLEAN /\ l.failed \in BOOLEAN
         /\ Len(l.all) \in Nat /\ Len(l.all) <= MaxOccurrences
         /\ l.ended <=> Len(l.all) = MaxOccurrences
         /\ l.truncated <=> l.ended
<1>1. l \in ListingState /\ InLimit(l)  BY DEF ListingStates
<1>2. /\ l.all \in Seq(Int) /\ l.skipped \in Nat
      /\ l.truncated \in BOOLEAN /\ l.ended \in BOOLEAN /\ l.failed \in BOOLEAN
  BY <1>1 DEF ListingState
<1>3. Len(l.all) \in Nat  BY <1>2, LenProperties
<1> QED  BY <1>1, <1>2, <1>3 DEF InLimit

\* One event does to the list what it should, and leaves it within its limit.
LEMMA AddEventRight ==
  ASSUME NEW l \in ListingStates, NEW ev \in Event
  PROVE  AddEvent(l, ev) \in ListingStates /\ Added(l, ev, AddEvent(l, ev))
<1> DEFINE m == Len(l.all)
           rest == MaxOccurrences - m
           o == OccurrencesFor(ev, rest)
           all == l.all \o o.occ
           full == Len(all) >= MaxOccurrences
           u == AddEvent(l, ev)
<1>1. /\ l \in ListingState /\ l.all \in Seq(Int) /\ l.skipped \in Nat
      /\ l.truncated \in BOOLEAN /\ l.ended \in BOOLEAN /\ l.failed \in BOOLEAN
      /\ m \in Nat /\ m <= MaxOccurrences
      /\ l.ended <=> m = MaxOccurrences
      /\ l.truncated <=> l.ended
  BY ListingStateParts
<1>2. MaxOccurrences \in Nat  BY EventsAssumption
<1>3. CASE l.ended \/ l.failed
  <2>1. u = l  BY <1>3 DEF AddEvent
  <2> QED  BY <1>3, <2>1 DEF Added
<1>4. ASSUME ~l.ended, ~l.failed
      PROVE  rest \in Nat \ {0} /\ Expands(o, ev, rest)
  <2>1. rest \in Nat \ {0}  BY <1>1, <1>2, <1>4
  <2> HIDE DEF rest
  <2> QED  BY <2>1, ExpandRight
<1>5. CASE ~l.ended /\ ~l.failed /\ Skipped(ev)
  <2>1. u = [l EXCEPT !.skipped = @ + 1]  BY <1>4, <1>5 DEF AddEvent, Expands
  <2> DEFINE e == <<>>
  <2>2. e \in Seq(Int) /\ l.all = l.all \o e  BY <1>1
  <2>3. Held(ev) = {}  BY <1>5 DEF Held
  <2> HIDE DEF u, e, m
  <2>4. /\ u \in ListingState /\ u.all = l.all /\ u.skipped = l.skipped + 1 /\ u.failed = l.failed
        /\ u.ended = l.ended /\ u.truncated = l.truncated
    BY <1>1, <2>1 DEF ListingState
  <2>5. u \in ListingStates  BY <1>1, <2>4 DEF ListingStates, InLimit, m
  <2>6. Draws(e, Held(ev), TimesOf(ev), ~u.ended)  BY <2>3, DrawsNothing DEF e
  <2> QED  BY <1>5, <2>2, <2>4, <2>5, <2>6 DEF Added, u
<1>6. CASE ~l.ended /\ ~l.failed /\ ~Skipped(ev)
  <2>1. /\ o.ok /\ o.occ \in Seq(Int) /\ Len(o.occ) <= rest /\ o.truncated \in BOOLEAN
        /\ o.truncated => Len(o.occ) = rest
        /\ Draws(o.occ, Held(ev), TimesOf(ev), ~o.truncated)
    BY <1>4, <1>6 DEF Expands
  <2>2. all \in Seq(Int) /\ Len(all) = m + Len(o.occ) /\ Len(o.occ) \in Nat
    BY <1>1, <2>1, ConcatProperties, LenProperties
  <2>3. u = [l EXCEPT !.all = SubSeq(all, 1, IF full THEN MaxOccurrences ELSE Len(all)),
                      !.truncated = @ \/ o.truncated \/ full, !.ended = full]
    BY <1>6, <2>1 DEF AddEvent
  <2> HIDE DEF o, u
  <2>4. Len(all) <= MaxOccurrences /\ (full <=> Len(all) = MaxOccurrences) /\ (o.truncated => full)
    <3> DEFINE k == Len(o.occ)
    <3>1. k \in Nat /\ k <= rest /\ Len(all) = m + k /\ (o.truncated => k = rest)  BY <2>1, <2>2
    <3> HIDE DEF k, m, all
    <3> QED  BY <1>1, <1>2, <3>1
  <2>5. SubSeq(all, 1, IF full THEN MaxOccurrences ELSE Len(all)) = all
    <3>1. (IF full THEN MaxOccurrences ELSE Len(all)) = Len(all)  BY <2>4
    <3> HIDE DEF all, full
    <3> QED  BY <2>2, <3>1, SubSeqFull
  <2> HIDE DEF full, all
  <2>6. full \in BOOLEAN  BY DEF full
  <2>7. /\ u \in ListingState /\ u.all = all /\ u.skipped = l.skipped /\ u.failed = l.failed
        /\ u.ended = full /\ u.truncated = full
    <3>1. (l.truncated \/ o.truncated \/ full) = full  BY <1>1, <1>6, <2>1, <2>4, <2>6
    <3>2. u = [l EXCEPT !.all = all, !.truncated = full, !.ended = full]  BY <2>3, <2>5, <3>1
    <3> QED  BY <1>1, <2>2, <2>6, <3>2 DEF ListingState
  <2>8. u \in ListingStates  BY <2>4, <2>7 DEF ListingStates, InLimit
  <2>9. Draws(o.occ, Held(ev), TimesOf(ev), ~u.ended)  BY <2>1, <2>4, <2>7, DrawsFewer
  <2>10. u.all = l.all \o o.occ /\ l.skipped + 0 = l.skipped  BY <1>1, <2>7 DEF all
  <2> QED  BY <1>6, <2>1, <2>7, <2>8, <2>9, <2>10 DEF Added, u
<1> QED  BY <1>3, <1>5, <1>6

-----------------------------------------------------------------------------
(***************************************************************************)
(* The places up to event j of calendar i.                                 *)
(***************************************************************************)
Before(p, i, j) == p[1] < i \/ (p[1] = i /\ p[2] <= j)
Upto(c, i, j) == {p \in Everything(c) : Before(p, i, j)}
BadUpto(c, i, j) == {p \in Bad(c) : Before(p, i, j)}
Times(c) == [p \in Everything(c) |-> TimeAt(c, p)]
Here(c, i, j) == {<<i, j, k>> : k \in Held(c[i].events[j])}

\* The members of the places, and of the events that are skipped.
LEMMA EverythingIs ==
  ASSUME NEW c, NEW p
  PROVE  /\ p \in Everything(c) <=> \E i \in DOMAIN c : \E j \in DOMAIN c[i].events :
                                      \E k \in Held(c[i].events[j]) : p = <<i, j, k>>
         /\ p \in Bad(c) <=> \E i \in DOMAIN c : \E j \in DOMAIN c[i].events :
                                      p = <<i, j>> /\ Skipped(c[i].events[j])
<1>1. ASSUME NEW q
      PROVE  q \in EventsOf(c) <=> \E i \in DOMAIN c : \E j \in DOMAIN c[i].events : q = <<i, j>>
  BY DEF EventsOf
<1>2. \A i, j : EventAt(c, <<i, j>>) = c[i].events[j] /\ <<i, j>>[1] = i /\ <<i, j>>[2] = j
  BY DEF EventAt
<1>3. p \in Bad(c) <=> \E i \in DOMAIN c : \E j \in DOMAIN c[i].events :
                          p = <<i, j>> /\ Skipped(c[i].events[j])
  BY <1>1, <1>2 DEF Bad
<1>4. p \in Everything(c) <=> \E q \in EventsOf(c) : \E k \in Held(EventAt(c, q)) : p = <<q[1], q[2], k>>
  BY DEF Everything
<1>5. ASSUME p \in Everything(c)
      PROVE  \E i \in DOMAIN c : \E j \in DOMAIN c[i].events :
               \E k \in Held(c[i].events[j]) : p = <<i, j, k>>
  <2>1. PICK q \in EventsOf(c) : \E k \in Held(EventAt(c, q)) : p = <<q[1], q[2], k>>  BY <1>4, <1>5
  <2>2. PICK i \in DOMAIN c : \E j \in DOMAIN c[i].events : q = <<i, j>>  BY <1>1, <2>1
  <2>3. PICK j \in DOMAIN c[i].events : q = <<i, j>>  BY <2>2
  <2> QED  BY <1>2, <2>1, <2>3
<1>6. ASSUME NEW i \in DOMAIN c, NEW j \in DOMAIN c[i].events, NEW k \in Held(c[i].events[j]),
             p = <<i, j, k>>
      PROVE  p \in Everything(c)
  <2>1. <<i, j>> \in EventsOf(c)  BY <1>1
  <2>2. k \in Held(EventAt(c, <<i, j>>))  BY <1>2
  <2> QED  BY <1>2, <1>4, <1>6, <2>1, <2>2
<1> QED  BY <1>3, <1>5, <1>6

\* The fields of a calendar.
LEMMA CalendarParts ==
  ASSUME NEW c \in Seq(Calendar)
  PROVE  /\ Len(c) \in Nat /\ DOMAIN c = 1..Len(c)
         /\ \A i \in DOMAIN c : /\ c[i].events \in Seq(Event) /\ c[i].opens \in BOOLEAN
                                /\ Len(c[i].events) \in Nat
                                /\ DOMAIN c[i].events = 1..Len(c[i].events)
                                /\ \A j \in DOMAIN c[i].events : c[i].events[j] \in Event
<1>1. Len(c) \in Nat /\ DOMAIN c = 1..Len(c)  BY LenProperties
<1>2. ASSUME NEW i \in DOMAIN c
      PROVE  /\ c[i].events \in Seq(Event) /\ c[i].opens \in BOOLEAN
             /\ Len(c[i].events) \in Nat
             /\ DOMAIN c[i].events = 1..Len(c[i].events)
             /\ \A j \in DOMAIN c[i].events : c[i].events[j] \in Event
  <2> DEFINE e == c[i].events
  <2>1. c[i] \in Calendar  BY <1>1, <1>2, ElementOfSeq
  <2>2. e \in Seq(Event) /\ c[i].opens \in BOOLEAN  BY <2>1 DEF Calendar
  <2> HIDE DEF e
  <2>3. Len(e) \in Nat /\ DOMAIN e = 1..Len(e) /\ \A j \in DOMAIN e : e[j] \in Event
    BY <2>2, LenProperties, ElementOfSeq
  <2> QED  BY <2>2, <2>3 DEF e
<1> QED  BY <1>1, <1>2

\* One event later there are the places of that event more.
LEMMA UptoGrows ==
  ASSUME NEW c \in Seq(Calendar), NEW i \in DOMAIN c, NEW j \in DOMAIN c[i].events
  PROVE  /\ Upto(c, i, j) = Upto(c, i, j - 1) \cup Here(c, i, j)
         /\ Upto(c, i, j - 1) \cap Here(c, i, j) = {}
         /\ BadUpto(c, i, j) = BadUpto(c, i, j - 1)
                                \cup (IF Skipped(c[i].events[j]) THEN {<<i, j>>} ELSE {})
         /\ <<i, j>> \notin BadUpto(c, i, j - 1)
<1>1. /\ DOMAIN c \subseteq Nat /\ \A i1 \in DOMAIN c : DOMAIN c[i1].events \subseteq Nat
      /\ i \in Nat /\ j \in Nat
  BY CalendarParts
<1>2. \A a, b \in Nat : /\ Before(<<a, b>>, i, j) <=> Before(<<a, b>>, i, j - 1) \/ (a = i /\ b = j)
                        /\ ~(Before(<<a, b>>, i, j - 1) /\ a = i /\ b = j)
  BY <1>1 DEF Before
<1>3. \A a, b \in Nat : \A k : Before(<<a, b, k>>, i, j) <=> Before(<<a, b, k>>, i, j - 1) \/ (a = i /\ b = j)
  BY <1>1 DEF Before
<1>4. \A k : ~Before(<<i, j, k>>, i, j - 1)  BY <1>1 DEF Before
<1>5. \A k : Before(<<i, j, k>>, i, j)  BY <1>1 DEF Before
<1>6. ASSUME NEW p
      PROVE  p \in Upto(c, i, j) <=> p \in Upto(c, i, j - 1) \/ p \in Here(c, i, j)
  <2>1. ASSUME p \in Here(c, i, j) PROVE p \in Upto(c, i, j)
    BY <1>5, <2>1, EverythingIs DEF Upto, Here
  <2>2. ASSUME p \in Everything(c) PROVE p \in Upto(c, i, j) <=> p \in Upto(c, i, j - 1) \/ p \in Here(c, i, j)
    <3>1. PICK i1 \in DOMAIN c : \E j1 \in DOMAIN c[i1].events :
                                   \E k1 \in Held(c[i1].events[j1]) : p = <<i1, j1, k1>>
      BY <2>2, EverythingIs
    <3>2. PICK j1 \in DOMAIN c[i1].events : \E k1 \in Held(c[i1].events[j1]) : p = <<i1, j1, k1>>
      BY <3>1
    <3>3. i1 \in Nat /\ j1 \in Nat  BY <1>1
    <3>4. Before(p, i, j) <=> Before(p, i, j - 1) \/ (i1 = i /\ j1 = j)  BY <1>3, <3>2, <3>3
    <3>5. p \in Here(c, i, j) <=> i1 = i /\ j1 = j  BY <3>2 DEF Here
    <3> QED  BY <2>2, <3>4, <3>5 DEF Upto
  <2> QED  BY <2>1, <2>2 DEF Upto
<1>7. ASSUME NEW p \in Here(c, i, j) PROVE p \notin Upto(c, i, j - 1)
  BY <1>4 DEF Upto, Here
<1>8. ASSUME NEW p
      PROVE  p \in BadUpto(c, i, j) <=>
               p \in BadUpto(c, i, j - 1) \/ (p = <<i, j>> /\ Skipped(c[i].events[j]))
  <2>1. ASSUME p = <<i, j>>, Skipped(c[i].events[j]) PROVE p \in BadUpto(c, i, j)
    BY <1>1, <1>2, <2>1, EverythingIs DEF BadUpto
  <2>2. ASSUME p \in Bad(c) PROVE p \in BadUpto(c, i, j) <=>
               p \in BadUpto(c, i, j - 1) \/ (p = <<i, j>> /\ Skipped(c[i].events[j]))
    <3>1. PICK i1 \in DOMAIN c : \E j1 \in DOMAIN c[i1].events :
                                      p = <<i1, j1>> /\ Skipped(c[i1].events[j1])
      BY <2>2, EverythingIs
    <3>2. PICK j1 \in DOMAIN c[i1].events : p = <<i1, j1>> /\ Skipped(c[i1].events[j1])  BY <3>1
    <3>3. i1 \in Nat /\ j1 \in Nat  BY <1>1
    <3>4. Before(p, i, j) <=> Before(p, i, j - 1) \/ (i1 = i /\ j1 = j)  BY <1>2, <3>2, <3>3
    <3>5. p = <<i, j>> <=> i1 = i /\ j1 = j  BY <3>2
    <3> QED  BY <2>2, <3>2, <3>4, <3>5 DEF BadUpto
  <2> QED  BY <2>1, <2>2 DEF BadUpto
<1>9. <<i, j>> \notin BadUpto(c, i, j - 1)  BY <1>1, <1>2 DEF BadUpto
<1>10. Upto(c, i, j) = Upto(c, i, j - 1) \cup Here(c, i, j)  BY <1>6
<1>11. BadUpto(c, i, j) = BadUpto(c, i, j - 1)
                            \cup (IF Skipped(c[i].events[j]) THEN {<<i, j>>} ELSE {})
  BY <1>8
<1> QED  BY <1>7, <1>9, <1>10, <1>11

\* After the last event of a calendar comes the next calendar.
LEMMA UptoNext ==
  ASSUME NEW c \in Seq(Calendar), NEW i \in DOMAIN c
  PROVE  /\ Upto(c, i, Len(c[i].events)) = Upto(c, i + 1, 0)
         /\ BadUpto(c, i, Len(c[i].events)) = BadUpto(c, i + 1, 0)
         /\ Upto(c, i, 0) \subseteq Upto(c, i + 1, 0)
<1> DEFINE n == Len(c[i].events)
<1>1. /\ n \in Nat /\ i \in Nat
      /\ \A a \in DOMAIN c : a \in Nat /\ \A b \in DOMAIN c[a].events : b \in Nat /\ b >= 1
      /\ \A b \in DOMAIN c[i].events : b <= n
  BY CalendarParts
<1> HIDE DEF n
<1>2. ASSUME NEW p \in Everything(c)
      PROVE  /\ Before(p, i, n) <=> Before(p, i + 1, 0)
             /\ Before(p, i, 0) => Before(p, i + 1, 0)
  <2>1. PICK a \in DOMAIN c : \E b \in DOMAIN c[a].events :
                                \E k \in Held(c[a].events[b]) : p = <<a, b, k>>
    BY EverythingIs
  <2>2. PICK b \in DOMAIN c[a].events : \E k \in Held(c[a].events[b]) : p = <<a, b, k>>  BY <2>1
  <2>3. p[1] = a /\ p[2] = b  BY <2>2
  <2>4. a \in Nat /\ b \in Nat /\ b >= 1 /\ (a = i => b <= n)  BY <1>1
  <2> QED  BY <1>1, <2>3, <2>4 DEF Before
<1>3. ASSUME NEW p \in Bad(c)
      PROVE  Before(p, i, n) <=> Before(p, i + 1, 0)
  <2>1. PICK a \in DOMAIN c : \E b \in DOMAIN c[a].events : p = <<a, b>> /\ Skipped(c[a].events[b])
    BY EverythingIs
  <2>2. PICK b \in DOMAIN c[a].events : p = <<a, b>>  BY <2>1
  <2>3. p[1] = a /\ p[2] = b  BY <2>2
  <2>4. a \in Nat /\ b \in Nat /\ b >= 1 /\ (a = i => b <= n)  BY <1>1
  <2> QED  BY <1>1, <2>3, <2>4 DEF Before
<1> QED  BY <1>2, <1>3 DEF Upto, BadUpto, n

\* No places before the first calendar, all of them after the last.
LEMMA UptoEnds ==
  ASSUME NEW c \in Seq(Calendar)
  PROVE  /\ Upto(c, 1, 0) = {} /\ BadUpto(c, 1, 0) = {}
         /\ Upto(c, Len(c) + 1, 0) = Everything(c) /\ BadUpto(c, Len(c) + 1, 0) = Bad(c)
<1> DEFINE n == Len(c)
<1>1. /\ n \in Nat
      /\ \A a \in DOMAIN c : a \in 1..n /\ \A b \in DOMAIN c[a].events : b \in Nat /\ b >= 1
  BY CalendarParts
<1> HIDE DEF n
<1>2. ASSUME NEW p \in Everything(c) PROVE ~Before(p, 1, 0) /\ Before(p, n + 1, 0)
  <2>1. PICK a \in DOMAIN c : \E b \in DOMAIN c[a].events :
                                \E k \in Held(c[a].events[b]) : p = <<a, b, k>>
    BY EverythingIs
  <2>2. PICK b \in DOMAIN c[a].events : \E k \in Held(c[a].events[b]) : p = <<a, b, k>>  BY <2>1
  <2>3. p[1] = a /\ p[2] = b  BY <2>2
  <2> QED  BY <1>1, <2>3 DEF Before
<1>3. ASSUME NEW p \in Bad(c) PROVE ~Before(p, 1, 0) /\ Before(p, n + 1, 0)
  <2>1. PICK a \in DOMAIN c : \E b \in DOMAIN c[a].events : p = <<a, b>> /\ Skipped(c[a].events[b])
    BY EverythingIs
  <2>2. PICK b \in DOMAIN c[a].events : p = <<a, b>>  BY <2>1
  <2>3. p[1] = a /\ p[2] = b  BY <2>2
  <2> QED  BY <1>1, <2>3 DEF Before
<1> QED  BY <1>2, <1>3 DEF Upto, BadUpto, n

\* A listing that has not failed drew what there is up to a place, and counted
\* what it passed over, unless it ended.
Counts(c, l, i, j) ==
  ~l.failed =>
    /\ Draws(l.all, Upto(c, i, j), Times(c), ~l.ended)
    /\ ~l.ended => IsFiniteSet(BadUpto(c, i, j)) /\ l.skipped = Cardinality(BadUpto(c, i, j))

\* The times of an event are times of its places among all.
LEMMA HereDrawn ==
  ASSUME NEW c \in Seq(Calendar), NEW i \in DOMAIN c, NEW j \in DOMAIN c[i].events,
         NEW s, NEW all, Draws(s, Held(c[i].events[j]), TimesOf(c[i].events[j]), all)
  PROVE  Draws(s, Here(c, i, j), Times(c), all)
<1> DEFINE ev == c[i].events[j]
           H == Held(ev)
           t == TimesOf(ev)
           f == [k \in H |-> <<i, j, k>>]
           R == Here(c, i, j)
           w == Times(c)
<1>1. R = {<<i, j, k>> : k \in H}  BY DEF Here
<1>2. f \in [H -> R]  BY <1>1
<1>3. \A a, b \in H : f[a] = f[b] => a = b  OBVIOUS
<1>4. \A p \in R : \E k \in H : f[k] = p  BY <1>1
<1>5. ASSUME NEW k \in H PROVE t[k] = w[f[k]]
  <2>1. <<i, j, k>> \in Everything(c)  BY EverythingIs
  <2>2. w[<<i, j, k>>] = TimeAt(c, <<i, j, k>>)  BY <2>1 DEF Times
  <2>3. TimeAt(c, <<i, j, k>>) = t[k]  BY DEF TimeAt, EventAt
  <2> QED  BY <2>2, <2>3
<1> HIDE DEF f, R, H, t, w
<1>6. f \in Bijection(H, R)  BY <1>2, <1>3, <1>4, Fun_IsBij
<1>7. Draws(s, H, t, all)  BY DEF H, t
<1>8. Draws(s, R, w, all)  BY <1>5, <1>6, <1>7, DrawsRenamed
<1> QED  BY <1>8 DEF R, w

\* The count is right one event later ...
LEMMA CountsEvent ==
  ASSUME NEW c \in Seq(Calendar), NEW i \in DOMAIN c, NEW j \in DOMAIN c[i].events,
         NEW l \in ListingStates, Counts(c, l, i, j - 1)
  PROVE  LET u == AddEvent(l, c[i].events[j])
         IN u \in ListingStates /\ Counts(c, u, i, j) /\ u.failed = l.failed
<1> DEFINE ev == c[i].events[j]
           u == AddEvent(l, ev)
<1>1. ev \in Event  BY CalendarParts
<1> HIDE DEF ev
<1>2. u \in ListingStates /\ Added(l, ev, u)  BY <1>1, AddEventRight
<1> HIDE DEF u
<1>3. /\ Upto(c, i, j) = Upto(c, i, j - 1) \cup Here(c, i, j)
      /\ Upto(c, i, j - 1) \cap Here(c, i, j) = {}
      /\ BadUpto(c, i, j) = BadUpto(c, i, j - 1) \cup (IF Skipped(ev) THEN {<<i, j>>} ELSE {})
      /\ <<i, j>> \notin BadUpto(c, i, j - 1)
  BY UptoGrows DEF ev
<1>4. l.all \in Seq(Int) /\ l.skipped \in Nat  BY ListingStateParts
<1>5. CASE l.failed
  <2>1. u = l  BY <1>2, <1>5 DEF Added
  <2> QED  BY <1>2, <1>5, <2>1 DEF Counts, u, ev
<1>6. CASE ~l.failed /\ l.ended
  <2>1. u = l  BY <1>2, <1>6 DEF Added
  <2>2. Draws(l.all, Upto(c, i, j - 1), Times(c), ~l.ended)  BY <1>6 DEF Counts
  <2>3. Draws(l.all, Upto(c, i, j), Times(c), ~l.ended)  BY <1>3, <1>6, <2>2, DrawsFewer
  <2> QED  BY <1>2, <1>6, <2>1, <2>3 DEF Counts, u, ev
<1>7. CASE ~l.failed /\ ~l.ended
  <2>1. PICK occ \in Seq(Int) : u.all = l.all \o occ /\ Draws(occ, Held(ev), TimesOf(ev), ~u.ended)
    BY <1>2, <1>7 DEF Added
  <2>2. u.failed = l.failed /\ u.skipped = l.skipped + (IF Skipped(ev) THEN 1 ELSE 0)
    BY <1>2, <1>7 DEF Added
  <2>3. /\ Draws(l.all, Upto(c, i, j - 1), Times(c), ~l.ended)
        /\ IsFiniteSet(BadUpto(c, i, j - 1)) /\ l.skipped = Cardinality(BadUpto(c, i, j - 1))
    BY <1>7 DEF Counts
  <2>4. Draws(u.all, Upto(c, i, j), Times(c), ~u.ended)
    <3> DEFINE open == ~u.ended
               before == ~l.ended
               w == Times(c)
               S == Upto(c, i, j - 1)
               R == Here(c, i, j)
    <3>1. Draws(occ, R, w, open)
      <4>1. Draws(occ, Held(ev), TimesOf(ev), open)  BY <2>1
      <4> HIDE DEF open
      <4> QED  BY <4>1, HereDrawn DEF ev
    <3>2. Draws(l.all, S, w, before)  BY <2>3
    <3>3. before  BY <1>7
    <3> HIDE DEF open, before, w, S, R
    <3>4. S \cap R = {} /\ Upto(c, i, j) = S \cup R  BY <1>3 DEF S, R
    <3>5. Draws(l.all \o occ, S \cup R, w, before /\ open)
      BY <1>4, <3>1, <3>2, <3>4, DrawsJoined
    <3>6. Draws(l.all \o occ, S \cup R, w, open)  BY <3>3, <3>5, DrawsFewer
    <3> QED  BY <2>1, <3>4, <3>6 DEF open, w
  <2>5. IsFiniteSet(BadUpto(c, i, j)) /\ u.skipped = Cardinality(BadUpto(c, i, j))
    <3> DEFINE B == BadUpto(c, i, j - 1)
               p == <<i, j>>
    <3>1. IsFiniteSet(B) /\ l.skipped = Cardinality(B) /\ p \notin B  BY <1>3, <2>3
    <3>2. BadUpto(c, i, j) = B \cup (IF Skipped(ev) THEN {p} ELSE {})  BY <1>3
    <3> HIDE DEF B, p
    <3>3. CASE Skipped(ev)
      <4>1. BadUpto(c, i, j) = B \cup {p}  BY <3>2, <3>3
      <4>2. IsFiniteSet(B \cup {p}) /\ Cardinality(B \cup {p}) = Cardinality(B) + 1
        BY <3>1, FS_AddElement
      <4> QED  BY <2>2, <3>1, <3>3, <4>1, <4>2
    <3>4. CASE ~Skipped(ev)
      <4>1. BadUpto(c, i, j) = B /\ u.skipped = l.skipped  BY <1>4, <2>2, <3>2, <3>4
      <4> QED  BY <3>1, <4>1
    <3> QED  BY <3>3, <3>4
  <2> QED  BY <1>2, <2>2, <2>4, <2>5 DEF Counts, u, ev
<1> QED  BY <1>5, <1>6, <1>7

\* ... and after all of a calendar, by induction over its events.
LEMMA CountsEvents ==
  ASSUME NEW c \in Seq(Calendar), NEW i \in DOMAIN c, NEW l \in ListingStates, Counts(c, l, i, 0)
  PROVE  LET u == AddEvents(l, c[i].events)
         IN u \in ListingStates /\ Counts(c, u, i, Len(c[i].events)) /\ u.failed = l.failed
<1> DEFINE s == c[i].events
           n == Len(s)
           T == ListingStates
<1>1. n \in Nat /\ DOMAIN s = 1..n /\ \A j \in 1..n : s[j] \in Event  BY CalendarParts
<1>2. EventKeeps(T, n, s)  BY <1>1, AddEventRight DEF EventKeeps
<1>3. PICK loop \in [0..n -> T] : /\ loop[0] = l /\ loop[n] = AddEvents(l, s)
                                  /\ \A k \in 1..n : loop[k] = AddEvent(loop[k - 1], s[k])
  <2> HIDE DEF s, n, T
  <2>1. l \in T  BY DEF T
  <2>2. EventLoops(T, l, n, s)  BY <1>1, <1>2, <2>1, EventLoop
  <2> QED  BY <2>2 DEF EventLoops
<1> DEFINE I == {k \in 0..n : Counts(c, loop[k], i, k) /\ loop[k].failed = l.failed}
<1>4. 0 \in I  BY <1>1, <1>3
<1>5. ASSUME NEW k \in 1..n, k - 1 \in I PROVE k \in I
  <2>1. k \in 0..n /\ k - 1 \in 0..n /\ k \in DOMAIN s  BY <1>1
  <2>2. loop[k - 1] \in T /\ Counts(c, loop[k - 1], i, k - 1) /\ loop[k - 1].failed = l.failed
    BY <1>3, <1>5, <2>1
  <2>3. loop[k] = AddEvent(loop[k - 1], c[i].events[k])  BY <1>3
  <2>4. Counts(c, loop[k], i, k) /\ loop[k].failed = loop[k - 1].failed
    BY <2>1, <2>2, <2>3, CountsEvent
  <2> QED  BY <2>1, <2>2, <2>4
<1>6. n \in I
  <2> HIDE DEF I, n
  <2>1. n \in 0..n  BY <1>1
  <2> QED  BY <1>1, <1>4, <1>5, <2>1, LoopInduction
<1>7. loop[n] \in T  BY <1>1, <1>3
<1> QED  BY <1>3, <1>6, <1>7

\* The calendars that are listed are calendars of the account.
LEMMA TargetTyped ==
  ASSUME NEW calendars \in Seq(Calendar), NEW named \in BOOLEAN
  PROVE  TargetCalendars(calendars, named) \in Seq(Calendar)
<1> DEFINE T == Seq(Calendar)
           n == Len(calendars)
           first == <<>>
<1>1. n \in Nat /\ DOMAIN calendars = 1..n /\ \A k \in 1..n : calendars[k] \in Calendar
  BY LenProperties, ElementOfSeq
<1>2. ActiveKeeps(T, n, calendars)
  <2>1. ASSUME NEW t \in T, NEW k \in 1..n PROVE KeepActive(t, calendars[k]) \in T
    <3>1. Append(t, calendars[k]) \in T  BY <1>1, AppendProperties
    <3> HIDE DEF T
    <3> QED  BY <3>1 DEF KeepActive
  <2> QED  BY <2>1 DEF ActiveKeeps
<1>3. first \in T /\ first = <<>>  OBVIOUS
<1> HIDE DEF first, n, T
<1>4. ActiveCalendars(calendars) \in T  BY <1>1, <1>2, <1>3, KeepLoop
<1> QED  BY <1>4 DEF TargetCalendars, T

\* The places of finitely many calendars are finitely many.
LEMMA ImageFinite ==
  ASSUME NEW S, IsFiniteSet(S), NEW f, DOMAIN f = S
  PROVE  IsFiniteSet({f[x] : x \in S})
<1> DEFINE R == {f[x] : x \in S}
           g == [x \in S |-> f[x]]
<1>1. g \in [S -> R] /\ \A y \in R : \E x \in S : g[x] = y  OBVIOUS
<1> HIDE DEF g, R
<1>2. g \in Surjection(S, R)  BY <1>1, Fun_IsSurj
<1>3. IsFiniteSet(R)  BY <1>2, FS_Surjection
<1> QED  BY <1>3 DEF R

\* There are finitely many places, as the cardinalities of the property need.
LEMMA PlacesFinite ==
  ASSUME NEW c \in Seq(Calendar)
  PROVE  IsFiniteSet(Everything(c))
<1>1. /\ \A i \in DOMAIN c : IsFiniteSet(DOMAIN c[i].events)
      /\ IsFiniteSet(DOMAIN c)
  <2>1. \A n \in Nat : IsFiniteSet(1..n)  BY FS_Interval
  <2> QED  BY <2>1, CalendarParts
<1>2. IsFiniteSet(EventsOf(c))
  <2> DEFINE row == [i \in DOMAIN c |-> {<<i, j>> : j \in DOMAIN c[i].events}]
             rows == {row[i] : i \in DOMAIN c}
  <2>1. ASSUME NEW i \in DOMAIN c PROVE IsFiniteSet(row[i])
    <3> DEFINE E == DOMAIN c[i].events
               f == [j \in E |-> <<i, j>>]
    <3>1. row[i] = {f[j] : j \in E} /\ DOMAIN f = E  OBVIOUS
    <3>2. IsFiniteSet(E)  BY <1>1
    <3> HIDE DEF f, E, row
    <3> QED  BY <3>1, <3>2, ImageFinite
  <2>2. EventsOf(c) = UNION rows  BY DEF EventsOf
  <2>3. DOMAIN row = DOMAIN c  OBVIOUS
  <2> HIDE DEF row
  <2>4. IsFiniteSet(rows)  BY <1>1, <2>3, ImageFinite
  <2>5. \A T \in rows : IsFiniteSet(T)  BY <2>1
  <2> HIDE DEF rows
  <2> QED  BY <2>2, <2>4, <2>5, FS_UNION
<1>3. ASSUME NEW p \in EventsOf(c) PROVE IsFiniteSet(Held(EventAt(c, p)))
  <2>1. PICK i \in DOMAIN c : \E j \in DOMAIN c[i].events : p = <<i, j>>  BY DEF EventsOf
  <2>2. PICK j \in DOMAIN c[i].events : p = <<i, j>>  BY <2>1
  <2> DEFINE ev == c[i].events[j]
  <2>3. EventAt(c, p) = ev  BY <2>2 DEF EventAt
  <2>4. ev \in Event  BY CalendarParts
  <2> HIDE DEF ev
  <2>5. ev.start \in Int /\ ev.rule \in Seq(Int)  BY <2>4, EventParts
  <2>6. PICK n \in Nat : Held(ev) \in SUBSET (1..n)
    <3>1. CASE ev.kind = "single"
      <4>1. TimesOf(ev) = <<ev.start>> /\ DOMAIN <<ev.start>> = 1..1  BY <3>1 DEF TimesOf
      <4>2. Held(ev) \in SUBSET (1..1)  BY <4>1 DEF Held
      <4> QED  BY <4>2
    <3>2. CASE ev.kind # "single"
      <4> DEFINE r == ev.rule
                 n == Len(r)
      <4>1. TimesOf(ev) = r /\ n \in Nat /\ DOMAIN r = 1..n  BY <2>5, <3>2, LenProperties DEF TimesOf
      <4> HIDE DEF n, r
      <4>2. Held(ev) \in SUBSET (1..n)  BY <4>1 DEF Held
      <4> QED  BY <4>1, <4>2
    <3> QED  BY <3>1, <3>2
  <2>7. IsFiniteSet(1..n)  BY FS_Interval
  <2>8. IsFiniteSet(Held(ev))  BY <2>6, <2>7, FS_Subset
  <2> QED  BY <2>3, <2>8
<1>4. QED
  <2> DEFINE P == EventsOf(c)
             row == [p \in P |-> {<<p[1], p[2], k>> : k \in Held(EventAt(c, p))}]
             rows == {row[p] : p \in P}
  <2>1. ASSUME NEW p \in P PROVE IsFiniteSet(row[p])
    <3> DEFINE E == Held(EventAt(c, p))
               f == [k \in E |-> <<p[1], p[2], k>>]
    <3>1. row[p] = {f[j] : j \in E} /\ DOMAIN f = E  OBVIOUS
    <3>2. IsFiniteSet(E)  BY <1>3
    <3> HIDE DEF f, E, row
    <3> QED  BY <3>1, <3>2, ImageFinite
  <2>2. Everything(c) = UNION rows  BY DEF Everything
  <2>3. DOMAIN row = P /\ IsFiniteSet(P)  BY <1>2
  <2> HIDE DEF row, P
  <2>4. IsFiniteSet(rows)  BY <2>3, ImageFinite
  <2>5. \A T \in rows : IsFiniteSet(T)  BY <2>1
  <2> HIDE DEF rows
  <2> QED  BY <2>2, <2>4, <2>5, FS_UNION

\* Whether the calendars before i were read.
Opened(c, l, i) ==
  /\ l.failed => \E k \in DOMAIN c : ~c[k].opens
  /\ ~l.failed /\ ~l.ended => \A k \in DOMAIN c : k < i => c[k].opens

\* A list stays one through the events of a calendar ...
LEMMA AddEventsTyped ==
  ASSUME NEW l \in ListingStates, NEW s \in Seq(Event)
  PROVE  AddEvents(l, s) \in ListingStates
<1> DEFINE n == Len(s)
           T == ListingStates
<1>1. n \in Nat /\ DOMAIN s = 1..n /\ \A j \in 1..n : s[j] \in Event
  BY LenProperties, ElementOfSeq
<1>2. EventKeeps(T, n, s)  BY <1>1, AddEventRight DEF EventKeeps
<1>3. l \in T  OBVIOUS
<1> HIDE DEF n, T
<1>4. EventLoops(T, l, n, s)  BY <1>1, <1>2, <1>3, EventLoop
<1>5. AddEvents(l, s) \in T  BY <1>1, <1>4 DEF EventLoops
<1> QED  BY <1>5 DEF T

\* ... and through a calendar that may not open.
LEMMA AddCalendarTyped ==
  ASSUME NEW l \in ListingStates, NEW cal \in Calendar
  PROVE  AddCalendar(l, cal) \in ListingStates
<1>1. cal.events \in Seq(Event)  BY DEF Calendar
<1>2. AddEvents(l, cal.events) \in ListingStates  BY <1>1, AddEventsTyped
<1> DEFINE u == [l EXCEPT !.failed = TRUE]
<1>3. u \in ListingStates
  <2>1. l \in ListingState /\ InLimit(l)  BY DEF ListingStates
  <2>2. u \in ListingState /\ u.all = l.all /\ u.ended = l.ended /\ u.truncated = l.truncated
    BY <2>1 DEF ListingState
  <2> HIDE DEF u
  <2> QED  BY <2>1, <2>2 DEF ListingStates, InLimit
<1> HIDE DEF u
<1> QED  BY <1>2, <1>3 DEF AddCalendar, u

\* The count is right one calendar later, and one that does not open fails
\* the listing.
LEMMA CountsCalendar ==
  ASSUME NEW c \in Seq(Calendar), NEW i \in DOMAIN c, NEW l \in ListingStates,
         Counts(c, l, i, 0), Opened(c, l, i)
  PROVE  LET u == AddCalendar(l, c[i]) IN Counts(c, u, i + 1, 0) /\ Opened(c, u, i + 1)
<1> DEFINE u == AddCalendar(l, c[i])
<1>1. /\ Upto(c, i, Len(c[i].events)) = Upto(c, i + 1, 0)
      /\ BadUpto(c, i, Len(c[i].events)) = BadUpto(c, i + 1, 0)
      /\ Upto(c, i, 0) \subseteq Upto(c, i + 1, 0)
  BY UptoNext
<1>2. \A k \in DOMAIN c : k \in Nat /\ (k < i + 1 <=> k < i \/ k = i)  BY CalendarParts
<1>3. CASE l.failed
  <2>1. u = l  BY <1>3 DEF AddCalendar
  <2> QED  BY <1>3, <2>1 DEF Counts, Opened
<1>4. CASE ~l.failed /\ l.ended
  <2>1. u = l  BY <1>4 DEF AddCalendar
  <2>2. Draws(l.all, Upto(c, i, 0), Times(c), ~l.ended)  BY <1>4 DEF Counts
  <2>3. Draws(l.all, Upto(c, i + 1, 0), Times(c), ~l.ended)  BY <1>1, <1>4, <2>2, DrawsFewer
  <2> QED  BY <1>4, <2>1, <2>3 DEF Counts, Opened
<1>5. CASE ~l.failed /\ ~l.ended /\ ~c[i].opens
  <2>1. u = [l EXCEPT !.failed = TRUE]  BY <1>5 DEF AddCalendar
  <2>2. u.failed  BY <2>1, ListingStateParts DEF ListingState
  <2> HIDE DEF u
  <2> QED  BY <1>5, <2>2 DEF Counts, Opened, u
<1>6. CASE ~l.failed /\ ~l.ended /\ c[i].opens
  <2>1. u = AddEvents(l, c[i].events)  BY <1>6 DEF AddCalendar
  <2>2. Counts(c, u, i, Len(c[i].events)) /\ u.failed = l.failed  BY <2>1, CountsEvents
  <2> HIDE DEF u
  <2>3. Counts(c, u, i + 1, 0)  BY <1>1, <2>2 DEF Counts
  <2>4. \A k \in DOMAIN c : k < i + 1 => c[k].opens  BY <1>2, <1>6 DEF Opened
  <2>5. Opened(c, u, i + 1)  BY <1>6, <2>2, <2>4 DEF Opened
  <2> QED  BY <2>3, <2>5 DEF u
<1> QED  BY <1>3, <1>4, <1>5, <1>6

\* The count is right at the end, by induction over the calendars.
LEMMA CountsAll ==
  ASSUME NEW c \in Seq(Calendar)
  PROVE  LET l == AddCalendars(c)
         IN l \in ListingStates /\ Counts(c, l, Len(c) + 1, 0) /\ Opened(c, l, Len(c) + 1)
<1> DEFINE n == Len(c)
           T == ListingStates
<1>1. n \in Nat /\ DOMAIN c = 1..n /\ \A k \in 1..n : c[k] \in Calendar
  BY LenProperties, ElementOfSeq
<1>2. CalendarKeeps(T, n, c)  BY <1>1, AddCalendarTyped DEF CalendarKeeps
<1>3. /\ Listing \in T /\ Listing.skipped = 0
      /\ ~Listing.failed /\ ~Listing.ended /\ Listing.all = <<>>
  <2>1. /\ Listing.skipped = 0 /\ Listing.failed = FALSE /\ Listing.ended = FALSE
        /\ Listing.truncated = FALSE
    BY DEF Listing
  <2>2. Listing.all = <<>>  BY DEF Listing
  <2>3. Listing \in ListingState  BY DEF Listing, ListingState
  <2>4. Len(<<>>) = 0 /\ MaxOccurrences \in Nat \ {0}  BY EventsAssumption
  <2>5. Len(Listing.all) = 0  BY <2>2, <2>4
  <2>6. InLimit(Listing)  BY <2>1, <2>4, <2>5 DEF InLimit
  <2> QED  BY <2>1, <2>2, <2>3, <2>6 DEF ListingStates
<1>4. PICK loop \in [0..n -> T] : /\ loop[0] = Listing /\ loop[n] = AddCalendars(c)
                                  /\ \A k \in 1..n : loop[k] = AddCalendar(loop[k - 1], c[k])
  <2> HIDE DEF n, T
  <2>1. CalendarLoops(T, n, c)  BY <1>1, <1>2, <1>3, CalendarLoop
  <2> QED  BY <2>1 DEF CalendarLoops
<1> DEFINE I == {k \in 0..n : Counts(c, loop[k], k + 1, 0) /\ Opened(c, loop[k], k + 1)}
<1>5. 0 \in I
  <2>1. Upto(c, 1, 0) = {} /\ BadUpto(c, 1, 0) = {}  BY UptoEnds
  <2>2. Draws(<<>>, {}, Times(c), ~Listing.ended)  BY DrawsNothing
  <2>3. Draws(Listing.all, Upto(c, 1, 0), Times(c), ~Listing.ended)  BY <1>3, <2>1, <2>2
  <2>4. IsFiniteSet(BadUpto(c, 1, 0)) /\ Listing.skipped = Cardinality(BadUpto(c, 1, 0))
    BY <1>3, <2>1, FS_EmptySet
  <2>5. Counts(c, Listing, 1, 0)  BY <2>3, <2>4 DEF Counts
  <2>6. Opened(c, Listing, 1)  BY <1>1, <1>3 DEF Opened
  <2>7. 0 \in 0..n /\ 0 + 1 = 1  BY <1>1
  <2> QED  BY <1>4, <2>5, <2>6, <2>7
<1>6. ASSUME NEW k \in 1..n, k - 1 \in I PROVE k \in I
  <2>1. k \in 0..n /\ k - 1 \in 0..n /\ k \in DOMAIN c /\ (k - 1) + 1 = k  BY <1>1
  <2>2. loop[k - 1] \in T /\ Counts(c, loop[k - 1], k, 0) /\ Opened(c, loop[k - 1], k)
    BY <1>4, <1>6, <2>1
  <2>3. loop[k] = AddCalendar(loop[k - 1], c[k])  BY <1>4
  <2>4. Counts(c, loop[k], k + 1, 0) /\ Opened(c, loop[k], k + 1)
    BY <2>1, <2>2, <2>3, CountsCalendar
  <2> QED  BY <2>1, <2>4
<1>7. n \in I
  <2> HIDE DEF I, n
  <2>1. n \in 0..n  BY <1>1
  <2> QED  BY <1>1, <1>5, <1>6, <2>1, LoopInduction
<1>8. loop[n] \in T  BY <1>1, <1>4
<1> QED  BY <1>4, <1>7, <1>8

\* The listing is faithful, and a bad event does not fail it.
LEMMA ListingRight ==
  ASSUME NEW x \in Listings
  PROVE  LET l == ListEvents(x.calendars, x.named)
         IN /\ FaithfulListing(x.calendars, x.named, l)
            /\ OneBadEventIsSkipped(x.calendars, x.named, l)
<1> DEFINE c == TargetCalendars(x.calendars, x.named)
           l == AddCalendars(c)
           u == ListEvents(x.calendars, x.named)
           s == Sorted(l.all)
<1>1. c \in Seq(Calendar)  BY AlgorithmsAssumption, TargetTyped
<1>2. u = [l EXCEPT !.all = s]  BY DEF ListEvents
<1> HIDE DEF c
<1>3. l \in ListingStates /\ Counts(c, l, Len(c) + 1, 0) /\ Opened(c, l, Len(c) + 1)
  BY <1>1, CountsAll
<1> HIDE DEF l, u, s
<1>4. /\ l \in ListingState /\ l.all \in Seq(Int) /\ l.skipped \in Nat
      /\ l.truncated \in BOOLEAN /\ l.ended \in BOOLEAN /\ l.failed \in BOOLEAN
      /\ Len(l.all) \in Nat /\ Len(l.all) <= MaxOccurrences
      /\ l.ended <=> Len(l.all) = MaxOccurrences
      /\ l.truncated <=> l.ended
  BY <1>3, ListingStateParts
<1>5. u.all = s /\ u.truncated = l.truncated /\ u.skipped = l.skipped /\ u.failed = l.failed
  BY <1>2, <1>4 DEF ListingState
<1>6. OneBadEventIsSkipped(x.calendars, x.named, u)
  BY <1>3, <1>5 DEF OneBadEventIsSkipped, Opened, c
<1>7. ASSUME ~u.failed
      PROVE  /\ \A i, j \in DOMAIN u.all : i <= j => u.all[i] <= u.all[j]
             /\ \A t \in Range(u.all) :
                  Cardinality({i \in DOMAIN u.all : u.all[i] = t})
                    <= Cardinality({p \in Everything(c) : TimeAt(c, p) = t})
             /\ Len(u.all) <= MaxOccurrences
             /\ ~u.truncated => /\ Len(u.all) = Cardinality(Everything(c))
                                /\ u.skipped = Cardinality(Bad(c))
                                /\ \A i \in DOMAIN c : c[i].opens
             /\ u.truncated => Len(u.all) = MaxOccurrences
  <2> DEFINE S == Everything(c)
             w == Times(c)
             open == ~l.ended
  <2>1. IsFiniteSet(S)  BY <1>1, PlacesFinite
  <2>2. /\ Upto(c, Len(c) + 1, 0) = S /\ BadUpto(c, Len(c) + 1, 0) = Bad(c)
    BY <1>1, UptoEnds
  <2>3. Draws(l.all, S, w, open) /\ (open => l.skipped = Cardinality(Bad(c)))
    BY <1>3, <1>5, <1>7, <2>2 DEF Counts
  <2>4. \A p \in S : w[p] = TimeAt(c, p)  BY DEF Times
  <2> HIDE DEF S, w, open
  <2>5. /\ s \in Seq(Int) /\ Len(s) = Len(l.all) /\ Draws(s, S, w, open)
        /\ \A i, j \in DOMAIN s : i <= j => s[i] <= s[j]
    BY <1>4, <2>3, SortedRight DEF s
  <2>6. ASSUME NEW t
        PROVE  Cardinality({i \in DOMAIN s : s[i] = t}) <= Cardinality({p \in S : TimeAt(c, p) = t})
    <3>1. {p \in S : TimeAt(c, p) = t} = {p \in S : w[p] = t}  BY <2>4
    <3>2. Draws(s, S, w, open)  BY <2>5
    <3>3. Cardinality(PlacesOf(s, DOMAIN s, t)) <= Cardinality(PlacesOf(w, S, t))
      BY <2>1, <3>2, DrawsCounted
    <3> QED  BY <3>1, <3>3 DEF PlacesOf
  <2>7. ASSUME ~l.truncated
        PROVE  /\ Len(s) = Cardinality(S) /\ l.skipped = Cardinality(Bad(c))
               /\ \A i \in DOMAIN c : c[i].opens
    <3>1. open /\ ~l.ended  BY <1>4, <2>7 DEF open
    <3>2. Draws(s, S, w, TRUE)  BY <2>5, <3>1, DrawsFewer
    <3>3. Len(s) = Cardinality(S)  BY <2>1, <2>5, <3>2, DrawsAllOf
    <3>4. \A i \in DOMAIN c : i < Len(c) + 1  BY <1>1, CalendarParts
    <3>5. \A i \in DOMAIN c : c[i].opens  BY <1>3, <1>5, <1>7, <3>1, <3>4 DEF Opened
    <3> QED  BY <2>3, <3>1, <3>3, <3>5
  <2>8. l.truncated => Len(s) = MaxOccurrences  BY <1>4, <2>5
  <2>9. Len(s) <= MaxOccurrences  BY <1>4, <2>5
  <2> QED  BY <1>5, <2>5, <2>6, <2>7, <2>8, <2>9 DEF S
<1>8. FaithfulListing(x.calendars, x.named, u)  BY <1>7 DEF FaithfulListing, c
<1> QED  BY <1>6, <1>8 DEF u

-----------------------------------------------------------------------------
(***************************************************************************)
(* The runs: an output is the result of its function on the input.         *)
(***************************************************************************)
Inputs == \/ input \in Jobs("decrypt", Worlds) \/ input \in Jobs("list", Listings)
          \/ input \in Jobs("2fa", TwoFactors) \/ input \in Jobs("raw", RawCalls)
          \/ input \in Jobs("sender", Senders) \/ input \in Jobs("status", StatusRuns)
          \/ input \in Jobs("log", LogRecords)
Report(w) == LET r == Result(w)
             IN [ok |-> r.ok, says |-> IF r.ok THEN Says("ok") ELSE Map(r.err)]
Answered ==
  /\ Done("decrypt") => output.is = Report(input.of)
  /\ Done("raw") => output.is = RawResult(input.of.name, input.of.id, input.of.response)
  /\ Done("status") => output.is = RunStatus(input.of)
  /\ Done("log") => output.is = RedactAttr(input.of)
  /\ Done("list") => output.is = ListEvents(input.of.calendars, input.of.named)
  /\ Done("2fa") => output.is = AfterTwoFactor(input.of.base, input.of.responses)
  /\ Done("sender") => output.is = ResolveSender(input.of.addrs, input.of.named)

LEMMA RanOnce ==
  ASSUME NEW kind, NEW result, Runs(kind, result)
  PROVE  input' = input /\ input.kind = kind /\ output'.is = result
BY DEF Runs

LEMMA AnsweredAlways == Spec => [](Inputs /\ Answered)
<1>1. Init => Inputs /\ Answered  BY DEF Init, Inputs, Answered, Done
<1>2. ASSUME Inputs, [Next]_vars PROVE Inputs'
  <2>1. input' = input
    BY <1>2, RanOnce DEF Next, Decrypts, Lists, Merges, Calls, Sends, Reports, Logs, vars
  <2> QED  BY <1>2, <2>1 DEF Inputs, Jobs
<1>3. ASSUME Answered, [Next]_vars PROVE Answered'
  <2>1. CASE Decrypts  BY <2>1, RanOnce DEF Decrypts, Answered, Done, Report
  <2>2. CASE Calls  BY <2>2, RanOnce DEF Calls, Answered, Done
  <2>3. CASE Reports  BY <2>3, RanOnce DEF Reports, Answered, Done
  <2>4. CASE Logs  BY <2>4, RanOnce DEF Logs, Answered, Done
  <2>5. CASE Lists  BY <2>5, RanOnce DEF Lists, Answered, Done
  <2>6. CASE Merges  BY <2>6, RanOnce DEF Merges, Answered, Done
  <2>7. CASE Sends  BY <2>7, RanOnce DEF Sends, Answered, Done
  <2>8. CASE UNCHANGED vars  BY <1>3, <2>8 DEF vars, Answered, Done
  <2> QED  BY <1>3, <2>1, <2>2, <2>3, <2>4, <2>5, <2>6, <2>7, <2>8 DEF Next
<1> QED  BY <1>1, <1>2, <1>3, PTL DEF Spec

\* The input of a finished run is one of its kind.
LEMMA InputOf ==
  ASSUME Inputs
  PROVE  /\ Done("decrypt") => input.of \in Worlds
         /\ Done("status") => input.of \in StatusRuns
         /\ Done("log") => input.of \in LogRecords
         /\ Done("list") => input.of \in Listings
         /\ Done("2fa") => input.of \in TwoFactors
         /\ Done("sender") => input.of \in Senders
BY DEF Inputs, Jobs, Done

\* What a tool that needs a key says is wrong is wrong, for every account, set
\* of keys, failing request and outcome of the login that is to heal a denied
\* scope: Keyrings and errToMCP name the scope exactly when Proton denied the
\* salts to the last unlock tried and no challenge came, and no wrong password
\* where the password is right.
THEOREM DiagnosisRight == Spec => []DiagnosisFits
<1>1. ASSUME Inputs, Answered PROVE DiagnosisFits
  <2>1. SUFFICES ASSUME Done("decrypt")
                 PROVE  LET w == input.of
                            code == output.is.says.code
                            last == LastUnlock(w)
                        IN /\ code = "keyring_unlock_scope" <=> Denied(last) /\ ~Challenged(w)
                           /\ code = "keyring_locked" /\ RightPassword(w) /\ Usable(w) # {}
                                => w.tool = "get_event"
                           /\ last.broken = "salts" /\ last.error.net => code = "upstream"
    BY DEF DiagnosisFits
  <2> DEFINE w == input.of
  <2>2. w \in Worlds /\ output.is = Report(w)  BY <1>1, <2>1, InputOf DEF Answered
  <2> HIDE DEF w
  <2>3. CASE ~Result(w).ok
    <3>1. output.is.says = Map(Result(w).err)  BY <2>2, <2>3 DEF Report
    <3> QED  BY <2>2, <2>3, <3>1, Diagnosis DEF w
  <2>4. CASE Result(w).ok
    <3>1. output.is.says.code = "ok"  BY <2>2, <2>4 DEF Report, Says
    <3>2. EndsRight(w, Result(w))  BY <2>2, ResultEnds
    <3>3. ~Challenged(w) /\ ~Denied(LastUnlock(w)) /\ LastUnlock(w).broken # "salts"
      BY <2>4, <3>2 DEF EndsRight
    <3> QED  BY <3>1, <3>3 DEF w
  <2> QED  BY <2>3, <2>4
<1> QED  BY <1>1, AnsweredAlways, PTL

\* One key that opens is enough, also when the first unlock was denied the scope
\* and a login healed it: neither an address whose keys do not unlock nor a
\* calendar member that does not decrypt stands in the way.
THEOREM OneKeySuffices == Spec => []OneKeyIsEnough
<1>1. ASSUME Inputs, Answered PROVE OneKeyIsEnough
  <2>1. SUFFICES ASSUME Done("decrypt"), Opens(input.of)
                 PROVE  LET w == input.of
                        IN /\ w.tool = "get_message" /\ w.addr \in Usable(w) /\ w.body = "sealed"
                                => output.is.ok
                           /\ w.tool = "create_draft" /\ w.addr \in Usable(w) => output.is.ok
                           /\ w.tool = "get_event" /\ w.calendarKeys /\ w.parts = <<"sealed">>
                                /\ (\E i \in DOMAIN w.members : Matches(Usable(w), w.members[i]))
                                => output.is.ok
    BY DEF OneKeyIsEnough, Opens, Served
  <2>2. input.of \in Worlds /\ output.is.ok = Result(input.of).ok
    BY <1>1, <2>1, InputOf DEF Answered, Report
  <2> QED  BY <2>1, <2>2, OneKey
<1> QED  BY <1>1, AnsweredAlways, PTL

\* A refusal of a directly called endpoint reads as the library's error of the
\* response would, but for a demand for human verification, which reads as its
\* status; and a refusal inside a 200 is no success.
THEOREM RefusalsAgree == Spec => []RefusalsReadTheSame
<1>1. ASSUME Answered PROVE RefusalsReadTheSame
  <2>1. SUFFICES ASSUME Done("raw")
                 PROVE  LET r == input.of.response
                            library == Map(LibraryError(r)).code
                        IN /\ r.net /\ r.status >= 400 /\ input.of.id = "plain" =>
                                output.is.code = IF library = "captcha"
                                                 THEN Map(ApiError(r.status, 0)).code ELSE library
                           /\ Refused(r) => output.is.code # "ok"
                           /\ output.is.retry # 0 => output.is.code = "rate_limited"
    BY DEF RefusalsReadTheSame, HTTPRefused, Refused
  <2>2. output.is = RawResult(input.of.name, input.of.id, input.of.response)
    BY <1>1, <2>1 DEF Answered
  <2> QED  BY <2>2, Refusals
<1> QED  BY <1>1, AnsweredAlways, PTL

\* `status` says a bare "not logged in" only when the other backend has no
\* session, and names a session there, or a store it cannot read, only when that
\* is what it is.
THEOREM StatusIsTrue == Spec => []NotLoggedInIsTrue
<1>1. ASSUME Inputs, Answered PROVE NotLoggedInIsTrue
  BY <1>1, InputOf, StatusTrue DEF Answered, NotLoggedInIsTrue
<1> QED  BY <1>1, AnsweredAlways, PTL

\* The redacting handler passes on every attribute in its place and no value of
\* one whose own name is sensitive, at the top or in a group of any length.  The
\* name of the group decides nothing: values in it are passed on under that name.
THEOREM LogIsRedacted == Spec => []LeavesRedacted
<1>1. ASSUME Inputs, Answered PROVE LeavesRedacted
  <2>1. SUFFICES ASSUME Done("log") PROVE LeavesRedacted  BY DEF LeavesRedacted
  <2>2. input.of \in LogRecords /\ output.is = RedactAttr(input.of)
    BY <1>1, <2>1, InputOf DEF Answered
  <2> QED  BY <2>2, Redacted DEF LeavesRedacted
<1> QED  BY <1>1, AnsweredAlways, PTL

\* The answer of proton_list_events is in order and holds no occurrence more often
\* than the calendars do in the window; unless it says that it is cut, it has all
\* of them and counts every event passed over; and the call fails only when a
\* calendar does not open, never for one bad event.
THEOREM ListingIsFaithful == Spec => []ListingFaithful
<1>1. ASSUME Inputs, Answered PROVE ListingFaithful
  <2>1. SUFFICES ASSUME Done("list")
                 PROVE  /\ FaithfulListing(input.of.calendars, input.of.named, output.is)
                        /\ OneBadEventIsSkipped(input.of.calendars, input.of.named, output.is)
    BY DEF ListingFaithful
  <2>2. input.of \in Listings /\ output.is = ListEvents(input.of.calendars, input.of.named)
    BY <1>1, <2>1, InputOf DEF Answered
  <2> QED  BY <2>2, ListingRight
<1> QED  BY <1>1, AnsweredAlways, PTL

\* However often the two-factor call was retried, and whichever shape its
\* responses have, the session keeps every token of the last usable one, and a
\* token of before exactly where that one has none.
THEOREM TokensAreKept == Spec => []TwoFactorKeepsTokens
<1>1. ASSUME Inputs, Answered PROVE TwoFactorKeepsTokens
  <2>1. SUFFICES ASSUME Done("2fa")
                 PROVE  LET good == {i \in DOMAIN input.of.responses : Brings(input.of.responses[i])}
                            last == CHOOSE i \in good : \A j \in good : j <= i
                            auth == IF good = {} THEN NoAuth
                                    ELSE ParseAuth2FABody(input.of.responses[last]).auth
                        IN \A f \in Fields :
                             output.is[f] = IF auth[f] = "" THEN input.of.base[f] ELSE auth[f]
    BY DEF TwoFactorKeepsTokens, Brings
  <2>2. input.of \in TwoFactors /\ output.is = AfterTwoFactor(input.of.base, input.of.responses)
    BY <1>1, <2>1, InputOf DEF Answered
  <2> QED  BY <2>2, TokensKept
<1> QED  BY <1>1, AnsweredAlways, PTL

\* A draft is sent from an address that is enabled and may send: the one named,
\* or else one of the lowest order; from none only when no such address is there.
THEOREM SenderIsAble == Spec => []SenderCanSend
<1>1. ASSUME Inputs, Answered PROVE SenderCanSend
  BY <1>1, InputOf, SenderFits DEF Answered, SenderCanSend
<1> QED  BY <1>1, AnsweredAlways, PTL
=============================================================================
