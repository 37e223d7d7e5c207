------------------------------ MODULE Decrypt ------------------------------
(***************************************************************************)
(* The way to a plaintext: keyring.Unlock, the calendar keyring, and the   *)
(* tools that decrypt (get_message with its body, get_event) or encrypt (a *)
(* draft), up to the code the tool reports.                                *)
(*                                                                         *)
(* A world w says what Proton would answer: w.broken is the request that   *)
(* fails, with the error w.error; w.relogin is how an unattended login     *)
(* ends, "logged in", "challenged" or "declined", and w.spent whether its  *)
(* one attempt is used up; w.again, [broken, error], is the request of the *)
(* unlock after that login that fails; the rest is what the keys can do.   *)
(***************************************************************************)
EXTENDS ProtErr

CONSTANTS
  Addresses,  \* addresses of the account
  Stranger    \* an address of somebody else

ASSUME DecryptAssumption == Stranger \notin Addresses

\* A function of the code returns a value or an error.  Its early returns are
\* probes, tried in order; Then is `if err != nil { return err }`.
Ok(value) == [ok |-> TRUE, value |-> value, err |-> Plain]
Err(e) == [ok |-> FALSE, value |-> {}, err |-> e]
Fails(f, request) == Probe(f.broken = request, Err(f.error))
Returns(value) == Probe(TRUE, Ok(value))
Then(result, next) == IF result.ok THEN next ELSE result
Locked == Err(Sentinel("ErrKeyringLocked"))

(***************************************************************************)
(* internal/keyring.  The value of Unlock is the set of addresses that     *)
(* have a keyring; the keys of the address in w.usable unlock.             *)
(***************************************************************************)
\* The mailbox password that a login stores: none where the login password
\* serves.
ChooseMailboxPassword(mode, supplied) ==
  First(<<Probe(mode = 2 /\ supplied = "", "error"), Probe(mode = 2, supplied),
          Probe(mode = 1, ""), Probe(TRUE, "error")>>)
\* Session.unlockOnce falls back to the login password.
UnlockPassword(stored, login) == IF stored # "" THEN stored ELSE login

\* Whether the stored passwords unlock the mailbox of the account.
MailboxPassword(mode) == IF mode = 2 THEN "mailbox" ELSE "login"
RightPassword(w) ==
  UnlockPassword(ChooseMailboxPassword(w.mode, w.supplied), "login") = MailboxPassword(w.mode)

SaltsDenied(f) ==
  Probe(f.broken = "salts" /\ ScopeDenied(f.error), Err(Wrap("ErrKeyringUnlockScope", f.error)))
Usable(w) == w.usable \cap Addresses

\* f: the request that fails and its error.
Unlock(w, f) ==
  First(<<SaltsDenied(f), Fails(f, "salts"), Fails(f, "user"), Probe(~w.primary \/ ~w.salt, Err(Plain)),
          Probe(~RightPassword(w), Locked), Fails(f, "addresses"),
          Probe(Addresses # {} /\ Usable(w) = {}, Locked), Returns(Usable(w))>>)

AddressKeyRing(krs, a) ==
  First(<<Probe(a \notin krs, Err(Sentinel("ErrAddressKeyringMissing"))), Returns({a})>>)

\* body: "sealed" to a key held, "foreign" to another, or "garbage".
DecryptBody(krs, a, body) ==
  First(<<Probe(a \notin krs \/ body # "sealed", Err(Sentinel("ErrBodyUndecryptable"))),
          Returns({"text"})>>)

(***************************************************************************)
(* internal/calendar.  w.members: the members of the calendar in order,    *)
(* each the address it belongs to and whether the passphrase decrypts.     *)
(***************************************************************************)
Matches(krs, m) == m.addr \in krs /\ m.decrypts

\* Mutant: the first member of the account decides, decrypting or not.
Passphrase_FirstMember(w, krs) ==
  \E i \in DOMAIN w.members :
    /\ Matches(krs, w.members[i])
    /\ \A j \in 1..(i - 1) : w.members[j].addr \notin Addresses

\* The loop of ResolveKeyring: a member that does not match, has no keyring or
\* does not decrypt is passed over.
Passphrase(w, krs) == \E i \in DOMAIN w.members : Matches(krs, w.members[i])

ResolveKeyring(w, krs) ==
  First(<<Fails(w, "members"), Fails(w, "addresses2"), Fails(w, "passphrase"),
          Probe(~Passphrase(w, krs), Locked), Fails(w, "calendarKeys"),
          Probe(~w.calendarKeys, Locked), Returns(krs)>>)

\* The parts of an event in order: "clear", "sealed" (the calendar keyring
\* opens it), "broken" or "blank" (no VEVENT in it).
DecryptSharedICS(w) ==
  First(<<Probe("broken" \in {w.parts[i] : i \in DOMAIN w.parts}, Err(Plain)), Returns(w.parts)>>)

\* The parts are one text, of which ParseICS decodes the first VCALENDAR, and in
\* it reads the first VEVENT: what comes after it is not looked at.
ParseICS(parts) == IF parts = <<>> \/ parts[1] = "blank" THEN Err(Plain) ELSE Ok({1})

(***************************************************************************)
(* internal/session: the client, refreshed once, and the keyrings, unlocked*)
(* again after a login that may have raised the scope of the tokens.       *)
(***************************************************************************)
RefreshFails(w) ==
  LET heals(end) == RefreshRejected(w.error) /\ ~w.spent /\ w.relogin = end
  IN First(<<Probe(heals("logged in"), Ok({})), Probe(heals("challenged"), Err(Mapped)),
             Probe(Map(w.error).code = "auth_required", Err(Mapped)), Probe(TRUE, Err(w.error))>>)
Client(w) == First(<<Fails(w, "load"), Probe(w.broken = "refresh", RefreshFails(w)), Returns({})>>)

UnlockOnce(w, f) == Then(First(<<Fails(f, "creds"), Returns({})>>), Unlock(w, f))

\* Mutant: a challenge is no login, and the denial is what is reported.
HealScopeDenial_HidesChallenge(w, denied) ==
  IF w.relogin = "logged in" THEN UnlockOnce(w, w.again) ELSE denied

HealScopeDenial(w, denied) ==
  CASE w.relogin = "logged in" -> UnlockOnce(w, w.again)
    [] w.relogin = "challenged" -> Err(Mapped)
    [] w.relogin = "declined" -> denied

Keyrings(w) ==
  LET krs == UnlockOnce(w, w)
  IN IF krs.ok \/ ~ScopeDenied(krs.err) \/ w.spent THEN krs ELSE HealScopeDenial(w, krs)

\* Session.CalendarKeyring: the keyrings first, then the calendar's own.
CalendarKeyring(w) == LET krs == Keyrings(w) IN Then(krs, ResolveKeyring(w, krs.value))

(***************************************************************************)
(* The tools.                                                              *)
(***************************************************************************)
GetMessageBody(w) ==
  Then(Client(w), Then(First(<<Fails(w, "message"), Returns({})>>),
       LET krs == Keyrings(w) IN Then(krs, DecryptBody(krs.value, w.addr, w.body))))

GetEvent(w) ==
  Then(Client(w), Then(CalendarKeyring(w), Then(First(<<Fails(w, "event"), Returns({})>>),
       LET ics == DecryptSharedICS(w) IN Then(ics, ParseICS(ics.value)))))

SenderKeyRing(w) ==
  Then(Client(w), Then(First(<<Fails(w, "sender"), Returns({})>>),
       LET krs == Keyrings(w) IN Then(krs, AddressKeyRing(krs.value, w.addr))))

Result(w) == CASE w.tool = "get_message" -> GetMessageBody(w)
               [] w.tool = "get_event" -> GetEvent(w)
               [] w.tool = "create_draft" -> SenderKeyRing(w)
=============================================================================
