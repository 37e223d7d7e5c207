---------------------------- MODULE MCAlgorithms ----------------------------
EXTENDS Algorithms

Errors == {ApiError(403, 9100), ApiError(403, 2000), ApiError(401, 401), ApiError(422, 10013),
           ApiError(500, 0), [Plain EXCEPT !.api = Captcha(422)], Transport, Sentinel("ErrNoSession")}
Base == [tool |-> "get_message", broken |-> "none", error |-> Plain, primary |-> TRUE, salt |-> TRUE,
         mode |-> 1, supplied |-> "", usable |-> Addresses, addr |-> "a1", body |-> "sealed",
         members |-> <<[addr |-> "a1", decrypts |-> TRUE]>>, calendarKeys |-> TRUE,
         parts |-> <<"sealed">>, spent |-> FALSE, relogin |-> "declined",
         again |-> [broken |-> "none", error |-> Plain]]
Requests == {"refresh", "message", "event", "sender", "salts", "user", "addresses", "members",
             "addresses2", "passphrase", "calendarKeys"}
Stored == {Plain, Sentinel("ErrNoSession")}
Tools == {"get_message", "get_event", "create_draft"}
Logins == {"logged in", "challenged", "declined"}
Retry == {[broken |-> "none", error |-> Plain], [broken |-> "creds", error |-> Plain]}
           \cup [broken: {"salts", "user", "addresses"}, error: {ApiError(403, 9100), ApiError(500, 0), Transport}]
Passwords == {<<1, "">>, <<2, "mailbox">>, <<2, "other">>}
Members == [addr: Addresses \cup {Stranger}, decrypts: BOOLEAN]
MCWorlds ==
  {[Base EXCEPT !.tool = t, !.broken = r, !.error = e, !.usable = u, !.mode = p[1], !.supplied = p[2]] :
     t \in Tools, r \in Requests, e \in Errors \ Stored, u \in SUBSET Addresses, p \in Passwords}
  \cup
  {[Base EXCEPT !.tool = t, !.broken = r, !.error = e] :
     t \in Tools, r \in {"load", "creds"}, e \in Stored}
  \cup
  {[Base EXCEPT !.tool = t, !.broken = r, !.error = e, !.usable = u, !.spent = s, !.relogin = l, !.again = a,
                !.mode = p[1], !.supplied = p[2]] :
     t \in Tools, r \in {"refresh", "salts", "user", "addresses"},
     e \in {ApiError(403, 9100), ApiError(401, 401)}, u \in {{}, {"a1"}},
     s \in BOOLEAN, l \in Logins, a \in Retry, p \in {<<1, "">>, <<2, "other">>}}
  \cup
  {[Base EXCEPT !.tool = t, !.usable = u, !.addr = a, !.body = b, !.mode = p[1], !.supplied = p[2],
                !.primary = k, !.salt = s] :
     t \in {"get_message", "create_draft"}, u \in SUBSET Addresses, a \in Addresses \cup {Stranger},
     b \in {"sealed", "foreign", "garbage"}, p \in Passwords, k \in BOOLEAN, s \in BOOLEAN}
  \cup
  {[Base EXCEPT !.tool = "get_event", !.usable = u, !.members = m, !.calendarKeys = c, !.parts = q] :
     u \in SUBSET Addresses, m \in BoundedSeq(Members, 2), c \in BOOLEAN,
     q \in BoundedSeq({"clear", "sealed", "broken", "blank"}, 2)}

\* The times are 0..3, the window is 1..2.
Rules == {<<>>, <<0>>, <<1>>, <<2>>, <<3>>, <<0, 1>>, <<1, 2>>, <<2, 3>>, <<0, 1, 2>>, <<1, 2, 3>>, <<0, 1, 2, 3>>}
MCEvents == [start: 0..3, kind: {"single"}, rule: {<<>>}, readable: {TRUE}]
              \cup [start: {0}, kind: {"recurring"}, rule: Rules, readable: {TRUE}]
              \cup [start: {1}, kind: {"single"}, rule: {<<>>}, readable: {FALSE}]
              \cup [start: {1}, kind: {"bad"}, rule: {<<>>}, readable: {TRUE}]
MCCalendar(events, active, lost, opens) ==
  [events |-> events, active |-> active, lostAccess |-> lost, opens |-> opens]
MCListings ==
  {[calendars |-> <<MCCalendar(e, TRUE, FALSE, TRUE), MCCalendar(f, a, l, o)>>, named |-> FALSE] :
     e \in BoundedSeq(MCEvents, 2), f \in BoundedSeq(MCEvents, 1), a \in BOOLEAN, l \in BOOLEAN, o \in BOOLEAN}
  \cup {[calendars |-> <<MCCalendar(e, FALSE, TRUE, o)>>, named |-> TRUE] :
          e \in BoundedSeq(MCEvents, 2), o \in BOOLEAN}

Auths == {NoAuth, [f \in Fields |-> "new"], [NoAuth EXCEPT !["AccessToken"] = "new", !["RefreshToken"] = "new"],
          [NoAuth EXCEPT !["Scope"] = "new"], [NoAuth EXCEPT !["UID"] = "new"]}
Responses == [path: {"2fa", "other"}, status: {200, 422}, wrapped: Auths, flat: Auths]
MCTwoFactors == [base: {[f \in Fields |-> "old"]}, responses: BoundedSeq(Responses, 2)]

MCRawCalls ==
  [id: {"plain", "empty", "slash"}, name: DOMAIN Endpoints,
   response: {r \in [net: BOOLEAN, status: {0, 200, 400, 401, 402, 403, 404, 409, 422, 429, 418, 500},
                     retryAfter: {-2, -1, 30}, json: BOOLEAN, error: BOOLEAN, code: {0, 1000, 2500, 9001},
                     shape: BOOLEAN] : (r.net <=> r.status # 0) /\ (r.shape => r.json)}]
Ability == [enabled: BOOLEAN, send: BOOLEAN, order: 1..2]
MCSenders ==
  [addrs: UNION {{[i \in 1..n |-> [id |-> i] @@ can[i]] : can \in [1..n -> Ability]} : n \in 0..3},
   named: 0..3]
Stores == [file: {"empty", "session", "unreadable", "none"}, keychain: {"empty", "session", "unreadable"}]
MCStatusRuns ==
  {s \in [backend: {"keychain", "file", "other"}, stores: Stores, client: BOOLEAN, user: BOOLEAN,
          degraded: BOOLEAN] :
     s.client => s.backend # "other" /\ s.stores[s.backend] = "session"}
Attr(name, members) == [name |-> name, value |-> "value", members |-> members]
Names == {<<"user">>, <<"password">>, <<"refresh", "Token">>}
MCLogRecords == {Attr(n, <<>>) : n \in Names}
                  \cup {Attr(n, <<Attr(p, <<>>), Attr(q, <<>>)>>) : n, p, q \in Names}
=============================================================================
