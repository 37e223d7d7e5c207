------------------------------- MODULE Events -------------------------------
(***************************************************************************)
(* proton_list_events: which calendars are read, how the events in them    *)
(* are expanded inside the window, where the listing is cut off.           *)
(*                                                                         *)
(* Times are small integers.  An event is [start, kind, rule, readable]:   *)
(* kind is "single", "recurring" or "bad" (its rule does not parse), rule  *)
(* the increasing times the rule yields; readable says whether it decrypts *)
(* and parses.                                                             *)
(***************************************************************************)
EXTENDS Integers, Sequences, FiniteSets, SequencesExt

CONSTANTS
  WinStart, WinEnd,  \* the window
  MaxOccurrences     \* the most occurrences a listing returns (500)

ASSUME EventsAssumption ==
  /\ WinStart \in Int /\ WinEnd \in Int /\ WinStart <= WinEnd
  /\ MaxOccurrences \in Nat \ {0}

Event ==
  {ev \in [start: Int, kind: {"single", "recurring", "bad"}, rule: Seq(Int), readable: BOOLEAN] :
     \A i, j \in DOMAIN ev.rule : i <= j => ev.rule[i] <= ev.rule[j]}
Calendar == [events: Seq(Event), active: BOOLEAN, lostAccess: BOOLEAN, opens: BOOLEAN]

InWindow(t) == WinStart <= t /\ t <= WinEnd

\* The iteration of Expand up to value i of rule: what was collected, and how
\* it ended ("running" while it goes on, "done", "truncated").
Step(loop, v, limit) ==
  CASE loop.end # "running" -> loop
    [] loop.end = "running" /\ v > WinEnd -> [loop EXCEPT !.end = "done"]
    [] loop.end = "running" /\ v < WinStart -> loop
    [] loop.end = "running" /\ InWindow(v) /\ Len(loop.occ) >= limit -> [loop EXCEPT !.end = "truncated"]
    [] loop.end = "running" /\ InWindow(v) /\ Len(loop.occ) < limit -> [loop EXCEPT !.occ = Append(@, v)]

NotStarted == [occ |-> <<>>, end |-> "running"]
Iterate(rule, limit) == FoldLeft(LAMBDA loop, v : Step(loop, v, limit), NotStarted, rule)

Expansion(occ, truncated) == [ok |-> TRUE, occ |-> occ, truncated |-> truncated]
Unreadable == [ok |-> FALSE, occ |-> <<>>, truncated |-> FALSE]

Expand(ev, limit) ==
  IF ev.kind = "single"
  THEN Expansion(IF InWindow(ev.start) THEN <<ev.start>> ELSE <<>>, FALSE)
  ELSE IF ev.kind = "bad" THEN Unreadable
  ELSE LET last == Iterate(ev.rule, limit) IN Expansion(last.occ, last.end = "truncated")

\* The occurrences of one event, if it decrypts and parses.
OccurrencesFor(ev, remaining) == IF ev.readable THEN Expand(ev, remaining) ELSE Unreadable

\* A calendar that was asked for by name is read whatever its flags.
KeepActive(ids, cal) == IF cal.active /\ ~cal.lostAccess THEN Append(ids, cal) ELSE ids
ActiveCalendars(calendars) == FoldLeft(KeepActive, <<>>, calendars)
TargetCalendars(calendars, named) == IF named THEN calendars ELSE ActiveCalendars(calendars)

Listing == [all |-> <<>>, truncated |-> FALSE, skipped |-> 0, ended |-> FALSE, failed |-> FALSE]

\* Mutant: an event that does not decrypt fails the whole listing.
AddEvent_FailsListing(l, ev) ==
  LET o == OccurrencesFor(ev, MaxOccurrences - Len(l.all))
  IN IF l.ended \/ l.failed THEN l
     ELSE [l EXCEPT !.failed = ~o.ok, !.truncated = @ \/ o.truncated, !.all = @ \o o.occ,
                    !.ended = Len(l.all \o o.occ) >= MaxOccurrences]

\* The inner loop of listEvents: an event that does not decrypt or expand is
\* counted and passed over; a full listing ends both loops.
AddEvent(l, ev) ==
  LET o == OccurrencesFor(ev, MaxOccurrences - Len(l.all))
      all == l.all \o o.occ
      full == Len(all) >= MaxOccurrences
  IN IF l.ended \/ l.failed THEN l
     ELSE IF ~o.ok THEN [l EXCEPT !.skipped = @ + 1]
     ELSE [l EXCEPT !.all = SubSeq(all, 1, IF full THEN MaxOccurrences ELSE Len(all)),
                    !.truncated = @ \/ o.truncated \/ full, !.ended = full]

AddEvents(l, events) == FoldLeft(AddEvent, l, events)

\* The outer loop: a calendar whose keyring or events fail ends the call.
AddCalendar(l, cal) ==
  IF l.ended \/ l.failed THEN l
  ELSE IF ~cal.opens THEN [l EXCEPT !.failed = TRUE]
  ELSE AddEvents(l, cal.events)

\* sort.Slice by start; events that start together may come in either order.
Sorted(s) ==
  LET order == CHOOSE p \in Bijection(DOMAIN s, DOMAIN s) :
                 \A i, j \in DOMAIN s : i < j => s[p[i]] <= s[p[j]]
  IN [i \in DOMAIN s |-> s[order[i]]]

AddCalendars(calendars) == FoldLeft(AddCalendar, Listing, calendars)

ListEvents(calendars, named) ==
  [AddCalendars(TargetCalendars(calendars, named)) EXCEPT !.all = Sorted(@)]

(***************************************************************************)
(* Reference: what the window holds, without loops or a limit.  A place is *)
(* a calendar, an event of it and an occurrence of that.                   *)
(***************************************************************************)
TimesOf(ev) == IF ev.kind = "single" THEN <<ev.start>> ELSE ev.rule
Skipped(ev) == ~ev.readable \/ ev.kind = "bad"
Held(ev) == IF Skipped(ev) THEN {} ELSE {k \in DOMAIN TimesOf(ev) : InWindow(TimesOf(ev)[k])}

EventsOf(cals) == UNION {{<<i, j>> : j \in DOMAIN cals[i].events} : i \in DOMAIN cals}
EventAt(cals, p) == cals[p[1]].events[p[2]]
Everything(cals) ==
  UNION {{<<p[1], p[2], k>> : k \in Held(EventAt(cals, p))} : p \in EventsOf(cals)}
TimeAt(cals, p) == TimesOf(EventAt(cals, p))[p[3]]
Bad(cals) == {p \in EventsOf(cals) : Skipped(EventAt(cals, p))}

\* A listing is sorted, holds no occurrence the calendars do not, never more
\* than the limit, and has all of them unless it says it is truncated.
FaithfulListing(cals, named, l) ==
  LET target == TargetCalendars(cals, named)
      every == Everything(target)
  IN ~l.failed =>
       /\ \A i, j \in DOMAIN l.all : i <= j => l.all[i] <= l.all[j]
       /\ \A t \in Range(l.all) :
            Cardinality({i \in DOMAIN l.all : l.all[i] = t})
              <= Cardinality({p \in every : TimeAt(target, p) = t})
       /\ Len(l.all) <= MaxOccurrences
       /\ ~l.truncated => /\ Len(l.all) = Cardinality(every)
                          /\ l.skipped = Cardinality(Bad(target))
                          /\ \A i \in DOMAIN target : target[i].opens
       /\ l.truncated => Len(l.all) = MaxOccurrences

\* Only a calendar-level failure fails the listing, never one bad event.
OneBadEventIsSkipped(cals, named, l) ==
  l.failed => \E i \in DOMAIN TargetCalendars(cals, named) : ~TargetCalendars(cals, named)[i].opens
=============================================================================
