------------------------------ MODULE ScheduleTimes ------------------------------
(***************************************************************************)
(* The times people type: src/lib/scheduling.ts, the form fields of        *)
(* ScheduleFields.tsx and RescheduleDialog.tsx, and the server's check.    *)
(*                                                                         *)
(* An instant is a number, and what a clock on the wall reads at it is     *)
(* the instant plus the zone's offset, which changes once: forward, so     *)
(* that some readings never happen, or back, so that some happen twice.    *)
(* A day has Day units; the date of a reading is its whole days, the time  *)
(* of day the rest.                                                        *)
(***************************************************************************)
EXTENDS Integers, FiniteSets, FiniteSetsExt

CONSTANTS
  Day,       \* 24 hours
  Offsets,   \* UTC offsets of zones
  Change,    \* the instant at which the zone's offset changes
  Instants,  \* bound of the model: the instants looked at
  Starts,    \* when the form may be opened
  None,      \* a model value: no time, no pick
  Skews,     \* how far the server's clock is ahead of the browser's
  MaxTyped   \* bound of the model: times typed

ASSUME TimesAssumption ==
  /\ Day \in Nat \ {0} /\ Change \in Int /\ Instants \cup Starts \cup Skews \subseteq Int
  /\ None \notin Int \cup {"first", "second"}
  /\ \A o \in Offsets : o \in Int /\ o > -Day /\ o < Day

VARIABLES
  zone,   \* the offset before and after the change
  now,    \* the browser's clock
  skew,   \* the server's clock is now + skew
  form,   \* the fields and the pick
  stored, \* the scheduled time in the database
  typed   \* times typed so far

timesVars == <<zone, now, skew, form, stored, typed>>

Asked(reading, pick) == [reading |-> reading, pick |-> pick]

-----------------------------------------------------------------------------
(* Zones. *)

Offset(at) == IF at < Change THEN zone.before ELSE zone.after

\* wallClockAt, as the number of units since the epoch that Date.UTC makes of it.
Wall(at) == at + Offset(at)

DateOf(reading) == reading \div Day
TimeOf(reading) == reading % Day

InstantsReadingBefore(reading) ==
  LET offsets == {Offset(reading - Day), Offset(reading)}
  IN {reading - o : o \in {p \in offsets : Offset(reading - p) = p}}

\* instantsReading: the offsets in force a day either side, those that hold at what they produce.
InstantsReading(reading) ==
  LET offsets == {Offset(reading - Day), Offset(reading + Day)}
  IN {reading - o : o \in {p \in offsets : Offset(reading - p) = p}}

-----------------------------------------------------------------------------
(* The form's checks. *)

Accepted(at) == [ok |-> TRUE, at |-> at]
Refused(code) == [ok |-> FALSE, code |-> code]

ToScheduledAtFirst(asked) ==
  LET candidates == InstantsReading(asked.reading)
      chosen == Min(candidates)
  IN CASE candidates = {}                        -> Refused("NONEXISTENT")
       [] \A at \in candidates : at <= now       -> Refused("PAST")
       [] OTHER -> IF chosen <= now THEN Refused("PAST") ELSE Accepted(chosen)

\* toScheduledAt: a repeated time is never guessed at, unless both have gone by.
ToScheduledAt(asked) ==
  LET candidates == InstantsReading(asked.reading)
      chosen == IF asked.pick = "second" /\ Cardinality(candidates) > 1 THEN Max(candidates) ELSE Min(candidates)
  IN CASE candidates = {}                        -> Refused("NONEXISTENT")
       [] \A at \in candidates : at <= now       -> Refused("PAST")
       [] Cardinality(candidates) > 1 /\ asked.pick = None -> Refused("AMBIGUOUS")
       [] OTHER -> IF chosen <= now THEN Refused("PAST") ELSE Accepted(chosen)

ScheduleFieldsForUnpicked(at) == Asked(Wall(at), None)

\* scheduleFieldsFor: the inverse, with the pick only when it is needed.
ScheduleFieldsFor(at) ==
  LET readings == InstantsReading(Wall(at))
  IN Asked(Wall(at), IF Cardinality(readings) < 2 THEN None ELSE IF at = Min(readings) THEN "first" ELSE "second")

MinimumTimeForRounded(date) ==
  IF date # DateOf(Wall(now)) \/ DateOf(Wall(now + 2)) # date THEN None ELSE TimeOf(Wall(now + 2))

\* minimumTimeFor: today's floor of the time picker, the next unit.
MinimumTimeFor(date) ==
  IF date # DateOf(Wall(now)) \/ DateOf(Wall(now + 1)) # date THEN None ELSE TimeOf(Wall(now + 1))

-----------------------------------------------------------------------------
(* The form. *)

TimesStart(before, after, start, ahead) ==
  /\ zone = [before |-> before, after |-> after]
  /\ now = start /\ skew = ahead
  /\ form = [open |-> FALSE, asked |-> Asked(None, None), meant |-> None]
  /\ stored = [at |-> None, asked |-> Asked(None, None), meant |-> None] /\ typed = 0

TimesInit == \E before, after \in Offsets, start \in Starts, ahead \in Skews : TimesStart(before, after, start, ahead)

Filled == form.open /\ form.asked.reading # None

(* The wizard's form opens empty, the dialog's on the time there is. *)
OpenForm ==
  /\ ~form.open
  /\ form' = [open |-> TRUE, meant |-> stored.at,
              asked |-> IF stored.at = None THEN Asked(None, None) ELSE ScheduleFieldsFor(stored.at)]
  /\ UNCHANGED <<zone, now, skew, stored, typed>>

(* A date or a time is typed, which takes the pick back.  The person means *)
(* a time their wall shows, and may be wrong about it.                     *)
TypeTime(at) ==
  /\ form.open /\ typed < MaxTyped
  /\ form' = [form EXCEPT !.asked = Asked(Wall(at), None), !.meant = at]
  /\ typed' = typed + 1
  /\ UNCHANGED <<zone, now, skew, stored>>

(* A time that a clock change skips. *)
TypeSkipped(reading) ==
  /\ form.open /\ typed < MaxTyped /\ reading \in Change + zone.before .. Change + zone.after - 1
  /\ form' = [form EXCEPT !.asked = Asked(reading, None), !.meant = None]
  /\ typed' = typed + 1
  /\ UNCHANGED <<zone, now, skew, stored>>

(* The two are on offer, also once one is picked. *)
PickOccurrence ==
  /\ Filled /\ ToScheduledAt(Asked(form.asked.reading, None)) = Refused("AMBIGUOUS") /\ form.meant # None
  /\ form' = [form EXCEPT !.asked.pick = IF form.meant = Min(InstantsReading(form.asked.reading)) THEN "first" ELSE "second"]
  /\ UNCHANGED <<zone, now, skew, stored, typed>>

(* attemptReschedule or send, and parseScheduledAt by the server's clock. *)
SubmitTime ==
  /\ Filled
  /\ LET check == ToScheduledAt(form.asked) IN
       /\ check.ok
       /\ \/ /\ check.at > now + skew
             /\ stored' = [at |-> check.at, asked |-> form.asked, meant |-> form.meant]
             /\ form' = [form EXCEPT !.open = FALSE]
          \/ check.at <= now + skew /\ UNCHANGED <<stored, form>>
  /\ UNCHANGED <<zone, now, skew, typed>>

CloseForm ==
  /\ form.open
  /\ form' = [form EXCEPT !.open = FALSE]
  /\ UNCHANGED <<zone, now, skew, stored, typed>>

Minute ==
  /\ now + 1 \in Instants /\ now < Max(Starts) + 2
  /\ now' = now + 1
  /\ UNCHANGED <<zone, skew, form, stored, typed>>

TimesNext ==
  \/ OpenForm \/ PickOccurrence \/ SubmitTime \/ CloseForm \/ Minute
  \/ \E at \in Instants : TypeTime(at) \/ TypeSkipped(at)

TimesSpec == TimesInit /\ [][TimesNext]_timesVars

-----------------------------------------------------------------------------
(* Properties. *)

\* Every instant at which the zone's clocks read what was typed is found, and no other, for any size
\* of change (scheduling.ts:140-142), although only two offsets are tried.
ReadsEveryInstant ==
  Filled => InstantsReading(form.asked.reading) \cap Instants = {at \in Instants : Wall(at) = form.asked.reading}

\* The time stored is the one the person meant, not the other reading of the same wall clock, also
\* after the form was opened on it again and saved as it was.
StoredIsMeant == stored.at # None => stored.at = stored.meant

\* The form opened on a time that is ahead can be saved as it is, and gives that time back
\* (scheduling.ts:305-307): every instant ahead has fields that mean it.
FieldsGoBack ==
  form.open => \A at \in Instants : at > now => ToScheduledAt(ScheduleFieldsFor(at)) = Accepted(at)

\* The floor of the time picker leaves out no time that is still to come today, unless clocks go
\* back before it.
FloorExcludesNothing ==
  form.open => \A at \in Instants :
    (/\ at > now /\ DateOf(Wall(at)) = DateOf(Wall(now)) /\ Wall(at) - Wall(now) >= at - now
     /\ MinimumTimeFor(DateOf(Wall(at))) # None)
    => TimeOf(Wall(at)) >= MinimumTimeFor(DateOf(Wall(at)))

\* A time on the clock on the wall becomes the instant that was meant and comes back from it, on both
\* sides of a change of the clocks.
TimesAreMeant == StoredIsMeant /\ FieldsGoBack /\ ReadsEveryInstant /\ FloorExcludesNothing
================================================================================
