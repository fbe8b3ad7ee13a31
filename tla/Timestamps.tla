----------------------------- MODULE Timestamps -----------------------------
(***************************************************************************)
(* ParseTimestamp and ParseTimestampz of pg_helper.cc.  The text is what   *)
(* Postgres prints for a timestamp: a wall time (here in minutes, since    *)
(* seconds are never computed with), perhaps a fraction of a second, and   *)
(* for timestamptz the offset of the session's time zone: "+05:30", and    *)
(* without minutes, "+07", for a whole hour.  "local" is the offset of the *)
(* machine's standard time, which mktime uses.                             *)
(***************************************************************************)
EXTENDS Integers, Outcomes

Fails == Thrown("invalid_argument")  \* as AsImpl_DateTime_* throws it again

NoZone == [given |-> FALSE]
Zone(sign, hours, minutes) ==
  [given |-> TRUE, sign |-> sign, hours |-> hours, minutes |-> minutes]

TimestampText ==
  [kind : {"timestamp"}, wall : Int, fraction : BOOLEAN,
   zone : {NoZone} \cup [given : {TRUE}, sign : {-1, 1}, hours : Nat, minutes : Nat]]

\* std::tm in local time to time_point.
MakeTime(minutes, local) == minutes - local

\* What follows the seconds is never read.
ParseTimestamp(text, local) == Returned(MakeTime(text.wall, local))

\* Mutant: the offset is added.
ParseTimestampzAdds(text, local) ==
  IF ~text.zone.given /\ ~text.fraction THEN Returned(MakeTime(text.wall, local))
  ELSE IF text.fraction \/ text.zone.minutes = 0 THEN Fails
  ELSE Returned(MakeTime(text.wall + text.zone.sign * text.zone.hours * 60
                       + text.zone.minutes, local))

\* tz_offset is the word after the seconds.  A fraction is its beginning, and
\* no number for stoi; in "+07" there is no substr(4, 2); the sign belongs to
\* the hours alone.
ParseTimestampz(text, local) ==
  IF ~text.zone.given /\ ~text.fraction THEN Returned(MakeTime(text.wall, local))
  ELSE IF text.fraction \/ text.zone.minutes = 0 THEN Fails
  ELSE Returned(MakeTime(text.wall - text.zone.sign * text.zone.hours * 60
                       - text.zone.minutes, local))

\* The instant that Postgres means.
Instant(text) ==
  IF text.zone.given
  THEN text.wall - text.zone.sign * (text.zone.hours * 60 + text.zone.minutes)
  ELSE text.wall
=============================================================================
