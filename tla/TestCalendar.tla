---------------------------- MODULE TestCalendar ----------------------------
(***************************************************************************)
(* testcalendar: the calendar macros that a wrapped case source replaces   *)
(* in the string values of a case file, as operators.                      *)
(*                                                                         *)
(* A literal is a record: form tells a plain string, a macro, one without  *)
(* its closing bracket and one of an unknown name apart; a macro has a     *)
(* kind, the sign of its offset, the parts of the offset and the zones in  *)
(* it.  The mark "?" stands for what does not parse in its place.  Times   *)
(* are minutes from 2026-02-28 00:00 UTC.                                  *)
(***************************************************************************)
EXTENDS Integers, Sequences, FiniteSetsExt, SequencesExt

CONSTANT DurationRange  \* a time.Duration wraps outside -DurationRange .. DurationRange - 1 minutes

ASSUME DurationRangeAssumption == DurationRange \in Nat \ {0}

Literal ==
    [form : STRING, kind : STRING, sign : STRING,
     parts : Seq([amount : Int, unit : STRING]),
     zone : {zones \in SUBSET [sign : STRING, hours : Int, minutes : Int] : IsFiniteSet(zones)}]

hoursPerDay == 24
minutesPerHour == 60
minutesPerDay == hoursPerDay * minutesPerHour

\* FixedNow: 2026-03-01 03:00 in the zone UTC+6.
FixedNow == 21 * minutesPerHour
FixedNowZone == 6 * minutesPerHour

dollarDateKey == "$date"

\* int64 arithmetic, in minutes.
Wrapped(minutes) == ((minutes + DurationRange) % (2 * DurationRange)) - DurationRange

-----------------------------------------------------------------------------
(* Parsing. *)

macroKindSupportsTimeOffset(kind) == kind \in {"timestamp", "rfc3339"}

\* offsetUnitSpec: the rank of a unit, its length, and the units a kind has.
offsetRank == [d |-> 0, h |-> 1, m |-> 2]
unitDuration == [d |-> minutesPerDay, h |-> minutesPerHour, m |-> 1]
unitsOf(kind) == IF macroKindSupportsTimeOffset(kind) THEN {"d", "h", "m"} ELSE {"d"}

\* Each unit once and in the order of the ranks.
parseOffsetFails(macro) ==
    ~ \/ macro.parts = <<>>
      \/ /\ macro.sign # "?"
         /\ \A i \in DOMAIN macro.parts : macro.parts[i].unit \in unitsOf(macro.kind)
         /\ \A i, j \in DOMAIN macro.parts :
               i < j => offsetRank[macro.parts[i].unit] < offsetRank[macro.parts[j].unit]

\* A part of an offset, before it is made a Duration.
partDuration(part) == part.amount * unitDuration[part.unit]

\* totalDuration, summed as the loop meets the parts, and the sign applied to it.
totalDuration(parts) ==
    LET total[n \in 0 .. Len(parts)] ==
            IF n = 0 THEN 0 ELSE Wrapped(total[n - 1] + Wrapped(partDuration(parts[n])))
    IN  total[Len(parts)]

parseOffset(macro) ==
    IF macro.sign = "-" THEN Wrapped(-totalDuration(macro.parts)) ELSE totalDuration(macro.parts)

\* Two digits, or a sign and a digit, are read; only the upper limits are checked.
parseFixedTimezoneFails(zone) ==
    zone.sign = "?" \/ zone.hours >= hoursPerDay \/ zone.minutes >= minutesPerHour

\* Fault: the sign is given to the hours alone.
parseFixedTimezoneHours(zone) ==
    (IF zone.sign = "-" THEN -zone.hours ELSE zone.hours) * minutesPerHour + zone.minutes

parseFixedTimezone(zone) ==
    LET offset == zone.hours * minutesPerHour + zone.minutes
    IN  IF zone.sign = "-" THEN -offset ELSE offset

\* parseMacroSuffix: at most one separator, with a zone behind it.
parseMacroSuffixFails(macro) ==
    Cardinality(macro.zone) > 1 \/ \E zone \in macro.zone : parseFixedTimezoneFails(zone)

\* parseMacroToken: the literals it refuses, and those it takes for a macro.
parseMacroTokenFails(literal) ==
    \/ literal.form \in {"open", "unknown"}
    \/ /\ literal.form = "macro"
       /\ parseMacroSuffixFails(literal) \/ parseOffsetFails(literal)

isMacro(literal) == literal.form = "macro"

-----------------------------------------------------------------------------
(* Rendering. *)

\* A rendered macro: its layout, the local time that it shows and its zone.
Rendered(layout, local, zone) == [form |-> layout, local |-> local, zone |-> zone]

Midnight(local) == (local \div minutesPerDay) * minutesPerDay

\* A $date takes only a date: midnight UTC of the day that the macro selects.
resolveFails(literal, key) ==
    \/ parseMacroTokenFails(literal)
    \/ isMacro(literal) /\ literal.kind # "date" /\ key = dollarDateKey

resolveStringValue(literal, key) ==
    LET zone == IF literal.zone = {} THEN FixedNowZone
                ELSE parseFixedTimezone(CHOOSE z \in literal.zone : TRUE)
        local == FixedNow + parseOffset(literal) + zone
    IN  IF ~isMacro(literal) THEN literal
        ELSE IF literal.kind # "date" THEN Rendered(literal.kind, local, zone)
        ELSE IF key = dollarDateKey THEN Rendered("rfc3339", Midnight(local), 0)
        ELSE Rendered("date", Midnight(local), 0)

\* resolveValue over the string values of a document in their order, each with the
\* key of the member that it is the value of: the first that fails fails them all.
transformFails(literals) ==
    \E i \in DOMAIN literals : resolveFails(literals[i].value, literals[i].key)

transformJSONC(literals) ==
    [i \in DOMAIN literals |->
        [literals[i] EXCEPT !.value = resolveStringValue(literals[i].value, literals[i].key)]]

-----------------------------------------------------------------------------
(* What an accepted macro is to denote, as laws that relate macros. *)

Instant(macro) ==
    LET shown == resolveStringValue([macro EXCEPT !.kind = "timestamp"], "")
    IN  shown.local - shown.zone

Local(macro) == resolveStringValue([macro EXCEPT !.kind = "timestamp"], "").local

Opposite(sign) == IF sign = "-" THEN "+" ELSE "-"

\* The exact length of an offset, as the sum of its parts.
ExactOffset(macro) ==
    LET exact[n \in 0 .. Len(macro.parts)] ==
            IF n = 0 THEN 0 ELSE exact[n - 1] + partDuration(macro.parts[n])
    IN  exact[Len(macro.parts)]

InRange(macro) == ExactOffset(macro) \in -DurationRange + 1 .. DurationRange - 1

\* A zone changes what is shown, never the instant, and opposite zones show times on
\* opposite sides of UTC.
ZoneLaw(macro) ==
    \A zone \in macro.zone :
        LET mirrored == [macro EXCEPT !.zone = {[zone EXCEPT !.sign = Opposite(zone.sign)]}]
        IN  /\ Instant(macro) = Instant([macro EXCEPT !.zone = {}])
            /\ Local(macro) + Local(mirrored) = 2 * Instant(macro)

\* Opposite offsets lie on opposite sides of the anchor, and the parts add up, even
\* when one of them alone would not fit a Duration.
OffsetLaw(macro) ==
    LET distance(parts) == Instant([macro EXCEPT !.parts = parts]) - FixedNow
        mirrored == [macro EXCEPT !.sign = Opposite(macro.sign)]
        n == Len(macro.parts)
    IN  InRange(macro) =>
            /\ Instant(macro) + Instant(mirrored) = 2 * FixedNow
            /\ n > 1 => Wrapped(distance(macro.parts) - distance(<<macro.parts[n]>>))
                           = distance(SubSeq(macro.parts, 1, n - 1))
            /\ n = 1 => LET part == macro.parts[1]
                        IN  distance(macro.parts) =
                               distance(<<[amount |-> partDuration(part), unit |-> "m"]>>)

\* A date is the day of the timestamp with the same offset and zone, in a $date too.
DateLaw(macro) ==
    macro.kind = "date" =>
        LET plain == resolveStringValue(macro, "")
            dollar == resolveStringValue(macro, dollarDateKey)
        IN  /\ dollar.local - dollar.zone = plain.local
            /\ Local(macro) - plain.local \in 0 .. minutesPerDay - 1
=============================================================================
