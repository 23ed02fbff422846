-------------------------- MODULE ScheduleCalendar --------------------------
(***************************************************************************)
(* The schedule of an automation: the texts it may be written in, its one  *)
(* canonical text, and the calculator that finds its slots in a window of  *)
(* UTC time.  Everything here is pure; a state is one question and then    *)
(* its answer.                                                             *)
(*                                                                         *)
(* A day has DayLength ticks.  Local time is UTC time plus an offset that  *)
(* changes once (a zone is [at, before, after]): a gap when it grows, a    *)
(* fold when it shrinks.                                                   *)
(***************************************************************************)
EXTENDS Naturals, Sequences, FiniteSets, SequencesExt

CONSTANTS DayLength, LastTick,
          Weekday, MonthDay,   \* of each date
          MaxWindow,           \* the longest window, in days
          MaxDecisions,        \* the largest limit
          Questions, Texts     \* what is asked, and how schedules are written

VARIABLES question, answer

vars == <<question, answer>>

NoAnswer == [kind |-> "none"]

-----------------------------------------------------------------------------
(* The zone, from the calendar library.                                     *)

Ticks == 0..LastTick
naive_local(zone, tick) == tick + (IF tick < zone.at THEN zone.before ELSE zone.after)
Date(local) == local \div DayLength

\* The instants that show a local time: none in a gap, two in a fold.
from_local_datetime(zone, local) == {tick \in Ticks : naive_local(zone, tick) = local}

First(S) == CHOOSE x \in S : \A y \in S : x <= y

-----------------------------------------------------------------------------
(* The calculator. *)

matches(cadence, date) ==
  CASE cadence.every = "day" -> TRUE
    [] cadence.every = "weekday" -> Weekday[date] \notin {0, 6}
    [] cadence.every = "week" -> Weekday[date] = cadence.on
    [] cadence.every = "month" -> MonthDay[date] = cadence.on

Due(nominal, tick) == [nominal |-> nominal, at |-> {tick}]
Skipped(nominal) == [nominal |-> nominal, at |-> {}]

\* The slot of one date, resolved to the earlier of two instants.
Resolved(zone, nominal) ==
  LET instants == from_local_datetime(zone, nominal)
  IN  IF instants = {} THEN Skipped(nominal) ELSE Due(nominal, First(instants))

\* A slot that exists belongs to the window of its instant; one that does
\* not, to the window whose local ends lie around it.
Within(zone, decision, after, through) ==
  IF decision.at = {}
  THEN /\ decision.nominal > naive_local(zone, after)
       /\ decision.nominal <= naive_local(zone, through)
  ELSE \A tick \in decision.at : tick > after /\ tick <= through

\* Date by date, from the local date of one end to that of the other; one
\* more than the limit says that there are more.
decisions_between(schedule, zone, after, through, limit) ==
  LET dates == {d \in Date(naive_local(zone, after))..Date(naive_local(zone, through)) :
                  matches(schedule.cadence, d)}
      slots == {Resolved(zone, d * DayLength + schedule.time) : d \in dates}
      found == {slot \in slots : Within(zone, slot, after, through)}
      ordered == SetToSortSeq(found, LAMBDA x, y : x.nominal < y.nominal)
  IN  IF limit \notin 1..MaxDecisions THEN [kind |-> "invalid limit"]
      ELSE IF after > through \/ through - after > MaxWindow * DayLength
      THEN [kind |-> "invalid window"]
      ELSE [kind |-> "decisions",
            decisions |-> SubSeq(ordered, 1, IF Len(ordered) > limit THEN limit ELSE Len(ordered)),
            truncated |-> Len(ordered) > limit]

\* The first decision after an instant.
next_decision_after(schedule, zone, after) ==
  LET found == decisions_between(schedule, zone, after, after + MaxWindow * DayLength, 1)
  IN  IF found.decisions = <<>> THEN [kind |-> "out of range"]
      ELSE [kind |-> "next", decision |-> Head(found.decisions)]

\* A slot that was stored, calculated again.
decision_for_nominal(schedule, zone, nominal) ==
  IF nominal % DayLength # schedule.time \/ ~matches(schedule.cadence, Date(nominal))
  THEN [kind |-> "invalid slot"]
  ELSE [kind |-> "slot", decision |-> Resolved(zone, nominal)]

-----------------------------------------------------------------------------
(* Texts.  A number is written with some digits: [value, digits].           *)

Plain(number) == number.digits = (IF number.value < 10 THEN 1 ELSE 2)
Padded(number) == number.digits = 2

Numbered(value) == [value |-> value, digits |-> IF value < 10 THEN 1 ELSE 2]
Clock(value) == [value |-> value, digits |-> 2]

\* The bounds every way of writing a schedule ends with.
new(every, on, hour, minute) ==
  IF \/ hour > 23 \/ minute > 59
     \/ every = "week" /\ on > 6
     \/ every = "month" /\ on \notin 1..31
  THEN [kind |-> "invalid"]
  ELSE [kind |-> "schedule", every |-> every, on |-> on, hour |-> hour, minute |-> minute]

HasNumber(every) == every \in {"week", "month"}

to_canonical_string(s) ==
  [form |-> "canonical", every |-> s.every,
   on |-> IF HasNumber(s.every) THEN Numbered(s.on) ELSE Numbered(0),
   hour |-> Clock(s.hour), minute |-> Clock(s.minute), zone |-> "same"]

parse_canonical(text) ==
  LET s == new(text.every, text.on.value, text.hour.value, text.minute.value)
  IN  IF \/ text.form # "canonical"
         \/ ~Padded(text.hour) \/ ~Padded(text.minute)
         \/ HasNumber(text.every) /\ ~Plain(text.on)
      THEN [kind |-> "invalid"] ELSE s

\* The renderer's JSON names its own zone.  Its numbers have no digits.
parse_renderer_json(text) ==
  IF text.zone # "same" \/ ~Padded(text.hour) \/ ~Padded(text.minute)
  THEN [kind |-> "invalid"]
  ELSE new(text.every, text.on.value, text.hour.value, text.minute.value)

\* Five fields of cron, without lists, ranges (but Monday to Friday) or months.
parse_limited_cron(text) ==
  IF \/ ~Plain(text.hour) \/ ~Plain(text.minute)
     \/ HasNumber(text.every) /\ ~Plain(text.on)
  THEN [kind |-> "invalid"]
  ELSE new(text.every, text.on.value, text.hour.value, text.minute.value)

parse_for_normalization(text) ==
  IF text.zone = "unknown" THEN [kind |-> "invalid"]
  ELSE CASE text.form = "canonical" -> parse_canonical(text)
         [] text.form = "json" -> parse_renderer_json(text)
         [] text.form = "cron" -> parse_limited_cron(text)

-----------------------------------------------------------------------------
Init ==
  /\ question \in Questions \cup Texts
  /\ answer = NoAnswer

Answer ==
  /\ answer = NoAnswer
  /\ answer' =
       CASE question.form = "window" ->
              decisions_between(question.schedule, question.zone, question.after,
                                question.through, question.limit)
         [] question.form = "next" ->
              next_decision_after(question.schedule, question.zone, question.after)
         [] OTHER -> parse_for_normalization(question)
  /\ UNCHANGED question

Next == Answer

-----------------------------------------------------------------------------
(* What somebody who watches the local clock tick would write down: a slot  *)
(* the first time the clock shows it, and a skipped one when the clock      *)
(* jumps over it.                                                           *)

Slot(schedule, local) ==
  local % DayLength = schedule.time /\ matches(schedule.cadence, Date(local))

SeenAt(schedule, zone, tick) ==
  LET before == naive_local(zone, tick - 1)
      now == naive_local(zone, tick)
  IN  {Skipped(local) : local \in {l \in before + 1..now - 1 : Slot(schedule, l)}}
      \cup (IF Slot(schedule, now) /\ \A t \in 0..tick - 1 : naive_local(zone, t) # now
            THEN {Due(now, tick)} ELSE {})

Watched(schedule, zone, after, through) ==
  UNION {SeenAt(schedule, zone, tick) : tick \in after + 1..through}

\* The calculator finds in a window exactly what the clock shows in it, in
\* order: so no slot is lost or found twice when windows follow each other.
\* It finds the first of them when there are more than asked for, and a
\* stored slot is found to be what it was.
WindowsExact ==
  question.form = "window" /\ answer.kind = "decisions" =>
    LET s == question.schedule
        z == question.zone
        seen == Watched(s, z, question.after, question.through)
        ds == answer.decisions
    IN  /\ ToSet(ds) \subseteq seen
        /\ answer.truncated <=> Cardinality(seen) > question.limit
        /\ ~answer.truncated => ToSet(ds) = seen
        /\ answer.truncated => Len(ds) = question.limit
        /\ \A i, j \in DOMAIN ds : i < j =>
             /\ ds[i].nominal < ds[j].nominal
             /\ \A x \in ds[i].at, y \in ds[j].at : x < y
        /\ \A d \in seen \ ToSet(ds), i \in DOMAIN ds : ds[i].nominal < d.nominal
        /\ \A d \in seen : decision_for_nominal(s, z, d.nominal) = [kind |-> "slot", decision |-> d]

\* The next decision is the first the clock shows, within the longest window.
NextExact ==
  question.form = "next" /\ answer.kind # "none" =>
    LET seen == Watched(question.schedule, question.zone, question.after,
                        question.after + MaxWindow * DayLength)
    IN  IF seen = {} THEN answer.kind = "out of range"
        ELSE answer.decision \in seen /\ \A d \in seen : answer.decision.nominal <= d.nominal

\* Whatever way a schedule was written in, the text that is stored reads back
\* as the same schedule, and is the only canonical text that does.
TextsCanonical ==
  answer.kind = "schedule" =>
    /\ parse_canonical(to_canonical_string(answer)) = answer
    /\ question.form = "canonical" => to_canonical_string(answer) = [question EXCEPT !.zone = "same"]

CalendarSound == WindowsExact /\ NextExact /\ TextsCanonical
=============================================================================
