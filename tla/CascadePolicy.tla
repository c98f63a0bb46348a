---------------------------- MODULE CascadePolicy ----------------------------
(***************************************************************************)
(* What a change of a weekly schedule does to the live row and to the      *)
(* leave and correction requests that depend on it: the pure rules of the  *)
(* cascade, and the hours of a half-day leave they protect.                *)
(*                                                                         *)
(* Days and clock times are numbers.  Hours are a record [in, out, len,    *)
(* brk]: the punch window, the length of the break and its start.          *)
(***************************************************************************)
EXTENDS Integers

CONSTANTS
    WeekDays,    \* days in a week: 7 in the program
    None         \* no live row, no window, no break

ASSUME WeekConstants == WeekDays \in Nat \ {0} /\ None \notin Int

Portions == {"full", "first_half", "second_half"}
PendingStatuses == {"pending_l1", "pending_l2"}
ActiveStatuses  == PendingStatuses \cup {"approved"}
Statuses        == ActiveStatuses \cup {"rejected", "cancelled"}

WeekdayOf(day) == day % WeekDays
DatesInRange(first, last) == first..last
DayBefore(day) == day - 1
-----------------------------------------------------------------------------
(***************************************************************************)
(* Hours                                                                   *)
(***************************************************************************)
ValidWindow(h) == h.out > h.in
ValidBreak(h)  == h.len >= 0 /\ (h.len > 0 => h.brk # None)
BreakFits(h)   == h.brk # None => h.brk >= h.in /\ h.brk + h.len <= h.out
ValidHours(h)  == ValidWindow(h) /\ ValidBreak(h) /\ BreakFits(h)

\* halfDayWindow, in half units: a half holds half of the paid time, and the break
\* falls into the half it starts in.
Split(h) ==
    LET half == h.out - h.in - h.len
        late == h.brk # None => half <= 2 * (h.brk - h.in)
    IN 2 * h.in + half + (IF late THEN 0 ELSE 2 * h.len)
HalfDayWindow(h, portion) ==
    CASE portion = "first_half"  -> <<2 * h.in, Split(h)>>
      [] portion = "second_half" -> <<Split(h), 2 * h.out>>
      [] OTHER                   -> None
-----------------------------------------------------------------------------
(***************************************************************************)
(* The change: intent = [emp, weekday, from, mode, hours]                  *)
(***************************************************************************)
\* A row that has not started cannot be ended the day before: it is deleted.
PlanVersioning(live, intent) ==
    LET unstarted == live.from >= intent.from IN
    IF intent.mode = "remove"
    THEN IF live = None THEN "noop" ELSE IF unstarted THEN "delete_only" ELSE "end_only"
    ELSE IF live = None THEN "create" ELSE IF unstarted THEN "replace" ELSE "end_and_create"

WindowChanged(live, intent) ==
    \/ intent.mode = "remove"
    \/ intent.hours.in # live.hours.in
    \/ intent.hours.out # live.hours.out

BreakChanged_LengthOnly(live, intent) ==                                   \* mutant
    intent.mode = "remove" \/ intent.hours.len # live.hours.len
BreakChanged(live, intent) ==
    \/ intent.mode = "remove"
    \/ intent.hours.len # live.hours.len
    \/ intent.hours.brk # live.hours.brk

GovernedDates(dates, intent) ==
    {d \in dates : d >= intent.from /\ WeekdayOf(d) = intent.weekday}

TemporalClass(dates, today) ==
    CASE \A d \in dates : d < today -> "past"
      [] \A d \in dates : d > today -> "future"
      [] OTHER                      -> "present"

Classify_Present(temporal, status) ==                                      \* mutant
    IF temporal = "past" THEN "keep" ELSE "cancel"
Classify(temporal, status) ==
    CASE temporal = "past"            -> "keep"
      [] status \in PendingStatuses   -> "cancel"
      [] temporal = "future"          -> "cancel"
      [] OTHER                        -> "keep"
-----------------------------------------------------------------------------
(***************************************************************************)
(* The requests: req = [kind, emp, first, last, portion, window, status]   *)
(***************************************************************************)
Dates(req) == DatesInRange(req.first, req.last)

\* evaluateLeave: a removal touches every leave, new hours touch half-days only.
LeaveAffected(req, live, intent) ==
    /\ GovernedDates(Dates(req), intent) # {}
    /\ \/ intent.mode = "remove"
       \/ req.portion # "full" /\ (WindowChanged(live, intent) \/ BreakChanged(live, intent))

\* evaluateCorrection: a change of the break alone does not touch a correction.
CorrectionAffected(req, live, intent) ==
    GovernedDates(Dates(req), intent) # {} /\ WindowChanged(live, intent)

Affected(req, live, intent) ==
    IF req.kind = "leave" THEN LeaveAffected(req, live, intent)
    ELSE CorrectionAffected(req, live, intent)

Cancels(req, live, intent, today) ==
    /\ Affected(req, live, intent)
    /\ Classify(TemporalClass(Dates(req), today), req.status) = "cancel"
=============================================================================
