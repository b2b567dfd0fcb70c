------------------------------ MODULE Contract ------------------------------
(***************************************************************************)
(* The lines of a recurring contract (local/Contract): their dates, their  *)
(* chains of successors, their renewal, suspension and invoicing.          *)
(*                                                                         *)
(* One action is one committed transaction: a button, a wizard or a cron.  *)
(* A transaction is a sequence of writes; each write is followed by the    *)
(* constraints declared (@api.constrains) on the fields it wrote, and only *)
(* by those.  An operator on a table `t' of lines returns the set of the   *)
(* tables the call may leave: the empty set when it raises, so that the    *)
(* transaction does not happen.                                            *)
(*                                                                         *)
(* Dates are days; 0 is False, "no date", and no line starts on day 1, so  *)
(* that the eve of a start is a date.                                      *)
(***************************************************************************)
EXTENDS Integers, Sequences, FiniteSetsExt

CONSTANTS
  Line,          \* the ids of the lines of the contract
  NoLine,        \* False, as a successor or a predecessor
  NoRow,         \* the row of an id not in the table
  Interval,      \* recurring_interval, with recurring_rule_type 'daily'
  RenewInterval, \* auto_renew_interval, in days
  Notice,        \* termination_notice_interval, in days
  Form,          \* what users enter for a new line: date_start, date_end, auto,
                 \* prepaid (recurring_invoicing_type is pre-paid, not post-paid)
  NewLine,       \* the values the company gives to
                 \* create_new_line_at_contract_line_renew
  UserDate,      \* the dates users enter
  Today,         \* bound of the days that pass
  MaxDate,       \* bound of the dates of lines
  MaxOps         \* bound of the operations users make

VARIABLES
  line,           \* the table of the lines of the contract
  today,
  terminate_date, \* 0: is_terminated is False
  stopped_on,     \* history: the date at which the lines were stopped when the
                  \* contract was terminated, 0 while is_terminated is False
  bills,          \* history: the periods invoiced of each line
  ops             \* the operations users have made

vars == <<line, today, terminate_date, stopped_on, bills, ops>>

ASSUME ContractAssumption ==
  /\ Interval \in Nat \ {0} /\ RenewInterval \in Nat \ {0} /\ Notice \in Nat
  /\ NewLine \subseteq BOOLEAN
  /\ UserDate \subseteq 2..MaxDate /\ Today \in 2..MaxDate
  /\ MaxDate \in Nat /\ MaxOps \in Nat
  /\ IsFiniteSet(Line) /\ NoLine \notin Line
  /\ Form \subseteq [date_start : Nat \ {0, 1}, date_end : Nat,
                     auto : BOOLEAN, prepaid : BOOLEAN]

RowOf(dates) ==
  [date_start : dates, date_end : dates, next : dates, last : dates,
   auto : BOOLEAN, manual : BOOLEAN, canceled : BOOLEAN, prepaid : BOOLEAN,
   succ : Line \cup {NoLine}, pred : Line \cup {NoLine}]

\* Within a transaction a date may pass the bound.
ASSUME NoRowAssumption == NoRow \notin RowOf(Int)

Date == 0..MaxDate
Row == {r \in RowOf(Date) : r.date_start # 0}

Rows(t) == {l \in Line : t[l] # NoRow}

-----------------------------------------------------------------------------
(* Periods and dates of invoice.                                           *)

Offset(r) == IF r.prepaid THEN 0 ELSE 1

\* The end of the period that starts at `start': regular, or adjusted to the
\* date of invoice `forced'; trimmed to `max'; none when it would start after it.
PeriodEnd(r, start, max, forced) ==
  LET end == IF forced = 0 THEN start + Interval - 1
             ELSE forced - Offset(r) + (IF r.prepaid THEN Interval - 1 ELSE 0)
  IN  IF start = 0 \/ (max # 0 /\ start > max) THEN 0
      ELSE IF max # 0 /\ end > max THEN max ELSE end

\* get_next_invoice_date
InvoiceDate(r, start, max) ==
  LET end == PeriodEnd(r, start, max, 0)
  IN  IF end = 0 THEN 0 ELSE (IF r.prepaid THEN start ELSE end) + Offset(r)

FirstNotInvoiced(r) == IF r.last # 0 THEN r.last + 1 ELSE r.date_start

\* next_period_date_start and next_period_date_end
NextStart(r) ==
  IF r.date_end # 0 /\ FirstNotInvoiced(r) > r.date_end THEN 0
  ELSE FirstNotInvoiced(r)
NextEnd(r) == PeriodEnd(r, NextStart(r), r.date_end, r.next)

FirstDateEnd(start) == start + RenewInterval - 1

\* What the form computes for the date of next invoice.
OnchangeDateStart(r) == InvoiceDate(r, NextStart(r), r.date_end)

-----------------------------------------------------------------------------
(* Constraints, and writes.                                                *)

\* Mutant: a line with a successor may be set to auto-renew.
CheckAllowed_NoSuccessor(t, l) ==
  t[l].auto \/ t[l].succ # NoLine => t[l].date_end # 0

CheckAllowed(t, l) ==
  IF t[l].auto THEN t[l].succ = NoLine /\ t[l].date_end # 0
  ELSE t[l].succ = NoLine \/ t[l].date_end # 0

CheckOverlapSuccessor(t, l) ==
  t[l].date_end # 0 /\ t[l].succ # NoLine
    => t[l].date_end < t[t[l].succ].date_start

CheckOverlapPredecessor(t, l) ==
  t[l].pred # NoLine =>
    /\ t[t[l].pred].date_end # 0
    /\ t[t[l].pred].date_end < t[l].date_start

CheckLastDateInvoiced(t, l) ==
  t[l].last # 0 =>
    /\ t[l].date_start <= t[l].last
    /\ t[l].date_end # 0 => t[l].last <= t[l].date_end
    /\ t[l].next # 0 => t[l].last < t[l].next

CheckNextDateSupplied(t, l) ==
  t[l].next = 0 =>
    t[l].date_end # 0 /\ t[l].last # 0 /\ t[l].last >= t[l].date_end

\* The constraints that a write of `fields' runs.
Constraints(t, l, fields) ==
  LET on(some, check) == some \cap fields # {} => check
  IN  /\ on({"auto", "succ", "date_end"}, CheckAllowed(t, l))
      /\ on({"succ", "date_end"}, CheckOverlapSuccessor(t, l))
      /\ on({"pred", "date_start"}, CheckOverlapPredecessor(t, l))
      /\ on({"canceled", "auto"}, ~(t[l].canceled /\ t[l].auto))
      /\ on({"next", "date_start"},
            t[l].next # 0 => t[l].date_start <= t[l].next)
      /\ on({"date_start", "date_end", "last", "next"},
            CheckLastDateInvoiced(t, l))
      /\ on({"next"}, CheckNextDateSupplied(t, l))
      /\ on({"date_start", "date_end"},
            t[l].date_end # 0 => t[l].date_start <= t[l].date_end)

Written(r, values) ==
  [f \in DOMAIN r |-> IF f \in DOMAIN values THEN values[f] ELSE r[f]]

Write(t, l, values) ==
  {u \in {[t EXCEPT ![l] = Written(@, values)]} : Constraints(u, l, DOMAIN values)}

\* The id of a new line is any free one.
CreateLine(t, l, row) ==
  {u \in {[t EXCEPT ![l] = row]} : t[l] = NoRow /\ Constraints(u, l, DOMAIN row)}

Then(T, Call(_)) == UNION {Call(t) : t \in T}

\* for rec in self
ForEach(t, lines, Call(_, _)) ==
  LET step(l, T) == UNION {Call(u, l) : u \in T}
  IN  FoldSet(step, {t}, lines)

-----------------------------------------------------------------------------
(* Which operations a line allows: contract_line_constraints.py            *)

When(r) ==
  IF today < r.date_start THEN "BEFORE"
  ELSE IF r.date_end # 0 /\ today > r.date_end THEN "AFTER" ELSE "IN"

\* The table of criteria has a row for this line.
InMatrix(r) ==
  \/ r.canceled
  \/ r.auto /\ r.date_end # 0 /\ r.succ = NoLine
  \/ ~r.auto /\ (r.date_end # 0 \/ r.succ = NoLine)

Alive(r) == terminate_date = 0 /\ ~r.canceled /\ InMatrix(r)

StopAllowed(r) == Alive(r) /\ (When(r) = "AFTER" => r.succ = NoLine)
CancelAllowed(r) == Alive(r) /\ When(r) # "AFTER" /\ r.last = 0
SuspendAllowed(r) == Alive(r) /\ When(r) # "AFTER" /\ r.succ = NoLine
PlanAllowed(r) == Alive(r) /\ ~r.auto /\ r.date_end # 0 /\ r.succ = NoLine
UncancelAllowed(t, r) ==
  /\ terminate_date = 0 /\ r.canceled
  /\ r.pred # NoLine => t[r.pred].succ = NoLine

-----------------------------------------------------------------------------
(* The state shown of a line, and the domains that search lines by state.  *)

NoticeDate(r) == IF r.date_end = 0 THEN 0 ELSE r.date_end - Notice

ComputeState(r) ==
  IF r.canceled THEN "canceled"
  ELSE CASE When(r) = "BEFORE" -> "upcoming"
         [] When(r) = "IN" ->
              IF NoticeDate(r) # 0 /\ NoticeDate(r) < today /\ ~r.auto /\ ~r.manual
              THEN "upcoming-close" ELSE "in-progress"
         [] When(r) = "AFTER" ->
              IF r.auto \/ (r.manual /\ r.succ = NoLine) THEN "to-renew" ELSE "closed"

\* Mutant: a line is closed even when a renewal by hand is due.
StateDomain_ClosedManual(r, state) ==
  CASE state = "canceled" -> r.canceled
    [] state = "upcoming" -> ~r.canceled /\ r.date_start > today
    [] state = "in-progress" ->
         /\ ~r.canceled /\ r.date_start <= today
         /\ r.date_end = 0 \/ r.date_end >= today
         /\ r.auto \/ NoticeDate(r) > today
    [] state = "upcoming-close" ->
         /\ ~r.canceled /\ r.date_start <= today /\ r.date_end >= today
         /\ ~r.auto /\ ~r.manual
         /\ NoticeDate(r) # 0 /\ NoticeDate(r) < today
    [] state = "to-renew" ->
         /\ ~r.canceled /\ r.date_end # 0 /\ r.date_end < today
         /\ r.auto \/ (r.manual /\ r.succ = NoLine)
    [] state = "closed" ->
         ~r.canceled /\ r.date_end # 0 /\ r.date_end < today /\ ~r.auto

StateDomain(r, state) ==
  CASE state = "canceled" -> r.canceled
    [] state = "upcoming" -> ~r.canceled /\ r.date_start > today
    [] state = "in-progress" ->
         /\ ~r.canceled /\ r.date_start <= today
         /\ r.date_end = 0 \/ r.date_end >= today
         /\ r.auto \/ NoticeDate(r) > today
    [] state = "upcoming-close" ->
         /\ ~r.canceled /\ r.date_start <= today /\ r.date_end >= today
         /\ ~r.auto /\ ~r.manual
         /\ NoticeDate(r) # 0 /\ NoticeDate(r) < today
    [] state = "to-renew" ->
         /\ ~r.canceled /\ r.date_end # 0 /\ r.date_end < today
         /\ r.auto \/ (r.manual /\ r.succ = NoLine)
    [] state = "closed" ->
         /\ ~r.canceled /\ r.date_end # 0 /\ r.date_end < today
         /\ ~r.auto
         /\ ~r.manual \/ r.succ # NoLine

-----------------------------------------------------------------------------
(* The calls.                                                              *)

\* Mutant: the predecessor keeps its link.
Cancel_KeepLink(t, l) ==
  IF CancelAllowed(t[l])
  THEN Write(t, l, [canceled |-> TRUE, auto |-> FALSE]) ELSE {}

Cancel(t, l) ==
  LET unlinked == IF t[l].pred = NoLine THEN {t}
                  ELSE Write(t, t[l].pred, [succ |-> NoLine])
      canceled(u) == Write(u, l, [canceled |-> TRUE, auto |-> FALSE])
  IN  IF CancelAllowed(t[l]) THEN Then(unlinked, canceled) ELSE {}

\* Mutant: a line that ends before the date is left as it is.
StopOne_NotEarlier(t, l, end, manual) ==
  LET r == t[l] IN
  IF end < r.date_start THEN Cancel(t, l)
  ELSE IF r.date_end = 0 \/ r.date_end > end
       THEN Write(t, l, [date_end |-> end, auto |-> FALSE, manual |-> manual,
                         next |-> InvoiceDate(r, NextStart(r), end)])
       ELSE {t}

\* stop, on one line whose is_stop_allowed has been checked
StopOne(t, l, end, manual) ==
  LET r == t[l] IN
  IF end < r.date_start THEN Cancel(t, l)
  ELSE IF r.date_end = 0 \/ r.date_end > end
       THEN Write(t, l, [date_end |-> end, auto |-> FALSE, manual |-> manual,
                         next |-> InvoiceDate(r, NextStart(r), end)])
       ELSE Write(t, l, [auto |-> FALSE, manual |-> manual])

Stop(t, l, end, manual) ==
  IF StopAllowed(t[l]) THEN StopOne(t, l, end, manual) ELSE {}

\* The copy is read before is_auto_renew is reset; every field not listed is
\* copied.
Successor(r, l, start, end, auto) ==
  Written(r, [date_start |-> start, date_end |-> end, auto |-> auto,
              next |-> InvoiceDate(r, start, end), last |-> 0, pred |-> l])

PlanSuccessor(t, l, start, end, auto) ==
  LET reset == Write(t, l, [auto |-> FALSE])
      planned(u) ==
        UNION {Then(CreateLine(u, s, Successor(u[l], l, start, end, auto)),
                    LAMBDA v : Write(v, l, [succ |-> s])) : s \in Line}
  IN  IF PlanAllowed(t[l]) THEN Then(reset, planned) ELSE {}

Delay(t, l, days) ==
  LET r == t[l]
      start == r.date_start + days
      end == IF r.date_end = 0 THEN 0 ELSE r.date_end + days
  IN  IF r.last # 0 THEN {}
      ELSE Write(t, l, [date_start |-> start, date_end |-> end,
                        next |-> InvoiceDate(r, start, end)])

\* By how many days a line that starts in or after a suspension is delayed.
SuspensionDelay(r, from, to) ==
  IF r.date_start < to THEN to - r.date_start + 1 ELSE to - from + 1

\* Mutant: the first or the last day of the suspension is not counted.
RestartEnd_OneDayShort(r, from, to) ==
  IF r.date_end # 0 THEN r.date_end + (to - from) ELSE 0

\* The last day of the line planned after a suspension.
RestartEnd(r, from, to) ==
  IF r.date_end > from /\ r.date_end < to THEN to + (r.date_end - from) + 1
  ELSE IF r.date_end # 0 THEN r.date_end + (to - from) + 1 ELSE 0

\* stop_plan_successor: suspend a line from a day to a day.
Suspend(t, l, from, to, auto) ==
  LET r == t[l] IN
  IF ~SuspendAllowed(r) THEN {}
  ELSE IF r.date_start >= from THEN Delay(t, l, SuspensionDelay(r, from, to))
  ELSE IF r.date_end # 0 /\ r.date_end < from THEN Stop(t, l, from, FALSE)
  ELSE Then(Stop(t, l, from - 1, TRUE),
            LAMBDA u : PlanSuccessor(u, l, to + 1, RestartEnd(r, from, to), auto))

Uncancel(t, l, next) ==
  LET linked == IF t[l].pred = NoLine THEN {t}
                ELSE Write(t, t[l].pred, [succ |-> l])
      alive(u) == Write(u, l, [canceled |-> FALSE])
      dated(u) == Write(u, l, [next |-> next])
  IN  IF UncancelAllowed(t, t[l]) THEN Then(Then(linked, alive), dated) ELSE {}

\* renew, on one line
RenewExtend(t, l) == Write(t, l, [date_end |-> FirstDateEnd(t[l].date_end + 1)])

RenewCreate(t, l) ==
  LET r == t[l]
      end == FirstDateEnd(r.date_end + 1)
      planned(u) == PlanSuccessor(u, l, r.date_end + 1, end, r.auto)
      onchange(u) ==
        Write(u, u[l].succ, [next |-> OnchangeDateStart(u[u[l].succ])])
  IN  Then(Then(Stop(t, l, r.date_end, FALSE), planned), onchange)

Renew(t, l) ==
  IF t[l].date_end = 0 THEN {}
  ELSE UNION {IF new THEN RenewCreate(t, l) ELSE RenewExtend(t, l) : new \in NewLine}

\* Mutant: a date of invoice forced by the user is not looked at.
UpdateNextDate_Regular(t, l) ==
  LET end == PeriodEnd(t[l], NextStart(t[l]), t[l].date_end, 0)
  IN  IF end = 0 THEN {}
      ELSE Write(t, l, [next |-> InvoiceDate(t[l], end + 1, t[l].date_end),
                        last |-> end])

\* _update_recurring_next_date
UpdateNextDate(t, l) ==
  LET end == NextEnd(t[l])
  IN  IF end = 0 THEN {}
      ELSE Write(t, l, [next |-> InvoiceDate(t[l], end + 1, t[l].date_end),
                        last |-> end])

-----------------------------------------------------------------------------
(* The transactions.                                                       *)

InBounds(t) ==
  \A l \in Rows(t) :
    t[l].date_start <= MaxDate /\ t[l].date_end <= MaxDate /\ t[l].next <= MaxDate

\* A transaction leaves one of the tables, if there is one.
Commit(T) == \E t \in T : InBounds(t) /\ line' = t

\* An operation of a user.
Operation(T) ==
  /\ ops < MaxOps
  /\ ops' = ops + 1
  /\ Commit(T)
  /\ UNCHANGED <<today, terminate_date, stopped_on, bills>>

\* A line as entered in the form, with the dates the form computes.
Entered(f) ==
  LET r == [date_start |-> f.date_start,
            date_end |-> IF f.auto THEN FirstDateEnd(f.date_start) ELSE f.date_end,
            next |-> 0, last |-> 0, auto |-> f.auto, manual |-> FALSE,
            canceled |-> FALSE, prepaid |-> f.prepaid,
            succ |-> NoLine, pred |-> NoLine]
  IN  [r EXCEPT !.next = OnchangeDateStart(r)]

\* The tables to which a line has been added in the form.
WithNewLine(t) == UNION {CreateLine(t, l, Entered(f)) : l \in Line, f \in Form}

EnterLine == terminate_date = 0 /\ Operation(WithNewLine(line))

(* The form, on a line that exists: the contract is not terminated.  Some   *)
(* fields make the form compute others, which are written with them; the    *)
(* date of next invoice is one of those, and users may enter it too.        *)
EditDateStart(l, start) ==
  /\ terminate_date = 0 /\ start # line[l].date_start
  /\ LET end == IF line[l].auto THEN FirstDateEnd(start) ELSE line[l].date_end
         r == [line[l] EXCEPT !.date_start = start, !.date_end = end]
     IN  Operation(Write(line, l, [date_start |-> start, date_end |-> end,
                                   next |-> OnchangeDateStart(r)]))

EditDateEnd(l, end) ==
  /\ terminate_date = 0 /\ end # line[l].date_end
  /\ LET r == [line[l] EXCEPT !.date_end = end]
     IN  Operation(Write(line, l, [date_end |-> end, next |-> OnchangeDateStart(r)]))

EditNextDate(l, next) ==
  /\ terminate_date = 0 /\ next # line[l].next
  /\ Operation(Write(line, l, [next |-> next]))

EditInvoicingType(l) ==
  /\ terminate_date = 0
  /\ LET r == [line[l] EXCEPT !.prepaid = ~@]
     IN  Operation(Write(line, l, [prepaid |-> r.prepaid,
                                   next |-> OnchangeDateStart(r)]))

SetAutoRenew(l) ==
  /\ terminate_date = 0 /\ ~line[l].auto
  /\ LET end == FirstDateEnd(line[l].date_start)
     IN  Operation(Write(line, l,
           IF end = line[l].date_end THEN [auto |-> TRUE]
           ELSE [auto |-> TRUE, date_end |-> end,
                 next |-> OnchangeDateStart([line[l] EXCEPT !.date_end = end])]))

ResetAutoRenew(l) ==
  /\ terminate_date = 0 /\ line[l].auto
  /\ Operation(Write(line, l, [auto |-> FALSE]))

\* The wizards and the buttons.
StopLine(l, end, manual) == Operation(Stop(line, l, end, manual))
PlanLine(l, start, end, auto) == Operation(PlanSuccessor(line, l, start, end, auto))
SuspendLine(l, from, to, auto) ==
  from <= to /\ Operation(Suspend(line, l, from, to, auto))
CancelLine(l) == Operation(Cancel(line, l))
UncancelLine(l, next) == Operation(Uncancel(line, l, next))
RenewLine(l) == line[l].auto /\ Operation(Renew(line, l))

\* Only canceled lines may be deleted; links to them are reset by the database.
UnlinkLine(l) ==
  LET reset(m) == IF m = l THEN NoLine ELSE m
      unlinked(r) == IF r = NoRow THEN r
                     ELSE [r EXCEPT !.succ = reset(@), !.pred = reset(@)]
  IN  /\ line[l].canceled
      /\ Operation({[[m \in Line |-> unlinked(line[m])] EXCEPT ![l] = NoRow]})

\* Terminated again, a contract gets another date; no line is stop-allowed then.
TerminateContract(date) ==
  LET stopped(t, l) == StopOne(t, l, date, FALSE)
  IN  /\ ops < MaxOps /\ ops' = ops + 1
      /\ Commit(ForEach(line, {l \in Rows(line) : StopAllowed(line[l])}, stopped))
      /\ terminate_date' = date
      /\ stopped_on' = IF terminate_date = 0 THEN date ELSE stopped_on
      /\ UNCHANGED <<today, bills>>

CancelTermination ==
  /\ terminate_date # 0
  /\ ops < MaxOps /\ ops' = ops + 1
  /\ terminate_date' = 0 /\ stopped_on' = 0
  /\ UNCHANGED <<line, today, bills>>

\* The lines the cron renews, all in one transaction.
ToRenew ==
  {l \in Rows(line) : /\ terminate_date = 0
                      /\ line[l].auto /\ ~line[l].canceled
                      /\ line[l].date_end - Notice <= today}

CronRenew ==
  /\ ToRenew # {}
  /\ Commit(ForEach(line, ToRenew, Renew))
  /\ UNCHANGED <<today, terminate_date, stopped_on, bills, ops>>

ToInvoice(date) ==
  {l \in Rows(line) : /\ ~line[l].canceled
                      /\ line[l].next # 0 /\ line[l].next <= date}

\* The period of each invoice line, from the lines of table t.
Billed(t, lines) ==
  [l \in Line |->
     IF l \notin lines THEN bills[l]
     ELSE LET first == FirstNotInvoiced(t[l])
          IN  Append(bills[l],
                     <<first, PeriodEnd(t[l], first, t[l].date_end, t[l].next)>>)]

\* Mutant: the lines are updated before the invoice lines are prepared.
Invoice_UpdateFirst(date) ==
  /\ ToInvoice(date) # {}
  /\ Commit(ForEach(line, ToInvoice(date), UpdateNextDate))
  /\ bills' = Billed(line', ToInvoice(date))
  /\ UNCHANGED <<today, terminate_date, stopped_on>>

\* The invoice lines are prepared for every line before any line is updated.
Invoice(date) ==
  /\ ToInvoice(date) # {}
  /\ Commit(ForEach(line, ToInvoice(date), UpdateNextDate))
  /\ bills' = Billed(line, ToInvoice(date))
  /\ UNCHANGED <<today, terminate_date, stopped_on>>

CronInvoice == Invoice(today) /\ UNCHANGED ops

\* The button: the date of next invoice of the contract, maybe in the future.
InvoiceNow ==
  LET dates == {line[l].next : l \in {m \in Rows(line) : ~line[m].canceled}} \ {0}
  IN  /\ dates # {}
      /\ ops < MaxOps /\ ops' = ops + 1
      /\ Invoice(Min(dates))

Tick ==
  /\ today < Today
  /\ today' = today + 1
  /\ UNCHANGED <<line, terminate_date, stopped_on, bills, ops>>

\* A contract with one line.
Init ==
  /\ line \in WithNewLine([l \in Line |-> NoRow])
  /\ InBounds(line)
  /\ today = 2
  /\ terminate_date = 0 /\ stopped_on = 0
  /\ bills = [l \in Line |-> <<>>]
  /\ ops = 0

LineOperation(l) ==
  \/ \E start \in UserDate : EditDateStart(l, start)
  \/ \E end \in UserDate \cup {0} : EditDateEnd(l, end)
  \/ \E next \in UserDate \cup {0} : EditNextDate(l, next)
  \/ EditInvoicingType(l)
  \/ SetAutoRenew(l) \/ ResetAutoRenew(l)
  \/ \E end \in UserDate, manual \in BOOLEAN : StopLine(l, end, manual)
  \/ \E start \in UserDate, end \in UserDate \cup {0}, auto \in BOOLEAN :
       PlanLine(l, start, end, auto)
  \/ \E from, to \in UserDate, auto \in BOOLEAN : SuspendLine(l, from, to, auto)
  \/ CancelLine(l)
  \/ \E next \in UserDate : UncancelLine(l, next)
  \/ RenewLine(l)
  \/ UnlinkLine(l)

Next ==
  \/ EnterLine
  \/ \E l \in Rows(line) : LineOperation(l)
  \/ \E date \in UserDate : TerminateContract(date)
  \/ CancelTermination
  \/ CronRenew
  \/ CronInvoice
  \/ InvoiceNow
  \/ Tick

Spec == Init /\ [][Next]_vars

-----------------------------------------------------------------------------
(* Properties.                                                             *)

TypeOK ==
  /\ line \in [Line -> Row \cup {NoRow}]
  /\ today \in 2..Today
  /\ terminate_date \in Date /\ stopped_on \in Date
  /\ bills \in [Line -> Seq((Date \ {0}) \X (Date \ {0}))]
  /\ ops \in 0..MaxOps

Live(l) == line[l] # NoRow /\ ~line[l].canceled

\* Whatever is planned, suspended, canceled, uncanceled, renewed and deleted, a
\* line and its successor name each other, the successor is alive, and it starts
\* after the line ends.
ChainsLinked ==
  \A l \in Rows(line) :
    LET s == line[l].succ IN
    s # NoLine =>
      /\ Live(s) /\ line[s].pred = l
      /\ line[l].date_end # 0 /\ line[l].date_end < line[s].date_start

\* Every line is in the table of criteria, which has no default: the buttons of a
\* line that is not in it cannot be computed.
CriteriaKnown == \A l \in Rows(line) : InMatrix(line[l])

\* The periods invoiced of a line follow one another without gap or overlap, and
\* none goes back behind the one before, though users force dates of invoice and
\* move the dates of the line; the last one ends on last_date_invoiced, which is
\* computed by other code, and not after the line.  The first one is not empty; a
\* later one is when the date of invoice of a post-paid line is forced to the day
\* after the last period.
BilledInOrder ==
  \A l \in Rows(line) :
    LET b == bills[l] IN
    /\ \A i \in 1..Len(b) :
         IF i = 1 THEN b[i][1] <= b[i][2]
         ELSE b[i][1] = b[i - 1][2] + 1 /\ b[i - 1][2] <= b[i][2]
    /\ line[l].last = IF b = <<>> THEN 0 ELSE b[Len(b)][2]
    /\ line[l].date_end # 0 => line[l].last <= line[l].date_end

GoesOnAfter(l, date) ==
  /\ Live(l)
  /\ line[l].date_end = 0 \/ line[l].date_end > date

\* No live line of a terminated contract goes on after the date at which it was
\* terminated first, unless it was over already: a back-dated termination leaves
\* such lines alone.
TerminationHolds ==
  terminate_date # 0 =>
    \A l \in Rows(line) : GoesOnAfter(l, stopped_on)
                          => line[l].date_end # 0 /\ line[l].date_end < today

States == {"canceled", "upcoming", "in-progress", "upcoming-close", "to-renew",
           "closed"}

\* A search by state finds lines shown in that state only, and all of them: two
\* definitions of the state, in Python and in domains, do not drift apart.  (Of
\* the lines in progress it finds the auto-renewed ones and those whose notice
\* is still to come; the others are found in no state.)
SearchedAsShown ==
  \A l \in Rows(line) :
    LET shown == ComputeState(line[l])
        found == {state \in States : StateDomain(line[l], state)}
    IN  found = {shown} \/ (shown = "in-progress" /\ found = {})

\* The days served by a line.
Days(r) == r.date_start..(IF r.date_end = 0 THEN MaxDate ELSE r.date_end)

\* The suspension of line l from a day to a day, that leaves table u of table t, only
\* moves days: the line and its successor have as many days as it had, if it has an
\* end; the days before the suspension stay; and no day of the suspension is served.
Moves(t, u, l, from, to) ==
  LET before == Days(t[l])
      s == u[l].succ
      after == Days(u[l]) \cup (IF s = NoLine THEN {} ELSE Days(u[s]))
  IN  /\ after \cap (from..to) = {}
      /\ {d \in before : d < from} = {d \in after : d < from}
      /\ t[l].date_end # 0 => Cardinality(after) = Cardinality(before)

\* Wherever the dates of a suspension lie, before, in or after the period of a line
\* that was edited, stopped, planned or renewed before, the suspension takes no day
\* of service away, it only moves days.
SuspensionMovesDays ==
  ops < MaxOps =>
    \A l \in Rows(line), from, to \in UserDate, auto \in BOOLEAN :
      from <= to =>
        \A u \in Suspend(line, l, from, to, auto) : Moves(line, u, l, from, to)

\* `You must supply a date of next invoice': a live line with days left to invoice
\* has a date of next invoice.
InvoicingGoesOn == \A l \in Rows(line) : Live(l) => CheckNextDateSupplied(line, l)
=============================================================================
