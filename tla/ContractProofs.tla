--------------------------- MODULE ContractProofs ---------------------------
(***************************************************************************)
(* Proofs about Contract, for any lines, dates and numbers of operations.  *)
(***************************************************************************)
EXTENDS Contract, FiniteSetTheorems, WellFoundedInduction, TLAPS

-----------------------------------------------------------------------------
(* The inductive invariant.                                                *)

Table == [Line -> RowOf(Int) \cup {NoRow}]

\* What the constraints leave true of a row, in the middle of a transaction too.
Sound(r) ==
  /\ r.date_start >= 2
  /\ r.date_end # 0 => r.date_start <= r.date_end
  /\ r.next # 0 => r.date_start <= r.next
  /\ r.last # 0 => /\ r.date_start <= r.last
                   /\ r.date_end # 0 => r.last <= r.date_end
                   /\ r.next # 0 => r.last < r.next
  /\ r.date_end = 0 => r.next # 0
  /\ r.auto => r.succ = NoLine /\ r.date_end # 0
  /\ r.succ # NoLine => r.date_end # 0
  /\ r.canceled => ~r.auto /\ r.last = 0

\* The line and its successor fit.
Link(t, l) ==
  LET s == t[l].succ IN
  s # NoLine =>
    /\ s \in Rows(t) /\ ~t[s].canceled /\ t[s].pred = l
    /\ t[l].date_end # 0 /\ t[l].date_end < t[s].date_start

Correct(t) ==
  /\ t \in Table
  /\ \A l \in Rows(t) : Sound(t[l]) /\ Link(t, l)
  /\ \A l \in Rows(t) : t[l].pred # NoLine => t[l].pred \in Rows(t) \ {l}

\* No line is lost; what has been invoiced of it is kept, a new line is not
\* invoiced.
Evolves(t, u) ==
  /\ Rows(t) \subseteq Rows(u)
  /\ \A l \in Rows(t) : u[l].last = t[l].last
  /\ \A l \in Rows(u) \ Rows(t) : u[l].last = 0

-----------------------------------------------------------------------------
(* Writes.                                                                 *)

Fields == {"date_start", "date_end", "next", "last", "auto", "manual", "canceled",
           "prepaid", "succ", "pred"}

\* The row w is r with the values written.
Wrote(w, r, values) ==
  /\ w.date_start = IF "date_start" \in DOMAIN values THEN values.date_start ELSE r.date_start
  /\ w.date_end = IF "date_end" \in DOMAIN values THEN values.date_end ELSE r.date_end
  /\ w.next = IF "next" \in DOMAIN values THEN values.next ELSE r.next
  /\ w.last = IF "last" \in DOMAIN values THEN values.last ELSE r.last
  /\ w.auto = IF "auto" \in DOMAIN values THEN values.auto ELSE r.auto
  /\ w.manual = IF "manual" \in DOMAIN values THEN values.manual ELSE r.manual
  /\ w.canceled = IF "canceled" \in DOMAIN values THEN values.canceled ELSE r.canceled
  /\ w.prepaid = IF "prepaid" \in DOMAIN values THEN values.prepaid ELSE r.prepaid
  /\ w.succ = IF "succ" \in DOMAIN values THEN values.succ ELSE r.succ
  /\ w.pred = IF "pred" \in DOMAIN values THEN values.pred ELSE r.pred

\* The values have the types of the fields.
Fit(values) ==
  /\ "date_start" \in DOMAIN values => values.date_start \in Int
  /\ "date_end" \in DOMAIN values => values.date_end \in Int
  /\ "next" \in DOMAIN values => values.next \in Int
  /\ "last" \in DOMAIN values => values.last \in Int
  /\ "auto" \in DOMAIN values => values.auto \in BOOLEAN
  /\ "manual" \in DOMAIN values => values.manual \in BOOLEAN
  /\ "canceled" \in DOMAIN values => values.canceled \in BOOLEAN
  /\ "prepaid" \in DOMAIN values => values.prepaid \in BOOLEAN
  /\ "succ" \in DOMAIN values => values.succ \in Line \cup {NoLine}
  /\ "pred" \in DOMAIN values => values.pred \in Line \cup {NoLine}

\* Written changes the fields of the values, and only these.
LEMMA WrittenRow ==
  ASSUME NEW r \in RowOf(Int), NEW values, Fit(values)
  PROVE  Written(r, values) \in RowOf(Int) /\ Wrote(Written(r, values), r, values)
<1> DEFINE w == Written(r, values)
<1>1. DOMAIN w = Fields /\ w = [f \in Fields |-> w[f]]
  BY DEF Written, RowOf, Fields
<1>2. Wrote(w, r, values)
  BY DEF Written, RowOf, Wrote
<1>3. \A f \in {"date_start", "date_end", "next", "last"} : w[f] \in Int
  BY <1>2 DEF RowOf, Wrote, Fit
<1>4. \A f \in {"auto", "manual", "canceled", "prepaid"} : w[f] \in BOOLEAN
  BY <1>2 DEF RowOf, Wrote, Fit
<1>5. \A f \in {"succ", "pred"} : w[f] \in Line \cup {NoLine}
  BY <1>2 DEF RowOf, Wrote, Fit
<1> HIDE DEF w
<1>6. w \in RowOf(Int)
  BY <1>1, <1>3, <1>4, <1>5 DEF RowOf, Fields
<1>7. QED
  BY <1>2, <1>6 DEF w

\* A row is not the mark of a missing row.
LEMMA RowNotMissing == ASSUME NEW r \in RowOf(Int) PROVE r # NoRow
BY NoRowAssumption

\* A write changes one row, and the constraints of its fields hold after it.
LEMMA WriteEffect ==
  ASSUME NEW t \in Table, NEW l \in Rows(t), NEW values, Fit(values),
         NEW u \in Write(t, l, values)
  PROVE  /\ u \in Table /\ Rows(u) = Rows(t)
         /\ Wrote(u[l], t[l], values) /\ u[l] \in RowOf(Int)
         /\ \A m \in Line \ {l} : u[m] = t[m]
         /\ Constraints(u, l, DOMAIN values)
<1>1. t[l] \in RowOf(Int)
  BY DEF Table, Rows
<1>2. Written(t[l], values) \in RowOf(Int) /\ Wrote(Written(t[l], values), t[l], values)
  BY <1>1, WrittenRow
<1>3. u = [t EXCEPT ![l] = Written(t[l], values)] /\ Constraints(u, l, DOMAIN values)
  BY DEF Write
<1>4. QED
  BY <1>2, <1>3, RowNotMissing DEF Table, Rows

\* What the constraints have to guarantee when one row changes and no new link is
\* made from elsewhere.
LEMMA RowChange ==
  ASSUME NEW t, Correct(t), NEW l \in Rows(t), NEW u \in Table, Rows(u) = Rows(t),
         \A m \in Line \ {l} : u[m] = t[m],
         Sound(u[l]), u[l].pred = t[l].pred,
         u[l].succ = t[l].succ \/ Link(u, l),
         u[l].date_end # t[l].date_end => CheckOverlapSuccessor(u, l),
         u[l].date_start # t[l].date_start => CheckOverlapPredecessor(u, l),
         u[l].canceled => t[l].canceled \/ \A m \in Rows(t) : t[m].succ # l
  PROVE  Correct(u)
<1>1. \A m \in Rows(u) : u[m] \in RowOf(Int)
  BY DEF Table, Rows
<1>2. \A m \in Rows(u) : Sound(u[m])
  BY DEF Correct, Rows
<1>3. ASSUME NEW m \in Rows(u) PROVE u[m].pred # NoLine => u[m].pred \in Rows(u) \ {m}
  <2>1. u[m].pred = t[m].pred
    BY DEF Rows
  <2>2. QED
    BY <2>1 DEF Correct
<1>4. Link(u, l)
  <2>1. SUFFICES ASSUME u[l].succ = t[l].succ, u[l].succ # NoLine PROVE Link(u, l)
    BY DEF Link
  <2> DEFINE s == t[l].succ
  <2>2. /\ s \in Rows(t) /\ ~t[s].canceled /\ t[s].pred = l
        /\ t[l].date_end # 0 /\ t[l].date_end < t[s].date_start
    BY <2>1 DEF Correct, Link
  <2>3. s # l
    BY <1>1, <2>2 DEF Correct, Sound, Table, RowOf, Rows
  <2>4. u[s] = t[s]
    BY <2>2, <2>3 DEF Rows
  <2>5. u[l].date_end # 0
    BY <2>1 DEF Sound
  <2>6. u[l].date_end < u[s].date_start
    BY <2>1, <2>2, <2>4, <2>5 DEF CheckOverlapSuccessor
  <2>7. QED
    BY <2>1, <2>2, <2>4, <2>5, <2>6 DEF Link
<1>5. ASSUME NEW m \in Rows(u), m # l PROVE Link(u, m)
  <2>1. SUFFICES ASSUME u[m].succ # NoLine PROVE Link(u, m)
    BY DEF Link
  <2> DEFINE s == t[m].succ
  <2>2. u[m] = t[m]
    BY <1>5 DEF Rows
  <2>3. /\ s \in Rows(t) /\ ~t[s].canceled /\ t[s].pred = m
        /\ t[m].date_end # 0 /\ t[m].date_end < t[s].date_start
    BY <2>1, <2>2 DEF Correct, Link
  <2>4. CASE s # l
    BY <2>2, <2>3, <2>4 DEF Link, Rows
  <2>5. CASE s = l
    <3>1. ~u[l].canceled
      BY <2>3, <2>5
    <3>2. u[l].pred = m
      BY <2>3, <2>5
    <3>3. u[m].date_end < u[l].date_start
      <4>1. CASE u[l].date_start = t[l].date_start
        BY <2>2, <2>3, <2>5, <4>1
      <4>2. CASE u[l].date_start # t[l].date_start
        <5>1. m # NoLine
          BY ContractAssumption DEF Rows
        <5>2. QED
          BY <3>2, <4>2, <5>1 DEF CheckOverlapPredecessor
      <4>3. QED
        BY <4>1, <4>2
    <3>4. QED
      BY <2>2, <2>3, <2>5, <3>1, <3>2, <3>3 DEF Link
  <2>6. QED
    BY <2>4, <2>5
<1>6. QED
  BY <1>2, <1>3, <1>4, <1>5 DEF Correct

\* The constraints on the dates of one row.
NextFits(r) == r.next # 0 => r.date_start <= r.next
EndFits(r) == r.date_end # 0 => r.date_start <= r.date_end

\* The constraints run by a write, field by field.
LEMMA Checked ==
  ASSUME NEW t, NEW l, NEW fields, Constraints(t, l, fields)
  PROVE  /\ "auto" \in fields \/ "succ" \in fields \/ "date_end" \in fields
              => CheckAllowed(t, l)
         /\ "succ" \in fields \/ "date_end" \in fields => CheckOverlapSuccessor(t, l)
         /\ "pred" \in fields \/ "date_start" \in fields
              => CheckOverlapPredecessor(t, l)
         /\ "canceled" \in fields \/ "auto" \in fields => ~(t[l].canceled /\ t[l].auto)
         /\ "next" \in fields \/ "date_start" \in fields
              => NextFits(t[l])
         /\ fields \cap {"date_start", "date_end", "last", "next"} # {}
              => CheckLastDateInvoiced(t, l)
         /\ "next" \in fields => CheckNextDateSupplied(t, l)
         /\ "date_start" \in fields \/ "date_end" \in fields
              => EndFits(t[l])
BY DEF Constraints, NextFits, EndFits

-----------------------------------------------------------------------------
(* Periods and dates of invoice.                                           *)

\* Periods and dates of invoice are dates.
LEMMA DateTypes ==
  ASSUME NEW r \in RowOf(Int), NEW start \in Int, NEW max \in Int, NEW forced \in Int
  PROVE  /\ Offset(r) \in 0..1 /\ PeriodEnd(r, start, max, forced) \in Int
         /\ InvoiceDate(r, start, max) \in Int
         /\ NextStart(r) \in Int /\ FirstNotInvoiced(r) \in Int /\ NextEnd(r) \in Int
<1>1. \A m, f \in Int : PeriodEnd(r, start, m, f) \in Int
  BY ContractAssumption DEF PeriodEnd, Offset, RowOf
<1>2. NextStart(r) \in Int /\ FirstNotInvoiced(r) \in Int
  BY DEF NextStart, FirstNotInvoiced, RowOf
<1>3. NextEnd(r) \in Int
  BY <1>2, ContractAssumption DEF NextEnd, PeriodEnd, Offset, RowOf
<1>4. Offset(r) \in 0..1 /\ Offset(r) \in Int
  BY DEF Offset
<1>5. InvoiceDate(r, start, max) \in Int
  <2>1. PeriodEnd(r, start, max, 0) \in Int
    BY <1>1
  <2>2. QED
    BY <1>4, <2>1 DEF InvoiceDate
<1>6. QED
  BY <1>1, <1>2, <1>3, <1>4, <1>5

-----------------------------------------------------------------------------
(* The calls keep the table correct, and what has been invoiced.           *)

Keeps(t, u) == Correct(u) /\ Evolves(t, u)

\* The types of a row of a correct table.
LEMMA Types ==
  ASSUME NEW t, Correct(t), NEW l \in Rows(t)
  PROVE  t \in Table /\ l \in Line /\ t[l] \in RowOf(Int)
BY DEF Correct, Table, Rows

\* Calls that follow one another.
LEMMA EvolvesTrans ==
  ASSUME NEW t, NEW u, NEW v, Evolves(t, u), Evolves(u, v)
  PROVE  Evolves(t, v)
BY DEF Evolves

\* A call that changes nothing.
LEMMA EvolvesSelf == ASSUME NEW t PROVE Evolves(t, t)
BY DEF Evolves

\* A call that changes one row.
LEMMA EvolvesRow ==
  ASSUME NEW t, NEW u, NEW l, Rows(u) = Rows(t), \A m \in Line \ {l} : u[m] = t[m],
         u[l].last = t[l].last
  PROVE  Evolves(t, u)
BY DEF Evolves, Rows

\* A write of the dates, without a link.
LEMMA WriteKeeps ==
  ASSUME NEW t, Correct(t), NEW l \in Rows(t), NEW values, Fit(values),
         NEW u \in Write(t, l, values),
         Sound(u[l]),
         DOMAIN values \cap {"last", "succ", "pred", "canceled"} = {}
  PROVE  Keeps(t, u) /\ u[l].succ = t[l].succ /\ u[l].canceled = t[l].canceled
<1>1. /\ u \in Table /\ Rows(u) = Rows(t)
      /\ Wrote(u[l], t[l], values)
      /\ \A m \in Line \ {l} : u[m] = t[m]
      /\ Constraints(u, l, DOMAIN values)
  BY WriteEffect, Types
<1>2. /\ u[l].last = t[l].last /\ u[l].succ = t[l].succ /\ u[l].pred = t[l].pred
      /\ u[l].canceled = t[l].canceled
      /\ u[l].date_start # t[l].date_start => "date_start" \in DOMAIN values
      /\ u[l].date_end # t[l].date_end => "date_end" \in DOMAIN values
  BY <1>1 DEF Wrote
<1>3. /\ u[l].date_end # t[l].date_end => CheckOverlapSuccessor(u, l)
      /\ u[l].date_start # t[l].date_start => CheckOverlapPredecessor(u, l)
  BY <1>1, <1>2, Checked
<1>4. Correct(u)
  BY <1>1, <1>2, <1>3, RowChange
<1>5. Evolves(t, u)
  BY <1>1, <1>2, EvolvesRow
<1>6. QED
  BY <1>2, <1>4, <1>5 DEF Keeps

\* Only line l is written.
Changes(t, u, l) == Rows(u) = Rows(t) /\ \A m \in Line \ {l} : u[m] = t[m]

\* A write of the dates, the date of next invoice or the renewal: the constraints
\* that it runs are enough.
LEMMA WriteDated ==
  ASSUME NEW t, Correct(t), NEW l \in Rows(t), NEW values, Fit(values),
         NEW u \in Write(t, l, values),
         DOMAIN values \subseteq {"date_start", "date_end", "next", "auto", "manual",
                               "prepaid"},
         "date_start" \in DOMAIN values => values.date_start >= 2,
         "next" \notin DOMAIN values /\ "date_end" \in DOMAIN values
           => values.date_end # 0
  PROVE  /\ Keeps(t, u) /\ Changes(t, u, l) /\ u[l] \in RowOf(Int)
         /\ Wrote(u[l], t[l], values)
<1>1. /\ Wrote(u[l], t[l], values) /\ u[l] \in RowOf(Int)
      /\ Constraints(u, l, DOMAIN values) /\ Changes(t, u, l)
  BY WriteEffect, Types DEF Changes
<1>2. /\ u[l].last = t[l].last
      /\ u[l].succ = t[l].succ /\ u[l].canceled = t[l].canceled
      /\ "date_start" \notin DOMAIN values => u[l].date_start = t[l].date_start
      /\ "date_start" \in DOMAIN values => u[l].date_start >= 2
      /\ "date_end" \notin DOMAIN values => u[l].date_end = t[l].date_end
      /\ "next" \notin DOMAIN values => u[l].next = t[l].next
      /\ "auto" \notin DOMAIN values => u[l].auto = t[l].auto
      /\ "date_end" \in DOMAIN values => u[l].date_end = values.date_end
      /\ "next" \in DOMAIN values => u[l].next = values.next
  BY <1>1 DEF Wrote
<1>3. Sound(t[l]) /\ t[l] \in RowOf(Int)
  BY Types DEF Correct
<1>4. EndFits(u[l])
  BY <1>1, <1>2, <1>3, Checked DEF EndFits, Sound
<1>5. NextFits(u[l])
  BY <1>1, <1>2, <1>3, Checked DEF NextFits, Sound
<1>6. u[l].last # 0 => /\ u[l].date_start <= u[l].last
                       /\ u[l].date_end # 0 => u[l].last <= u[l].date_end
                       /\ u[l].next # 0 => u[l].last < u[l].next
  <2> DEFINE dates == DOMAIN values \cap {"date_start", "date_end", "last", "next"}
  <2>1. CASE dates # {}
    BY <1>1, <2>1, Checked DEF CheckLastDateInvoiced
  <2>2. CASE dates = {}
    BY <1>2, <1>3, <2>2 DEF Sound
  <2>3. QED
    BY <2>1, <2>2
<1>7. u[l].date_end = 0 => u[l].next # 0
  <2>1. CASE "next" \in DOMAIN values
    <3>1. CheckNextDateSupplied(u, l)
      BY <1>1, <2>1, Checked
    <3>2. QED
      BY <3>1 DEF CheckNextDateSupplied
  <2>2. CASE "next" \notin DOMAIN values
    BY <1>2, <1>3, <2>2 DEF Sound
  <2>3. QED
    BY <2>1, <2>2
<1>8. /\ u[l].auto => u[l].succ = NoLine /\ u[l].date_end # 0
      /\ u[l].succ # NoLine => u[l].date_end # 0
  <2>1. CASE "auto" \in DOMAIN values \/ "date_end" \in DOMAIN values
    <3>1. CheckAllowed(u, l)
      BY <1>1, <2>1, Checked
    <3>2. QED
      BY <3>1 DEF CheckAllowed
  <2>2. CASE "auto" \notin DOMAIN values /\ "date_end" \notin DOMAIN values
    BY <1>2, <1>3, <2>2 DEF Sound
  <2>3. QED
    BY <2>1, <2>2
<1>9. u[l].canceled => ~u[l].auto /\ u[l].last = 0
  <2>1. CASE "auto" \in DOMAIN values
    <3>1. ~(u[l].canceled /\ u[l].auto)
      BY <1>1, <2>1, Checked
    <3>2. QED
      BY <1>2, <1>3, <3>1 DEF Sound
  <2>2. CASE "auto" \notin DOMAIN values
    BY <1>2, <1>3, <2>2 DEF Sound
  <2>3. QED
    BY <2>1, <2>2
<1>10. Sound(u[l])
  BY <1>2, <1>3, <1>4, <1>5, <1>6, <1>7, <1>8, <1>9 DEF Sound, EndFits, NextFits
<1>11. DOMAIN values \cap {"last", "succ", "pred", "canceled"} = {}
  OBVIOUS
<1>12. Keeps(t, u)
  BY <1>10, <1>11, WriteKeeps
<1>13. QED
  BY <1>1, <1>12

\* What the row of a line keeps when another line is canceled or stopped.
SameTerm(r, q) == q.auto = r.auto /\ q.canceled = r.canceled /\ q.date_end = r.date_end

\* The write of stop that ends a line earlier.
LEMMA WriteStop ==
  ASSUME NEW t, Correct(t), NEW l \in Rows(t), NEW end \in Int, NEW manual \in BOOLEAN,
         NEW u \in Write(t, l, [date_end |-> end, auto |-> FALSE, manual |-> manual,
                                next |-> InvoiceDate(t[l], NextStart(t[l]), end)])
  PROVE  /\ Keeps(t, u) /\ Changes(t, u, l)
         /\ ~u[l].auto /\ u[l].date_end = end /\ u[l].canceled = t[l].canceled
         /\ u[l].date_start = t[l].date_start /\ u[l].succ = t[l].succ
<1> DEFINE next == InvoiceDate(t[l], NextStart(t[l]), end)
           values == [date_end |-> end, auto |-> FALSE, manual |-> manual,
                      next |-> next]
<1>1. t[l] \in RowOf(Int) /\ NextStart(t[l]) \in Int /\ next \in Int
  BY Types, DateTypes
<1> HIDE DEF next
<1>3. Fit(values) /\ DOMAIN values = {"date_end", "auto", "manual", "next"}
  BY <1>1 DEF Fit
<1>4. u \in Write(t, l, values)
  BY DEF next
<1>5. Keeps(t, u) /\ Changes(t, u, l) /\ Wrote(u[l], t[l], values)
  BY <1>3, <1>4, WriteDated
<1>6. QED
  BY <1>5 DEF Wrote

\* The write of stop on a line that ends before the date.
LEMMA WriteNoRenewal ==
  ASSUME NEW t, Correct(t), NEW l \in Rows(t), NEW manual \in BOOLEAN,
         NEW u \in Write(t, l, [auto |-> FALSE, manual |-> manual])
  PROVE  /\ Keeps(t, u) /\ Changes(t, u, l)
         /\ ~u[l].auto /\ u[l].date_end = t[l].date_end
         /\ u[l].canceled = t[l].canceled
         /\ u[l].date_start = t[l].date_start /\ u[l].succ = t[l].succ
<1> DEFINE values == [auto |-> FALSE, manual |-> manual]
<1>1. Fit(values) /\ DOMAIN values = {"auto", "manual"}
  BY DEF Fit
<1>2. Keeps(t, u) /\ Changes(t, u, l) /\ Wrote(u[l], t[l], values)
  BY <1>1, WriteDated
<1>3. QED
  BY <1>2 DEF Wrote

\* Cancelling unlinks the line from its predecessor.
LEMMA CancelKeeps ==
  ASSUME NEW t, Correct(t), NEW l \in Rows(t), NEW u \in Cancel(t, l)
  PROVE  /\ Keeps(t, u) /\ Rows(u) = Rows(t)
         /\ u[l].canceled /\ ~u[l].auto
         /\ \A m \in Rows(t) \ {l} : SameTerm(t[m], u[m])
<1> DEFINE p == t[l].pred
           unlinked == IF p = NoLine THEN {t} ELSE Write(t, p, [succ |-> NoLine])
           values == [canceled |-> TRUE, auto |-> FALSE]
<1>1. CancelAllowed(t[l]) /\ t[l].last = 0
  BY DEF Cancel, CancelAllowed
<1>2. PICK v \in unlinked : u \in Write(v, l, values)
  BY <1>1 DEF Cancel, Then
<1>3. /\ Correct(v) /\ Evolves(t, v) /\ Rows(v) = Rows(t) /\ v[l] = t[l]
      /\ \A m \in Rows(t) : v[m].succ # l
      /\ \A m \in Rows(t) : SameTerm(t[m], v[m])
  <2>1. \A m \in Rows(t) : t[m].succ = l => m = p
    BY ContractAssumption DEF Correct, Link, Rows
  <2>2. CASE p = NoLine
    <3>1. v = t
      BY <2>2
    <3>2. \A m \in Rows(t) : t[m].succ # l
      BY <2>1, <2>2, ContractAssumption DEF Rows
    <3>3. QED
      BY <3>1, <3>2, EvolvesSelf DEF SameTerm
  <2>3. CASE p # NoLine
    <3> DEFINE reset == [succ |-> NoLine]
    <3>1. p \in Rows(t) /\ p # l /\ v \in Write(t, p, reset)
      BY <2>3 DEF Correct
    <3>2. Fit(reset) /\ DOMAIN reset = {"succ"}
      BY DEF Fit
    <3>3. Wrote(v[p], t[p], reset) /\ Changes(t, v, p) /\ v \in Table
      BY <3>1, <3>2, WriteEffect, Types DEF Changes
    <3>4. Sound(v[p])
      BY <3>1, <3>3 DEF Wrote, Sound, Correct, Offset
    <3>5. Link(v, p)
      BY <3>3 DEF Wrote, Link
    <3>6. Correct(v)
      BY <3>1, <3>3, <3>4, <3>5, RowChange DEF Wrote, Changes
    <3>7. Evolves(t, v)
      BY <3>1, <3>3, EvolvesRow DEF Wrote, Changes
    <3>8. v[l] = t[l]
      BY <3>1, <3>3, Types DEF Changes
    <3>9. ASSUME NEW m \in Rows(t) PROVE v[m].succ # l /\ SameTerm(t[m], v[m])
      <4>1. CASE m = p
        <5>1. v[m].succ = NoLine
          BY <3>3, <4>1 DEF Wrote
        <5>2. SameTerm(t[m], v[m])
          BY <3>3, <4>1 DEF Wrote, SameTerm
        <5>3. QED
          BY <5>1, <5>2, ContractAssumption DEF Rows
      <4>2. CASE m # p
        BY <2>1, <3>3, <4>2, Types DEF Changes, SameTerm
      <4>3. QED
        BY <4>1, <4>2
    <3>10. QED
      BY <3>3, <3>6, <3>7, <3>8, <3>9 DEF Changes
  <2>4. QED
    BY <2>2, <2>3
<1> HIDE DEF p, unlinked
<1>4. Fit(values) /\ DOMAIN values = {"canceled", "auto"}
  BY DEF Fit
<1>5. Wrote(u[l], v[l], values) /\ Changes(v, u, l) /\ u \in Table
  BY <1>2, <1>3, <1>4, WriteEffect, Types DEF Changes
<1>6. Sound(u[l])
  BY <1>1, <1>3, <1>5 DEF Wrote, Sound, Correct, Offset
<1>7. Correct(u)
  BY <1>3, <1>5, <1>6, RowChange DEF Wrote, Changes
<1>8. Evolves(v, u)
  BY <1>3, <1>5, EvolvesRow DEF Wrote, Changes
<1>9. u[l].canceled /\ ~u[l].auto
  BY <1>5 DEF Wrote
<1>10. \A m \in Rows(t) \ {l} : SameTerm(t[m], u[m])
  BY <1>3, <1>5, Types DEF Changes
<1>11. QED
  BY <1>3, <1>5, <1>7, <1>8, <1>9, <1>10, EvolvesTrans DEF Keeps, Changes

\* After stop, a line is canceled, or ends on the date or before; other lines are
\* as they were.
LEMMA StopOneKeeps ==
  ASSUME NEW t, Correct(t), NEW l \in Rows(t), NEW end \in Int, NEW manual \in BOOLEAN,
         NEW u \in StopOne(t, l, end, manual)
  PROVE  /\ Keeps(t, u) /\ Rows(u) = Rows(t) /\ ~u[l].auto
         /\ u[l].canceled \/ (u[l].date_end # 0 /\ u[l].date_end <= end)
         /\ \A m \in Rows(t) \ {l} : SameTerm(t[m], u[m])
<1>1. CASE end < t[l].date_start
  BY <1>1, CancelKeeps DEF StopOne
<1>2. CASE ~(end < t[l].date_start) /\ (t[l].date_end = 0 \/ t[l].date_end > end)
  <2>1. /\ Keeps(t, u) /\ Changes(t, u, l)
        /\ ~u[l].auto /\ u[l].date_end = end
    BY <1>2, WriteStop DEF StopOne
  <2>2. end # 0
    BY <1>2, Types DEF RowOf, Correct, Sound
  <2>3. \A m \in Rows(t) \ {l} : SameTerm(t[m], u[m])
    BY <2>1, Types DEF Changes, SameTerm
  <2>4. QED
    BY <2>1, <2>2, <2>3 DEF Changes
<1>3. CASE ~(end < t[l].date_start) /\ ~(t[l].date_end = 0 \/ t[l].date_end > end)
  <2>1. /\ Keeps(t, u) /\ Changes(t, u, l)
        /\ ~u[l].auto /\ u[l].date_end = t[l].date_end
    BY <1>3, WriteNoRenewal DEF StopOne
  <2>2. u[l].date_end # 0 /\ u[l].date_end <= end
    BY <1>3, <2>1, Types DEF RowOf
  <2>3. \A m \in Rows(t) \ {l} : SameTerm(t[m], u[m])
    BY <2>1, Types DEF Changes, SameTerm
  <2>4. QED
    BY <2>1, <2>2, <2>3 DEF Changes
<1>4. QED
  BY <1>1, <1>2, <1>3

\* A new line that is not invoiced and has no successor.
LEMMA CreateKeeps ==
  ASSUME NEW t, Correct(t), NEW l \in Line, NEW row \in RowOf(Int),
         row.date_start >= 2, row.last = 0, row.succ = NoLine,
         row.pred \in Rows(t) \cup {NoLine},
         NEW u \in CreateLine(t, l, row)
  PROVE  /\ Keeps(t, u) /\ l \notin Rows(t) /\ Rows(u) = Rows(t) \cup {l}
         /\ u[l] = row /\ \A m \in Line \ {l} : u[m] = t[m]
<1>1. t \in Table
  BY DEF Correct
<1>2. /\ u = [t EXCEPT ![l] = row] /\ t[l] = NoRow
      /\ Constraints(u, l, DOMAIN row)
  BY DEF CreateLine
<1>3. /\ u \in Table /\ u[l] = row /\ \A m \in Line \ {l} : u[m] = t[m]
      /\ l \notin Rows(t) /\ Rows(u) = Rows(t) \cup {l}
  BY <1>1, <1>2, RowNotMissing DEF Table, Rows
<1>4. DOMAIN row = Fields
  BY DEF RowOf, Fields
<1>5. /\ CheckAllowed(u, l) /\ ~(u[l].canceled /\ u[l].auto)
      /\ CheckNextDateSupplied(u, l) /\ EndFits(u[l]) /\ NextFits(u[l])
  BY <1>2, <1>4, Checked DEF Fields
<1>6. Sound(row)
  BY <1>3, <1>5 DEF Sound, CheckAllowed, CheckNextDateSupplied, EndFits, NextFits
<1>7. ASSUME NEW m \in Rows(u)
      PROVE  Sound(u[m]) /\ (u[m].pred # NoLine => u[m].pred \in Rows(u) \ {m})
  <2>1. CASE m = l
    BY <1>3, <1>6, <2>1
  <2>2. CASE m # l
    <3>1. m \in Rows(t) /\ u[m] = t[m]
      BY <1>3, <2>2, Types
    <3>2. QED
      BY <1>3, <3>1 DEF Correct
  <2>3. QED
    BY <2>1, <2>2
<1>8. ASSUME NEW m \in Rows(u) PROVE Link(u, m)
  <2>1. CASE m = l
    BY <1>3, <2>1 DEF Link
  <2>2. CASE m # l
    <3>1. m \in Rows(t) /\ u[m] = t[m] /\ Link(t, m)
      BY <1>3, <2>2, Types DEF Correct
    <3>2. QED
      BY <1>3, <3>1, Types DEF Link
  <2>3. QED
    BY <2>1, <2>2
<1>9. Correct(u)
  BY <1>3, <1>7, <1>8 DEF Correct
<1>10. Evolves(t, u)
  BY <1>3, Types DEF Evolves
<1>11. QED
  BY <1>3, <1>9, <1>10 DEF Keeps

\* The row of a successor.
LEMMA SuccessorRow ==
  ASSUME NEW r \in RowOf(Int), NEW l \in Line, NEW start \in Int, NEW end \in Int,
         NEW auto \in BOOLEAN
  PROVE  LET q == Successor(r, l, start, end, auto) IN
         /\ q \in RowOf(Int)
         /\ q.date_start = start /\ q.date_end = end /\ q.auto = auto
         /\ q.last = 0 /\ q.pred = l /\ q.succ = r.succ /\ q.canceled = r.canceled
<1> DEFINE next == InvoiceDate(r, start, end)
           values == [date_start |-> start, date_end |-> end, auto |-> auto,
                      next |-> next, last |-> 0, pred |-> l]
<1>1. next \in Int
  BY DateTypes
<1> HIDE DEF next
<1>2. Fit(values)
  BY <1>1 DEF Fit
<1>3. Written(r, values) \in RowOf(Int) /\ Wrote(Written(r, values), r, values)
  BY <1>2, WrittenRow
<1>4. Successor(r, l, start, end, auto) = Written(r, values)
  BY DEF Successor, next
<1>5. QED
  BY <1>3, <1>4 DEF Wrote

\* The write of is_auto_renew alone.
LEMMA WriteAuto ==
  ASSUME NEW t, Correct(t), NEW l \in Rows(t), NEW auto \in BOOLEAN,
         NEW u \in Write(t, l, [auto |-> auto])
  PROVE  /\ Keeps(t, u) /\ Changes(t, u, l) /\ u[l] \in RowOf(Int)
         /\ u[l].auto = auto /\ u[l].date_end = t[l].date_end
         /\ u[l].canceled = t[l].canceled /\ u[l].last = t[l].last
         /\ u[l].date_start = t[l].date_start /\ u[l].succ = t[l].succ
<1> DEFINE values == [auto |-> auto]
<1>1. Fit(values) /\ DOMAIN values = {"auto"}
  BY DEF Fit
<1>2. /\ Keeps(t, u) /\ Changes(t, u, l) /\ u[l] \in RowOf(Int)
      /\ Wrote(u[l], t[l], values)
  BY <1>1, WriteDated
<1>3. QED
  BY <1>2 DEF Wrote

\* The successor is a new line, linked to the line in both directions.
LEMMA PlanKeeps ==
  ASSUME NEW t, Correct(t), NEW l \in Rows(t), NEW start \in Int, NEW end \in Int,
         NEW auto \in BOOLEAN, start >= 2,
         NEW u \in PlanSuccessor(t, l, start, end, auto)
  PROVE  /\ Keeps(t, u)
         /\ u[l].date_start = t[l].date_start /\ u[l].date_end = t[l].date_end
         /\ u[l].succ \in Line \ Rows(t) /\ u[l].succ \in Rows(u)
         /\ u[u[l].succ].date_start = start /\ u[u[l].succ].date_end = end
<1> DEFINE New(v, s) == Successor(v[l], l, start, end, auto)
<1>1. PlanAllowed(t[l]) /\ t[l].succ = NoLine /\ ~t[l].canceled
  BY DEF PlanSuccessor, PlanAllowed, Alive
<1>2. PICK v \in Write(t, l, [auto |-> FALSE]), s \in Line :
        \E w \in CreateLine(v, s, New(v, s)) : u \in Write(w, l, [succ |-> s])
  BY <1>1 DEF PlanSuccessor, Then
<1>3. /\ Keeps(t, v) /\ Rows(v) = Rows(t) /\ v[l] \in RowOf(Int)
      /\ v[l].date_end = t[l].date_end /\ v[l].date_start = t[l].date_start
      /\ v[l].succ = NoLine /\ ~v[l].canceled
  <2>1. \A b \in BOOLEAN : v \in Write(t, l, [auto |-> b]) =>
          /\ Keeps(t, v) /\ Changes(t, v, l) /\ v[l] \in RowOf(Int)
          /\ v[l].date_end = t[l].date_end /\ v[l].canceled = t[l].canceled
          /\ v[l].date_start = t[l].date_start /\ v[l].succ = t[l].succ
    BY WriteAuto
  <2>2. /\ Keeps(t, v) /\ Changes(t, v, l) /\ v[l] \in RowOf(Int)
        /\ v[l].date_end = t[l].date_end /\ v[l].canceled = t[l].canceled
        /\ v[l].date_start = t[l].date_start /\ v[l].succ = t[l].succ
    BY <2>1, <1>2
  <2>3. QED
    BY <1>1, <2>2 DEF Changes
<1>4. PICK w \in CreateLine(v, s, New(v, s)) : u \in Write(w, l, [succ |-> s])
  BY <1>2
<1>5. /\ New(v, s) \in RowOf(Int)
      /\ New(v, s).date_start = start /\ New(v, s).date_end = end
      /\ New(v, s).last = 0 /\ New(v, s).pred = l
      /\ New(v, s).succ = NoLine /\ ~New(v, s).canceled
  BY <1>3, SuccessorRow, Types
<1> HIDE DEF New
<1>6. /\ Keeps(v, w) /\ s \notin Rows(v) /\ Rows(w) = Rows(v) \cup {s}
      /\ w[s] = New(v, s) /\ \A m \in Line \ {s} : w[m] = v[m]
  BY <1>3, <1>5, CreateKeeps DEF Keeps
<1>7. l # s /\ w[l] = v[l] /\ l \in Rows(w)
  BY <1>3, <1>6, Types
<1> DEFINE values == [succ |-> s]
<1>8. Fit(values) /\ DOMAIN values = {"succ"}
  BY DEF Fit
<1>9. /\ Wrote(u[l], w[l], values) /\ Changes(w, u, l) /\ u \in Table
      /\ Constraints(u, l, DOMAIN values)
  BY <1>4, <1>6, <1>7, <1>8, WriteEffect, Types DEF Changes, Keeps
<1>10. CheckAllowed(u, l) /\ CheckOverlapSuccessor(u, l)
  BY <1>8, <1>9, Checked
<1>11. /\ u[l].succ = s /\ u[s] = w[s]
       /\ u[l].date_start = t[l].date_start /\ u[l].date_end = t[l].date_end
  BY <1>3, <1>7, <1>8, <1>9 DEF Wrote, Changes
<1>12. s # NoLine
  BY ContractAssumption
<1>13. u[l].date_end # 0 /\ ~u[l].auto
  BY <1>10, <1>11, <1>12 DEF CheckAllowed
<1>14. Link(u, l)
  BY <1>5, <1>6, <1>9, <1>10, <1>11, <1>12, <1>13 DEF Link, CheckOverlapSuccessor, Changes
<1>15. Sound(u[l])
  BY <1>6, <1>7, <1>9, <1>13 DEF Wrote, Sound, Correct, Offset, Keeps
<1>16. Correct(u)
  BY <1>6, <1>7, <1>9, <1>14, <1>15, RowChange DEF Wrote, Changes, Keeps
<1>17. Evolves(w, u)
  BY <1>7, <1>9, EvolvesRow DEF Wrote, Changes
<1>18. Keeps(t, u)
  BY <1>3, <1>6, <1>16, <1>17, EvolvesTrans DEF Keeps
<1>19. QED
  BY <1>3, <1>5, <1>6, <1>9, <1>11, <1>18 DEF Changes

\* A delay moves both ends of a line that is not invoiced.
LEMMA DelayKeeps ==
  ASSUME NEW t, Correct(t), NEW l \in Rows(t), NEW days \in Nat,
         NEW u \in Delay(t, l, days)
  PROVE  /\ Keeps(t, u) /\ u[l].succ = t[l].succ
         /\ u[l].date_start = t[l].date_start + days
         /\ u[l].date_end = IF t[l].date_end = 0 THEN 0 ELSE t[l].date_end + days
<1> DEFINE start == t[l].date_start + days
           end == IF t[l].date_end = 0 THEN 0 ELSE t[l].date_end + days
           next == InvoiceDate(t[l], start, end)
           values == [date_start |-> start, date_end |-> end, next |-> next]
<1>1. t[l] \in RowOf(Int) /\ start \in Int /\ end \in Int
  BY Types DEF RowOf
<1>2. t[l].last = 0 /\ u \in Write(t, l, values)
  BY DEF Delay
<1>3. start >= 2
  BY <1>1 DEF Correct, Sound, RowOf
<1>4. next \in Int
  BY <1>1, DateTypes
<1> HIDE DEF start, end, next
<1>5. Fit(values) /\ DOMAIN values = {"date_start", "date_end", "next"}
  BY <1>1, <1>4 DEF Fit
<1>6. Wrote(u[l], t[l], values) /\ Constraints(u, l, DOMAIN values)
  BY <1>2, <1>5, WriteEffect, Types
<1>7. CheckAllowed(u, l) /\ CheckNextDateSupplied(u, l) /\ EndFits(u[l]) /\ NextFits(u[l])
  BY <1>5, <1>6, Checked
<1>8. Sound(u[l])
  BY <1>2, <1>3, <1>6, <1>7
     DEF Wrote, Sound, Correct, CheckAllowed, CheckNextDateSupplied, EndFits, NextFits
<1>9. Keeps(t, u)
  BY <1>2, <1>5, <1>8, WriteKeeps
<1>10. QED
  BY <1>6, <1>9 DEF Wrote, start, end

\* The wizard that stops a line.
LEMMA StopKeeps ==
  ASSUME NEW t, Correct(t), NEW l \in Rows(t), NEW end \in Int, NEW manual \in BOOLEAN,
         NEW u \in Stop(t, l, end, manual)
  PROVE  Keeps(t, u) /\ Rows(u) = Rows(t)
BY StopOneKeeps DEF Stop

\* The last day of the line planned after a suspension is a date.
LEMMA RestartEndType ==
  ASSUME NEW r \in RowOf(Int), NEW from \in Int, NEW to \in Int
  PROVE  RestartEnd(r, from, to) \in Int
BY DEF RestartEnd, RowOf

\* A suspension: a delay, a stop, or a stop and a successor.
LEMMA SuspendKeeps ==
  ASSUME NEW t, Correct(t), NEW l \in Rows(t), NEW from \in Int, NEW to \in Int,
         2 <= from, from <= to, NEW auto \in BOOLEAN,
         NEW u \in Suspend(t, l, from, to, auto)
  PROVE  Keeps(t, u)
<1> DEFINE r == t[l]
<1>1. r \in RowOf(Int) /\ r.date_start \in Int
  BY Types DEF RowOf
<1>2. CASE r.date_start >= from
  <2>1. SuspensionDelay(r, from, to) \in Nat
    BY <1>1, <1>2 DEF SuspensionDelay
  <2>2. u \in Delay(t, l, SuspensionDelay(r, from, to))
    BY <1>2 DEF Suspend
  <2>3. QED
    BY <2>1, <2>2, DelayKeeps
<1>3. CASE ~(r.date_start >= from) /\ r.date_end # 0 /\ r.date_end < from
  BY <1>3, StopKeeps DEF Suspend
<1>4. CASE ~(r.date_start >= from) /\ ~(r.date_end # 0 /\ r.date_end < from)
  <2>1. PICK v \in Stop(t, l, from - 1, TRUE) :
          u \in PlanSuccessor(v, l, to + 1, RestartEnd(r, from, to), auto)
    BY <1>4 DEF Suspend, Then
  <2>2. Keeps(t, v) /\ Rows(v) = Rows(t)
    <3>1. from - 1 \in Int /\ TRUE \in BOOLEAN
      OBVIOUS
    <3>2. QED
      BY <2>1, <3>1, StopKeeps
  <2>3. RestartEnd(r, from, to) \in Int
    BY <1>1, RestartEndType
  <2>4. Keeps(v, u)
    BY <2>1, <2>2, <2>3, PlanKeeps DEF Keeps
  <2>5. QED
    BY <2>2, <2>4, EvolvesTrans DEF Keeps
<1>5. QED
  BY <1>2, <1>3, <1>4

\* The predecessor is linked again before the line is alive.
LEMMA UncancelKeeps ==
  ASSUME NEW t, Correct(t), NEW l \in Rows(t), NEW next \in Int,
         NEW u \in Uncancel(t, l, next)
  PROVE  Keeps(t, u)
<1> DEFINE p == t[l].pred
           linked == IF p = NoLine THEN {t} ELSE Write(t, p, [succ |-> l])
           alive == [canceled |-> FALSE]
           dated == [next |-> next]
<1>1. t[l].canceled /\ t[l].last = 0 /\ ~t[l].auto
  BY DEF Uncancel, UncancelAllowed, Correct, Sound
<1>2a. PICK v \in linked : \E w \in Write(v, l, alive) : u \in Write(w, l, dated)
  BY DEF Uncancel, Then
<1>2. PICK w \in Write(v, l, alive) : u \in Write(w, l, dated)
  BY <1>2a
<1>3. Fit(alive) /\ DOMAIN alive = {"canceled"}
  BY DEF Fit
<1>4. l \in Line /\ l # NoLine
  BY Types, ContractAssumption
<1>5. Correct(w) /\ Evolves(t, w) /\ Rows(w) = Rows(t) /\ w[l].last = 0
  <2>1. CASE p = NoLine
    <3>1. v = t
      BY <2>1
    <3>2. Wrote(w[l], t[l], alive) /\ Changes(t, w, l) /\ w \in Table
      BY <1>2, <1>3, <3>1, WriteEffect, Types DEF Changes
    <3>3. Sound(w[l])
      BY <3>2 DEF Wrote, Sound, Correct, Offset
    <3>4. Correct(w)
      BY <3>2, <3>3, RowChange DEF Wrote, Changes
    <3>5. QED
      BY <1>1, <3>2, <3>4, EvolvesRow DEF Wrote, Changes
  <2>2. CASE p # NoLine
    <3> DEFINE link == [succ |-> l]
    <3>1. p \in Rows(t) /\ p # l /\ v \in Write(t, p, link)
      BY <2>2 DEF Correct
    <3>2. Fit(link) /\ DOMAIN link = {"succ"}
      BY <1>4 DEF Fit
    <3>3. /\ Wrote(v[p], t[p], link) /\ Changes(t, v, p) /\ v \in Table
          /\ Constraints(v, p, DOMAIN link)
      BY <3>1, <3>2, WriteEffect, Types DEF Changes
    <3>4. CheckAllowed(v, p) /\ CheckOverlapSuccessor(v, p)
      BY <3>2, <3>3, Checked
    <3>5. v[l] = t[l]
      BY <1>4, <3>1, <3>3 DEF Changes
    <3>6. /\ Wrote(w[l], t[l], alive) /\ Changes(v, w, l) /\ w \in Table
          /\ w[l] \in RowOf(Int)
      BY <1>2, <1>3, <3>3, <3>5, WriteEffect, Types DEF Changes
    <3> DEFINE t1 == [t EXCEPT ![l] = w[l]]
    <3>7. /\ t1 \in Table /\ Changes(t, t1, l) /\ t1[l] = w[l]
      BY <3>6, Types, RowNotMissing DEF Table, Changes, Rows
    <3>8. Sound(w[l])
      BY <3>6 DEF Wrote, Sound, Correct, Offset
    <3> HIDE DEF t1
    <3>9. Correct(t1)
      BY <3>6, <3>7, <3>8, RowChange DEF Wrote, Changes
    <3>10. w[p] = v[p] /\ t1[p] = t[p] /\ p \in Line /\ p \in Rows(t1)
      BY <3>1, <3>6, <3>7, Types DEF Changes
    <3>11. Changes(t1, w, p)
      <4>1. Rows(w) = Rows(t1)
        BY <3>3, <3>6, <3>7 DEF Changes
      <4>2. ASSUME NEW m \in Line \ {p} PROVE w[m] = t1[m]
        <5>1. CASE m = l
          BY <3>7, <5>1
        <5>2. CASE m # l
          BY <3>3, <3>6, <3>7, <4>2, <5>2 DEF Changes
        <5>3. QED
          BY <5>1, <5>2
      <4>3. QED
        BY <4>1, <4>2 DEF Changes
    <3>12. v[p].succ = l /\ v[p].date_end # 0 /\ ~v[p].auto
      BY <1>4, <3>3, <3>4 DEF Wrote, CheckAllowed
    <3>13. v[p].date_end < v[l].date_start
      BY <1>4, <3>4, <3>12 DEF CheckOverlapSuccessor
    <3>14. Link(w, p)
      <4>1. /\ l \in Rows(w) /\ ~w[l].canceled /\ w[l].pred = p
            /\ w[l].date_start = v[l].date_start
        BY <3>3, <3>5, <3>6 DEF Wrote, Changes
      <4>2. QED
        BY <3>10, <3>12, <3>13, <4>1 DEF Link
    <3>15. Sound(w[p])
      BY <3>1, <3>3, <3>10, <3>12 DEF Wrote, Sound, Correct, Offset
    <3>16. Correct(w)
      BY <3>3, <3>6, <3>9, <3>10, <3>11, <3>14, <3>15, RowChange DEF Wrote, Changes
    <3>17. Evolves(t, w)
      <4>1. Evolves(t, t1)
        BY <3>6, <3>7, EvolvesRow DEF Wrote, Changes
      <4>2. Evolves(t1, w)
        <5>1. w[p].last = t1[p].last
          BY <3>3, <3>10 DEF Wrote
        <5>2. QED
          BY <3>11, <5>1, EvolvesRow DEF Changes
      <4>3. QED
        BY <4>1, <4>2, EvolvesTrans
    <3>18. QED
      BY <1>1, <3>3, <3>6, <3>16, <3>17 DEF Wrote, Changes
  <2>3. QED
    BY <2>1, <2>2
<1>6. Fit(dated) /\ DOMAIN dated = {"next"}
  BY DEF Fit
<1>7. Wrote(u[l], w[l], dated) /\ Constraints(u, l, DOMAIN dated)
  BY <1>2, <1>5, <1>6, WriteEffect, Types
<1>8. CheckNextDateSupplied(u, l) /\ NextFits(u[l])
  BY <1>6, <1>7, Checked
<1>9. Sound(u[l])
  BY <1>5, <1>7, <1>8 DEF Wrote, Sound, Correct, CheckNextDateSupplied, NextFits
<1>10. Keeps(w, u)
  BY <1>2, <1>5, <1>6, <1>9, WriteKeeps
<1>11. QED
  BY <1>5, <1>10, EvolvesTrans DEF Keeps

\* The date of next invoice that the form computes is a date.
LEMMA OnchangeType ==
  ASSUME NEW r \in RowOf(Int) PROVE OnchangeDateStart(r) \in Int
<1>1. r.date_end \in Int /\ NextStart(r) \in Int
  BY DateTypes DEF RowOf
<1>2. QED
  BY <1>1, DateTypes DEF OnchangeDateStart

\* A renewal: an extension, or a successor that is dated again.
LEMMA RenewKeeps ==
  ASSUME NEW t, Correct(t), NEW l \in Rows(t), NEW u \in Renew(t, l)
  PROVE  Keeps(t, u)
<1> DEFINE r == t[l]
           end == FirstDateEnd(r.date_end + 1)
<1>1. r \in RowOf(Int) /\ r.date_end \in Int /\ r.auto \in BOOLEAN
  BY Types DEF RowOf
<1>2. r.date_end # 0 /\ r.date_end >= 2
  BY <1>1, Types DEF Renew, Correct, Sound, RowOf
<1>3. end \in Int /\ end # 0
  BY <1>1, <1>2, ContractAssumption DEF FirstDateEnd
<1>4. CASE u \in RenewExtend(t, l)
  <2> DEFINE values == [date_end |-> end]
  <2>1. Fit(values) /\ DOMAIN values = {"date_end"}
    BY <1>3 DEF Fit
  <2>2. u \in Write(t, l, values)
    BY <1>4 DEF RenewExtend
  <2>3. QED
    BY <1>3, <2>1, <2>2, WriteDated
<1>5. CASE u \in RenewCreate(t, l)
  <2> DEFINE planned(v) == PlanSuccessor(v, l, r.date_end + 1, end, r.auto)
             onchange(w) == Write(w, w[l].succ,
                                  [next |-> OnchangeDateStart(w[w[l].succ])])
  <2>1. PICK v \in Stop(t, l, r.date_end, FALSE) :
          \E w \in planned(v) : u \in onchange(w)
    BY <1>5 DEF RenewCreate, Then
  <2>2. PICK w \in planned(v) : u \in onchange(w)
    BY <2>1
  <2>3. Keeps(t, v) /\ Rows(v) = Rows(t)
    BY <1>1, <2>1, StopKeeps
  <2>4. r.date_end + 1 \in Int /\ r.date_end + 1 >= 2
    BY <1>1, <1>2
  <2> HIDE DEF end
  <2>5. Keeps(v, w) /\ w[l].succ \in Rows(w)
    BY <1>1, <1>3, <2>2, <2>3, <2>4, PlanKeeps DEF Keeps
  <2> DEFINE s == w[l].succ
             next == OnchangeDateStart(w[s])
             values == [next |-> next]
  <2>6. w[s] \in RowOf(Int)
    BY <2>5, Types DEF Keeps
  <2>7. next \in Int
    BY <2>6, OnchangeType
  <2>8. u \in Write(w, s, values)
    BY <2>2
  <2> HIDE DEF next, s
  <2>9. Fit(values) /\ DOMAIN values = {"next"}
    BY <2>7 DEF Fit
  <2>10. s \in Rows(w) /\ Correct(w)
    BY <2>5 DEF Keeps, s
  <2>11. Keeps(w, u)
    BY <2>8, <2>9, <2>10, WriteDated
  <2>12. QED
    BY <2>3, <2>5, <2>11, EvolvesTrans DEF Keeps
<1>6. QED
  BY <1>4, <1>5 DEF Renew

\* What invoicing writes: the line is invoiced up to the end of its period.
LEMMA UpdateCorrect ==
  ASSUME NEW t, Correct(t), NEW l \in Rows(t), ~t[l].canceled,
         NEW u \in UpdateNextDate(t, l)
  PROVE  /\ Correct(u) /\ Changes(t, u, l)
         /\ NextEnd(t[l]) # 0 /\ u[l].last = NextEnd(t[l])
         /\ SameTerm(t[l], u[l]) /\ u[l].date_start = t[l].date_start
<1> DEFINE end == NextEnd(t[l])
           next == InvoiceDate(t[l], end + 1, t[l].date_end)
           values == [next |-> next, last |-> end]
<1>1. t[l] \in RowOf(Int) /\ t[l].date_end \in Int /\ end \in Int
  BY Types, DateTypes DEF RowOf
<1>2. next \in Int
  <2>1. end + 1 \in Int
    BY <1>1
  <2>2. QED
    BY <1>1, <2>1, DateTypes
<1>4. end # 0 /\ u \in Write(t, l, values)
  BY DEF UpdateNextDate
<1> HIDE DEF end, next
<1>5. Fit(values) /\ DOMAIN values = {"next", "last"}
  BY <1>1, <1>2 DEF Fit
<1>6. /\ Wrote(u[l], t[l], values) /\ u \in Table
      /\ Changes(t, u, l) /\ Constraints(u, l, DOMAIN values)
  BY <1>4, <1>5, WriteEffect, Types DEF Changes
<1>7. CheckLastDateInvoiced(u, l) /\ CheckNextDateSupplied(u, l) /\ NextFits(u[l])
  BY <1>5, <1>6, Checked
<1>8. Sound(u[l])
  BY <1>6, <1>7 DEF Wrote, Sound, Correct, CheckLastDateInvoiced,
     CheckNextDateSupplied, NextFits
<1>9. Correct(u)
  BY <1>6, <1>8, RowChange DEF Wrote, Changes
<1>10. QED
  BY <1>4, <1>6, <1>9 DEF Wrote, SameTerm, end

-----------------------------------------------------------------------------
(* A loop over lines: FoldSet is defined by a recursive function, which    *)
(* exists for finite sets, and keeps what each step keeps.                 *)

\* Induction on the naturals, on a set instead of a predicate.
LEMMA NatSetInduction ==
  ASSUME NEW S, 0 \in S, \A n \in Nat : n \in S => n + 1 \in S
  PROVE  Nat \subseteq S
<1>1. SUFFICES ASSUME Nat \ S # {} PROVE FALSE
  OBVIOUS
<1>2. PICK x \in Nat \ S : \A y \in Nat \ S : ~(<<y, x>> \in OpToRel(<, Nat))
  BY <1>1, NatLessThanWellFounded, WFMin
<1>3. x # 0 /\ x - 1 \in Nat
  BY SMT
<1>4. <<x - 1, x>> \in OpToRel(<, Nat)
  BY <1>3, SMT DEF OpToRel
<1>5. x - 1 \in S
  BY <1>2, <1>3, <1>4
<1>6. QED
  BY <1>3, <1>5, SMT

\* The subsets of S with at most n elements.
Small(S, n) == {s \in SUBSET S : Cardinality(s) <= n}

\* The subsets of at most n members, for each n.
LEMMA SmallFacts ==
  ASSUME NEW S, IsFiniteSet(S)
  PROVE  /\ Small(S, 0) = {{}}
         /\ \A n \in Nat, s \in SUBSET S : \A x \in s :
              s \in Small(S, n + 1) => s \ {x} \in Small(S, n)
         /\ \A n \in Nat : {} \in Small(S, n) /\ Small(S, n) \subseteq Small(S, n + 1)
         /\ Cardinality(S) \in Nat /\ SUBSET S = Small(S, Cardinality(S))
<1>1. \A s \in SUBSET S : IsFiniteSet(s) /\ Cardinality(s) \in Nat
                           /\ Cardinality(s) <= Cardinality(S)
  BY FS_Subset, FS_CardinalityType
<1>2. Cardinality({}) = 0 /\ \A s \in SUBSET S : Cardinality(s) = 0 => s = {}
  BY <1>1, FS_EmptySet
<1>3. \A s \in SUBSET S : \A x \in s : Cardinality(s \ {x}) = Cardinality(s) - 1
  BY <1>1, FS_RemoveElement
<1>4. Cardinality(S) \in Nat
  BY FS_CardinalityType
<1>5. Small(S, 0) = {{}}
  <2>1. \A s \in SUBSET S : s \in Small(S, 0) <=> s = {}
    BY <1>1, <1>2 DEF Small
  <2>2. QED
    BY <2>1 DEF Small
<1>6. \A n \in Nat, s \in SUBSET S : \A x \in s :
        s \in Small(S, n + 1) => s \ {x} \in Small(S, n)
  <2>1. SUFFICES ASSUME NEW n \in Nat, NEW s \in SUBSET S, NEW x \in s,
                        Cardinality(s) <= n + 1
                 PROVE  Cardinality(s \ {x}) <= n
    BY DEF Small
  <2>2. QED
    BY <1>1, <1>3, <2>1
<1>7. \A n \in Nat : {} \in Small(S, n) /\ Small(S, n) \subseteq Small(S, n + 1)
  BY <1>1, <1>2 DEF Small
<1>8. SUBSET S = Small(S, Cardinality(S))
  BY <1>1 DEF Small
<1>9. QED
  BY <1>4, <1>5, <1>6, <1>7, <1>8

\* The element a fold takes first.
Any(s) == CHOOSE x \in s : TRUE

\* The member chosen of a set is one of its members.
LEMMA AnyIn == ASSUME NEW s, s # {} PROVE Any(s) \in s
BY DEF Any

\* What a run of the steps on a set of lines leaves, from table t.
After(g, t, step, s) ==
  IF s = {} THEN {t} ELSE UNION {step[u, Any(s)] : u \in g[s \ {Any(s)}]}

IsRun(g, S, t, step) == g = [s \in SUBSET S |-> After(g, t, step, s)]

\* The function that a fold chooses exists on the subsets of a finite set.
LEMMA FoldExists ==
  ASSUME NEW S, IsFiniteSet(S), NEW t, NEW step
  PROVE  \E g : IsRun(g, S, t, step)
<1> DEFINE Upto(n) == \E g : g = [s \in Small(S, n) |-> After(g, t, step, s)]
           N == {n \in Nat : Upto(n)}
<1>1. 0 \in N
  <2> DEFINE g == [s \in Small(S, 0) |-> {t}]
  <2>1. g = [s \in Small(S, 0) |-> After(g, t, step, s)]
    BY SmallFacts DEF After
  <2>2. QED
    BY <2>1
<1>2. ASSUME NEW n \in Nat, n \in N PROVE n + 1 \in N
  <2>1. PICK g : g = [s \in Small(S, n) |-> After(g, t, step, s)]
    BY <1>2
  <2> DEFINE h == [s \in Small(S, n + 1) |-> After(g, t, step, s)]
  <2>2. ASSUME NEW s \in Small(S, n + 1)
        PROVE  After(h, t, step, s) = After(g, t, step, s)
    <3>1. CASE s = {}
      BY <3>1 DEF After
    <3>2. CASE s # {}
      <4> DEFINE q == s \ {Any(s)}
      <4>1. Any(s) \in s /\ s \in SUBSET S
        BY <3>2, AnyIn DEF Small
      <4>2. q \in Small(S, n) /\ q \in Small(S, n + 1)
        <5>1. q \in Small(S, n)
          BY <4>1, SmallFacts
        <5>2. QED
          BY <5>1, SmallFacts
      <4>3. h[q] = After(g, t, step, q) /\ g[q] = After(g, t, step, q)
        <5> HIDE DEF q
        <5>1. QED
          BY <2>1, <4>2
      <4>4. h[q] = g[q]
        BY <4>3
      <4>5. QED
        BY <3>2, <4>4 DEF After
    <3>3. QED
      BY <3>1, <3>2
  <2>3. h = [s \in Small(S, n + 1) |-> After(h, t, step, s)]
    <3> DEFINE k == [s \in Small(S, n + 1) |-> After(h, t, step, s)]
    <3>1. \A s \in Small(S, n + 1) : h[s] = k[s]
      BY <2>2
    <3>2. QED
      BY <3>1
  <2>4. QED
    <3> HIDE DEF h
    <3>1. Upto(n + 1)
      BY <2>3
    <3>2. QED
      BY <3>1
<1>3. Cardinality(S) \in N
  <2> HIDE DEF N
  <2>1. Nat \subseteq N
    BY <1>1, <1>2, NatSetInduction
  <2>2. QED
    BY <2>1, SmallFacts
<1>4. PICK g : g = [s \in Small(S, Cardinality(S)) |-> After(g, t, step, s)]
  BY <1>3
<1>5. IsRun(g, S, t, step)
  BY <1>4, SmallFacts DEF IsRun
<1>6. QED
  BY <1>5

Inside(S, g, K) == \A s \in SUBSET S : g[s] \subseteq K[s]

Inductive(S, g, K) ==
  /\ g[{}] \subseteq K[{}]
  /\ \A s \in (SUBSET S) \ {{}} :
       g[s \ {Any(s)}] \subseteq K[s \ {Any(s)}] => g[s] \subseteq K[s]

\* What holds of no line and is kept by a line more holds of all the lines.
LEMMA FoldKeeps ==
  ASSUME NEW S, IsFiniteSet(S), NEW g, NEW K, Inductive(S, g, K)
  PROVE  Inside(S, g, K)
<1> DEFINE N == {n \in Nat : \A s \in Small(S, n) : g[s] \subseteq K[s]}
<1>1. 0 \in N
  BY SmallFacts DEF Inductive
<1>2. ASSUME NEW n \in Nat, n \in N PROVE n + 1 \in N
  <2>1. ASSUME NEW s \in Small(S, n + 1), s # {} PROVE g[s] \subseteq K[s]
    <3>1. Any(s) \in s /\ s \in SUBSET S
      BY <2>1, AnyIn DEF Small
    <3>2. s \ {Any(s)} \in Small(S, n)
      BY <3>1, SmallFacts
    <3>3. g[s \ {Any(s)}] \subseteq K[s \ {Any(s)}]
      BY <1>2, <3>2
    <3>4. QED
      BY <2>1, <3>1, <3>3 DEF Inductive
  <2>2. \A s \in Small(S, n + 1) : g[s] \subseteq K[s]
    BY <2>1 DEF Inductive
  <2>3. QED
    BY <2>2
<1>3. Cardinality(S) \in N
  <2> HIDE DEF N
  <2>1. Nat \subseteq N
    BY <1>1, <1>2, NatSetInduction
  <2>2. QED
    BY <2>1, SmallFacts
<1>4. QED
  BY <1>3, SmallFacts DEF Inside

\* Steps that keep K run, and every run of them stays in K.
StepsKeep(S, step, K) ==
  \A s \in (SUBSET S) \ {{}} : \A u \in K[s \ {Any(s)}] : step[u, Any(s)] \subseteq K[s]

\* A fold whose steps stay in K stays in K.
LEMMA FoldRuns ==
  ASSUME NEW S, IsFiniteSet(S), NEW t, NEW step, NEW K, t \in K[{}],
         StepsKeep(S, step, K)
  PROVE  \E g : IsRun(g, S, t, step) /\ Inside(S, g, K)
<1>1. PICK g : IsRun(g, S, t, step)
  BY FoldExists
<1>2. g[{}] = {t}
  BY <1>1 DEF After, IsRun
<1>3. ASSUME NEW s \in SUBSET S, s # {}, g[s \ {Any(s)}] \subseteq K[s \ {Any(s)}]
      PROVE  g[s] \subseteq K[s]
  <2>1. g[s] = UNION {step[u, Any(s)] : u \in g[s \ {Any(s)}]}
    BY <1>1, <1>3 DEF After, IsRun
  <2>2. \A u \in g[s \ {Any(s)}] : step[u, Any(s)] \subseteq K[s]
    BY <1>3 DEF StepsKeep
  <2>3. QED
    BY <2>1, <2>2
<1>4. Inductive(S, g, K)
  BY <1>2, <1>3 DEF Inductive
<1>5. QED
  BY <1>1, <1>4, FoldKeeps

\* Lines are finitely many.
LEMMA LinesFinite == ASSUME NEW S \in SUBSET Line PROVE IsFiniteSet(S)
BY FS_Subset, ContractAssumption

\* The cron that renews lines keeps the table, after any number of lines.
LEMMA RenewAllKeeps ==
  ASSUME Correct(line), NEW v \in ForEach(line, ToRenew, Renew)
  PROVE  Keeps(line, v)
<1> DEFINE S == ToRenew
           In(s) == {u \in Table : Keeps(line, u)}
           K == [s \in SUBSET S |-> In(s)]
           step == [p \in Table \X Line |-> Renew(p[1], p[2])]
           Done(g, s) == IF s = {} THEN {line}
                         ELSE UNION {Renew(u, Any(s)) : u \in g[s \ {Any(s)}]}
           iter == CHOOSE g : g = [s \in SUBSET S |-> Done(g, s)]
<1>1. S \subseteq Line /\ S \subseteq Rows(line) /\ IsFiniteSet(S)
  BY LinesFinite DEF ToRenew, Rows
<1>2. \A s \in SUBSET S : \A x \in s : \A u \in In(s \ {x}) : Renew(u, x) \subseteq In(s)
  <2>1. SUFFICES ASSUME NEW s \in SUBSET S, NEW x \in s, NEW u \in In(s \ {x}),
                        NEW w \in Renew(u, x)
                 PROVE  w \in In(s)
    OBVIOUS
  <2>2. x \in Rows(u)
    BY <1>1 DEF Keeps, Evolves
  <2>3. Keeps(u, w)
    BY <2>2, RenewKeeps DEF Keeps
  <2>4. QED
    BY <2>3, EvolvesTrans DEF Keeps, Correct
<1>3. line \in In({})
  BY EvolvesSelf DEF Keeps, Correct
<1>4. \A s \in SUBSET S : \A u \in In(s), x \in S : step[u, x] = Renew(u, x)
  BY <1>1
<1> HIDE DEF S, In, step
<1>5. PICK g : IsRun(g, S, line, step) /\ Inside(S, g, K)
  <2>1. line \in K[{}]
    BY <1>3
  <2>2. StepsKeep(S, step, K)
    <3>1. SUFFICES ASSUME NEW s \in (SUBSET S) \ {{}}, NEW u \in K[s \ {Any(s)}]
                   PROVE  step[u, Any(s)] \subseteq K[s]
      BY DEF StepsKeep
    <3>2. Any(s) \in s /\ Any(s) \in S /\ s \ {Any(s)} \in SUBSET S
      BY AnyIn
    <3>3. u \in In(s \ {Any(s)})
      BY <3>1, <3>2
    <3>4. step[u, Any(s)] = Renew(u, Any(s))
      BY <1>4, <3>2, <3>3
    <3>5. Renew(u, Any(s)) \subseteq In(s)
      BY <1>2, <3>2, <3>3
    <3>6. QED
      BY <3>4, <3>5
  <2> HIDE DEF K
  <2>3. QED
    BY <1>1, <2>1, <2>2, FoldRuns
<1>6. ASSUME NEW s \in SUBSET S PROVE g[s] = Done(g, s)
  <2>1. SUFFICES ASSUME s # {} PROVE g[s] = Done(g, s)
    BY <1>5 DEF After, IsRun
  <2>2. g[s] = UNION {step[u, Any(s)] : u \in g[s \ {Any(s)}]}
    BY <1>5, <2>1 DEF After, IsRun
  <2>3. Any(s) \in S /\ s \ {Any(s)} \in SUBSET S
    BY <2>1, AnyIn
  <2>4. g[s \ {Any(s)}] \subseteq In(s \ {Any(s)})
    BY <1>5, <2>3 DEF Inside
  <2>5. \A u \in g[s \ {Any(s)}] : step[u, Any(s)] = Renew(u, Any(s))
    BY <1>4, <2>3, <2>4
  <2>6. QED
    BY <2>1, <2>2, <2>5
<1>7. g = [s \in SUBSET S |-> Done(g, s)]
  <2> HIDE DEF Done
  <2>1. QED
    BY <1>5, <1>6 DEF IsRun
<1>8. iter = [s \in SUBSET S |-> Done(iter, s)]
  <2> HIDE DEF Done
  <2>1. QED
    BY <1>7
<1>9. \A s \in SUBSET S : iter[s] \subseteq K[s]
  <2> HIDE DEF iter
  <2>1. iter[{}] \subseteq K[{}]
    BY <1>3, <1>8
  <2>2. ASSUME NEW s \in SUBSET S, s # {}, iter[s \ {Any(s)}] \subseteq K[s \ {Any(s)}]
        PROVE  iter[s] \subseteq K[s]
    <3>1. iter[s] = UNION {Renew(u, Any(s)) : u \in iter[s \ {Any(s)}]}
      BY <1>8, <2>2
    <3>2. Any(s) \in s /\ Any(s) \in S /\ s \ {Any(s)} \in SUBSET S
      BY <2>2, AnyIn
    <3>3. iter[s \ {Any(s)}] \subseteq In(s \ {Any(s)})
      BY <2>2, <3>2
    <3>4. ASSUME NEW w \in iter[s] PROVE w \in In(s)
      <4>1. PICK u \in iter[s \ {Any(s)}] : w \in Renew(u, Any(s))
        BY <3>1
      <4>2. QED
        BY <1>2, <3>2, <3>3, <4>1
    <3>5. QED
      BY <3>4
  <2> HIDE DEF K
  <2>3. Inductive(S, iter, K)
    BY <2>1, <2>2 DEF Inductive
  <2>4. QED
    BY <1>1, <2>3, FoldKeeps DEF Inside
<1>10. ForEach(line, ToRenew, Renew) = iter[S]
  BY DEF ForEach, FoldSet, MapThenFoldSet, S, Any
<1>11. v \in In(S)
  BY <1>9, <1>10
<1>12. QED
  BY <1>11 DEF In, S

\* The lines of s are invoiced, the others are not yet.
Invoiced(u, s) ==
  /\ Correct(u) /\ Rows(u) = Rows(line)
  /\ \A m \in s : /\ NextEnd(line[m]) # 0 /\ u[m].last = NextEnd(line[m])
                  /\ SameTerm(line[m], u[m]) /\ u[m].date_start = line[m].date_start
  /\ \A m \in Line \ s : u[m] = line[m]

\* The cron that invoices lines updates each line from the row it had before.
LEMMA InvoiceAll ==
  ASSUME Correct(line), NEW date, NEW v \in ForEach(line, ToInvoice(date), UpdateNextDate)
  PROVE  Invoiced(v, ToInvoice(date))
<1> DEFINE S == ToInvoice(date)
           In(s) == {u \in Table : Invoiced(u, s)}
           K == [s \in SUBSET S |-> In(s)]
           step == [p \in Table \X Line |-> UpdateNextDate(p[1], p[2])]
           Done(g, s) == IF s = {} THEN {line}
                         ELSE UNION {UpdateNextDate(u, Any(s)) : u \in g[s \ {Any(s)}]}
           iter == CHOOSE g : g = [s \in SUBSET S |-> Done(g, s)]
<1>1. /\ S \subseteq Line /\ S \subseteq Rows(line) /\ IsFiniteSet(S)
      /\ \A x \in S : ~line[x].canceled
  BY LinesFinite DEF ToInvoice, Rows
<1>2. \A s \in SUBSET S : \A x \in s : \A u \in In(s \ {x}) :
        UpdateNextDate(u, x) \subseteq In(s)
  <2>1. SUFFICES ASSUME NEW s \in SUBSET S, NEW x \in s, NEW u \in In(s \ {x}),
                        NEW w \in UpdateNextDate(u, x)
                 PROVE  w \in In(s)
    OBVIOUS
  <2>2. /\ Correct(u) /\ Rows(u) = Rows(line) /\ x \in Rows(u) /\ x \in Line
        /\ u[x] = line[x] /\ ~u[x].canceled
    BY <1>1 DEF Invoiced
  <2>3. /\ Correct(w) /\ Changes(u, w, x)
        /\ NextEnd(u[x]) # 0 /\ w[x].last = NextEnd(u[x])
        /\ SameTerm(u[x], w[x]) /\ w[x].date_start = u[x].date_start
    BY <2>2, UpdateCorrect
  <2>4. ASSUME NEW m \in s
        PROVE  /\ NextEnd(line[m]) # 0 /\ w[m].last = NextEnd(line[m])
               /\ SameTerm(line[m], w[m]) /\ w[m].date_start = line[m].date_start
    <3>1. CASE m = x
      BY <2>2, <2>3, <3>1
    <3>2. CASE m # x
      <4>1. w[m] = u[m]
        BY <1>1, <2>3, <3>2 DEF Changes
      <4>2. QED
        BY <3>2, <4>1 DEF Invoiced
    <3>3. QED
      BY <3>1, <3>2
  <2>5. \A m \in Line \ s : w[m] = line[m]
    BY <2>3 DEF Changes, Invoiced
  <2>6. Invoiced(w, s)
    BY <2>2, <2>3, <2>4, <2>5 DEF Changes, Invoiced
  <2>7. QED
    BY <2>6 DEF Invoiced, Correct
<1>3. line \in In({})
  BY DEF Invoiced, Correct
<1>4. \A s \in SUBSET S : \A u \in In(s), x \in S : step[u, x] = UpdateNextDate(u, x)
  BY <1>1
<1> HIDE DEF S, In, step
<1>5. PICK g : IsRun(g, S, line, step) /\ Inside(S, g, K)
  <2>1. line \in K[{}]
    BY <1>3
  <2>2. StepsKeep(S, step, K)
    <3>1. SUFFICES ASSUME NEW s \in (SUBSET S) \ {{}}, NEW u \in K[s \ {Any(s)}]
                   PROVE  step[u, Any(s)] \subseteq K[s]
      BY DEF StepsKeep
    <3>2. Any(s) \in s /\ Any(s) \in S /\ s \ {Any(s)} \in SUBSET S
      BY AnyIn
    <3>3. u \in In(s \ {Any(s)})
      BY <3>1, <3>2
    <3>4. step[u, Any(s)] = UpdateNextDate(u, Any(s))
      BY <1>4, <3>2, <3>3
    <3>5. UpdateNextDate(u, Any(s)) \subseteq In(s)
      BY <1>2, <3>2, <3>3
    <3>6. QED
      BY <3>4, <3>5
  <2> HIDE DEF K
  <2>3. QED
    BY <1>1, <2>1, <2>2, FoldRuns
<1>6. ASSUME NEW s \in SUBSET S PROVE g[s] = Done(g, s)
  <2>1. SUFFICES ASSUME s # {} PROVE g[s] = Done(g, s)
    BY <1>5 DEF After, IsRun
  <2>2. g[s] = UNION {step[u, Any(s)] : u \in g[s \ {Any(s)}]}
    BY <1>5, <2>1 DEF After, IsRun
  <2>3. Any(s) \in S /\ s \ {Any(s)} \in SUBSET S
    BY <2>1, AnyIn
  <2>4. g[s \ {Any(s)}] \subseteq In(s \ {Any(s)})
    BY <1>5, <2>3 DEF Inside
  <2>5. \A u \in g[s \ {Any(s)}] : step[u, Any(s)] = UpdateNextDate(u, Any(s))
    BY <1>4, <2>3, <2>4
  <2>6. QED
    BY <2>1, <2>2, <2>5
<1>7. g = [s \in SUBSET S |-> Done(g, s)]
  <2> HIDE DEF Done
  <2>1. QED
    BY <1>5, <1>6 DEF IsRun
<1>8. iter = [s \in SUBSET S |-> Done(iter, s)]
  <2> HIDE DEF Done
  <2>1. QED
    BY <1>7
<1>9. \A s \in SUBSET S : iter[s] \subseteq K[s]
  <2> HIDE DEF iter
  <2>1. iter[{}] \subseteq K[{}]
    BY <1>3, <1>8
  <2>2. ASSUME NEW s \in SUBSET S, s # {}, iter[s \ {Any(s)}] \subseteq K[s \ {Any(s)}]
        PROVE  iter[s] \subseteq K[s]
    <3>1. iter[s] = UNION {UpdateNextDate(u, Any(s)) : u \in iter[s \ {Any(s)}]}
      BY <1>8, <2>2
    <3>2. Any(s) \in s /\ Any(s) \in S /\ s \ {Any(s)} \in SUBSET S
      BY <2>2, AnyIn
    <3>3. iter[s \ {Any(s)}] \subseteq In(s \ {Any(s)})
      BY <2>2, <3>2
    <3>4. ASSUME NEW w \in iter[s] PROVE w \in In(s)
      <4>1. PICK u \in iter[s \ {Any(s)}] : w \in UpdateNextDate(u, Any(s))
        BY <3>1
      <4>2. QED
        BY <1>2, <3>2, <3>3, <4>1
    <3>5. QED
      BY <3>4
  <2> HIDE DEF K
  <2>3. Inductive(S, iter, K)
    BY <2>1, <2>2 DEF Inductive
  <2>4. QED
    BY <1>1, <2>3, FoldKeeps DEF Inside
<1>10. ForEach(line, ToInvoice(date), UpdateNextDate) = iter[S]
  BY DEF ForEach, FoldSet, MapThenFoldSet, S, Any
<1>11. v \in In(S)
  BY <1>9, <1>10
<1>12. QED
  BY <1>11 DEF In, S

\* The lines of s end by the date, the terms of the others are not changed.
Stopped(u, s, date) ==
  /\ Keeps(line, u) /\ Rows(u) = Rows(line)
  /\ \A m \in s : /\ ~u[m].auto
                  /\ u[m].canceled \/ (u[m].date_end # 0 /\ u[m].date_end <= date)
  /\ \A m \in Rows(line) \ s : SameTerm(line[m], u[m])

Stoppable == {l \in Rows(line) : StopAllowed(line[l])}

\* A termination stops each line that may be stopped, after any number of lines.
LEMMA StopAll ==
  ASSUME Correct(line), NEW date \in Int,
         NEW v \in ForEach(line, Stoppable, LAMBDA t, l : StopOne(t, l, date, FALSE))
  PROVE  Stopped(v, Stoppable, date)
<1> DEFINE S == Stoppable
           In(s) == {u \in Table : Stopped(u, s, date)}
           K == [s \in SUBSET S |-> In(s)]
           step == [p \in Table \X Line |-> StopOne(p[1], p[2], date, FALSE)]
           Done(g, s) == IF s = {} THEN {line}
                         ELSE UNION {StopOne(u, Any(s), date, FALSE) : u \in g[s \ {Any(s)}]}
           iter == CHOOSE g : g = [s \in SUBSET S |-> Done(g, s)]
<1>1. S \subseteq Line /\ S \subseteq Rows(line) /\ IsFiniteSet(S)
  BY LinesFinite DEF Stoppable, Rows
<1>2. \A s \in SUBSET S : \A x \in s : \A u \in In(s \ {x}) :
        StopOne(u, x, date, FALSE) \subseteq In(s)
  <2>1. SUFFICES ASSUME NEW s \in SUBSET S, NEW x \in s, NEW u \in In(s \ {x}),
                        NEW w \in StopOne(u, x, date, FALSE)
                 PROVE  w \in In(s)
    OBVIOUS
  <2>2. Correct(u) /\ Evolves(line, u) /\ Rows(u) = Rows(line) /\ x \in Rows(u)
    BY <1>1 DEF Stopped, Keeps
  <2>3. FALSE \in BOOLEAN
    OBVIOUS
  <2>4. /\ Keeps(u, w) /\ Rows(w) = Rows(u) /\ ~w[x].auto
        /\ w[x].canceled \/ (w[x].date_end # 0 /\ w[x].date_end <= date)
        /\ \A m \in Rows(u) \ {x} : SameTerm(u[m], w[m])
    BY <2>2, <2>3, StopOneKeeps
  <2>5. ASSUME NEW m \in s
        PROVE  /\ ~w[m].auto
               /\ w[m].canceled \/ (w[m].date_end # 0 /\ w[m].date_end <= date)
    <3>1. CASE m = x
      BY <2>4, <3>1
    <3>2. CASE m # x
      <4>1. SameTerm(u[m], w[m])
        BY <1>1, <2>2, <2>4, <3>2
      <4>2. QED
        BY <3>2, <4>1 DEF Stopped, SameTerm
    <3>3. QED
      BY <3>1, <3>2
  <2>6. \A m \in Rows(line) \ s : SameTerm(line[m], w[m])
    BY <2>2, <2>4 DEF Stopped, SameTerm
  <2>7. Keeps(line, w)
    BY <2>2, <2>4, EvolvesTrans DEF Keeps
  <2>8. Stopped(w, s, date)
    BY <2>2, <2>4, <2>5, <2>6, <2>7 DEF Stopped
  <2>9. QED
    BY <2>8 DEF Stopped, Keeps, Correct
<1>3. line \in In({})
  BY EvolvesSelf DEF Stopped, Keeps, Correct, SameTerm
<1>4. \A s \in SUBSET S : \A u \in In(s), x \in S :
        step[u, x] = StopOne(u, x, date, FALSE)
  BY <1>1
<1> HIDE DEF S, In, step
<1>5. PICK g : IsRun(g, S, line, step) /\ Inside(S, g, K)
  <2>1. line \in K[{}]
    BY <1>3
  <2>2. StepsKeep(S, step, K)
    <3>1. SUFFICES ASSUME NEW s \in (SUBSET S) \ {{}}, NEW u \in K[s \ {Any(s)}]
                   PROVE  step[u, Any(s)] \subseteq K[s]
      BY DEF StepsKeep
    <3>2. Any(s) \in s /\ Any(s) \in S /\ s \ {Any(s)} \in SUBSET S
      BY AnyIn
    <3>3. u \in In(s \ {Any(s)})
      BY <3>1, <3>2
    <3>4. step[u, Any(s)] = StopOne(u, Any(s), date, FALSE)
      BY <1>4, <3>2, <3>3
    <3>5. StopOne(u, Any(s), date, FALSE) \subseteq In(s)
      BY <1>2, <3>2, <3>3
    <3>6. QED
      BY <3>4, <3>5
  <2> HIDE DEF K
  <2>3. QED
    BY <1>1, <2>1, <2>2, FoldRuns
<1>6. ASSUME NEW s \in SUBSET S PROVE g[s] = Done(g, s)
  <2>1. SUFFICES ASSUME s # {} PROVE g[s] = Done(g, s)
    BY <1>5 DEF After, IsRun
  <2>2. g[s] = UNION {step[u, Any(s)] : u \in g[s \ {Any(s)}]}
    BY <1>5, <2>1 DEF After, IsRun
  <2>3. Any(s) \in S /\ s \ {Any(s)} \in SUBSET S
    BY <2>1, AnyIn
  <2>4. g[s \ {Any(s)}] \subseteq In(s \ {Any(s)})
    BY <1>5, <2>3 DEF Inside
  <2>5. \A u \in g[s \ {Any(s)}] : step[u, Any(s)] = StopOne(u, Any(s), date, FALSE)
    BY <1>4, <2>3, <2>4
  <2>6. QED
    BY <2>1, <2>2, <2>5
<1>7. g = [s \in SUBSET S |-> Done(g, s)]
  <2> HIDE DEF Done
  <2>1. QED
    BY <1>5, <1>6 DEF IsRun
<1>8. iter = [s \in SUBSET S |-> Done(iter, s)]
  <2> HIDE DEF Done
  <2>1. QED
    BY <1>7
<1>9. \A s \in SUBSET S : iter[s] \subseteq K[s]
  <2> HIDE DEF iter
  <2>1. iter[{}] \subseteq K[{}]
    BY <1>3, <1>8
  <2>2. ASSUME NEW s \in SUBSET S, s # {}, iter[s \ {Any(s)}] \subseteq K[s \ {Any(s)}]
        PROVE  iter[s] \subseteq K[s]
    <3>1. iter[s] = UNION {StopOne(u, Any(s), date, FALSE) : u \in iter[s \ {Any(s)}]}
      BY <1>8, <2>2
    <3>2. Any(s) \in s /\ Any(s) \in S /\ s \ {Any(s)} \in SUBSET S
      BY <2>2, AnyIn
    <3>3. iter[s \ {Any(s)}] \subseteq In(s \ {Any(s)})
      BY <2>2, <3>2
    <3>4. ASSUME NEW w \in iter[s] PROVE w \in In(s)
      <4>1. PICK u \in iter[s \ {Any(s)}] : w \in StopOne(u, Any(s), date, FALSE)
        BY <3>1
      <4>2. QED
        BY <1>2, <3>2, <3>3, <4>1
    <3>5. QED
      BY <3>4
  <2> HIDE DEF K
  <2>3. Inductive(S, iter, K)
    BY <2>1, <2>2 DEF Inductive
  <2>4. QED
    BY <1>1, <2>3, FoldKeeps DEF Inside
<1>10. ForEach(line, Stoppable, LAMBDA t, l : StopOne(t, l, date, FALSE)) = iter[S]
  BY DEF ForEach, FoldSet, MapThenFoldSet, S, Any
<1>11. v \in In(S)
  BY <1>9, <1>10
<1>12. QED
  BY <1>11 DEF In, S

-----------------------------------------------------------------------------
(* The inductive invariant, of the states between transactions.            *)

\* The periods follow one another up to the last date invoiced.
Chained(b, last) ==
  /\ \A i \in 1..Len(b) :
       IF i = 1 THEN b[i][1] <= b[i][2]
       ELSE b[i][1] = b[i - 1][2] + 1 /\ b[i - 1][2] <= b[i][2]
  /\ last = IF b = <<>> THEN 0 ELSE b[Len(b)][2]

Periods == (Date \ {0}) \X (Date \ {0})

\* Each line has ended by the date, or was over by the day.
Ended(t, date, day) ==
  \A l \in Rows(t) :
    /\ ~t[l].auto
    /\ \/ t[l].canceled
       \/ t[l].date_end # 0 /\ (t[l].date_end <= date \/ t[l].date_end < day)

IInv ==
  /\ Correct(line) /\ InBounds(line)
  /\ today \in 2..Today /\ ops \in 0..MaxOps
  /\ terminate_date \in UserDate \cup {0} /\ stopped_on \in UserDate \cup {0}
  /\ bills \in [Line -> Seq(Periods)]
  /\ \A l \in Rows(line) : Chained(bills[l], line[l].last)
  /\ \A l \in Line \ Rows(line) : bills[l] = <<>>
  /\ terminate_date # 0 => Ended(line, stopped_on, today)

\* The period to invoice starts after the last one and does not end before it; the
\* first one is not empty when it ends on a date that the constraints accept.
LEMMA PeriodOrder ==
  ASSUME NEW r \in RowOf(Int), Sound(r), NextEnd(r) # 0, r.date_start <= NextEnd(r)
  PROVE  /\ FirstNotInvoiced(r) \in Int /\ FirstNotInvoiced(r) >= 2
         /\ NextEnd(r) \in Int
         /\ NextEnd(r) = PeriodEnd(r, FirstNotInvoiced(r), r.date_end, r.next)
         /\ FirstNotInvoiced(r) = IF r.last # 0 THEN r.last + 1 ELSE r.date_start
         /\ r.last # 0 => r.last <= NextEnd(r)
<1> DEFINE first == FirstNotInvoiced(r)
           end == NextEnd(r)
<1>1. /\ r.date_start \in Int /\ r.date_end \in Int /\ r.next \in Int /\ r.last \in Int
      /\ r.prepaid \in BOOLEAN
  BY DEF RowOf
<1>2. first = IF r.last # 0 THEN r.last + 1 ELSE r.date_start
  BY DEF FirstNotInvoiced
<1>3. first \in Int /\ first >= 2
  BY <1>1, <1>2 DEF Sound
<1>4. NextStart(r) # 0
  BY DEF NextEnd, PeriodEnd
<1>5. NextStart(r) = first /\ ~(r.date_end # 0 /\ first > r.date_end)
  BY <1>4 DEF NextStart
<1>6. end = PeriodEnd(r, first, r.date_end, r.next)
  BY <1>5 DEF NextEnd
<1>7. end \in Int
  BY DateTypes, <1>1
<1>8. r.last # 0 => r.last <= end
  <2>1. SUFFICES ASSUME r.last # 0 PROVE r.last <= end
    OBVIOUS
  <2>2. Offset(r) = IF r.prepaid THEN 0 ELSE 1
    BY DEF Offset
  <2> DEFINE regular == IF r.next = 0 THEN first + Interval - 1
                        ELSE r.next - Offset(r) + (IF r.prepaid THEN Interval - 1 ELSE 0)
  <2>3. end = IF r.date_end # 0 /\ regular > r.date_end THEN r.date_end ELSE regular
    BY <1>3, <1>5, <1>6, <1>1, ContractAssumption DEF PeriodEnd
  <2>4. regular \in Int /\ r.last <= regular
    BY <1>1, <1>2, <2>1, <2>2, ContractAssumption DEF Sound
  <2>5. QED
    BY <1>1, <1>2, <1>3, <1>5, <2>1, <2>3, <2>4
<1>9. QED
  BY <1>2, <1>3, <1>6, <1>7, <1>8

\* A correct table within the bound has the types of the fields.
LEMMA InRange ==
  ASSUME NEW t, Correct(t), InBounds(t)
  PROVE  /\ t \in [Line -> Row \cup {NoRow}]
         /\ \A l \in Rows(t) : t[l] \in Row
<1>1. ASSUME NEW l \in Rows(t) PROVE t[l] \in Row
  <2>1. /\ t[l].date_start \in Int /\ t[l].date_end \in Int
        /\ t[l].next \in Int /\ t[l].last \in Int /\ t[l] \in RowOf(Int)
    BY Types DEF RowOf
  <2>2. Sound(t[l])
    BY DEF Correct
  <2>3. /\ t[l].date_start <= MaxDate /\ t[l].date_end <= MaxDate
        /\ t[l].next <= MaxDate
    BY DEF InBounds
  <2>5. /\ t[l].date_start \in Date /\ t[l].date_end \in Date
        /\ t[l].next \in Date /\ t[l].last \in Date /\ t[l].date_start # 0
    BY <2>1, <2>2, <2>3, ContractAssumption DEF Date, Sound
  <2>6. t[l] \in RowOf(Date)
    BY <2>1, <2>5 DEF RowOf
  <2>7. QED
    BY <2>5, <2>6 DEF Row
<1>2. QED
  BY <1>1 DEF Correct, Table, Rows

\* The next period invoiced prolongs the chain.
LEMMA ChainAppend ==
  ASSUME NEW b \in Seq(Periods), NEW last \in Int, Chained(b, last),
         NEW first, NEW end, <<first, end>> \in Periods,
         last = 0 => first <= end,
         last # 0 => first = last + 1 /\ last <= end
  PROVE  /\ Append(b, <<first, end>>) \in Seq(Periods)
         /\ Chained(Append(b, <<first, end>>), end)
<1> DEFINE c == Append(b, <<first, end>>)
           n == Len(b)
<1>1. /\ c \in Seq(Periods) /\ Len(c) = n + 1 /\ c[n + 1] = <<first, end>>
      /\ \A i \in 1..n : c[i] = b[i]
      /\ n \in Nat
  OBVIOUS
<1>2. IF n = 0 THEN first <= end ELSE first = c[n][2] + 1 /\ c[n][2] <= end
  <2>1. CASE n = 0
    <3>1. b = <<>>
      BY <2>1
    <3>2. QED
      BY <2>1, <3>1 DEF Chained
  <2>2. CASE n # 0
    <3>1. b # <<>> /\ n \in 1..n
      BY <1>1, <2>2
    <3>2. last = b[n][2] /\ b[n] \in Periods
      BY <3>1 DEF Chained
    <3>3. last # 0
      BY <3>2 DEF Periods, Date
    <3>4. QED
      BY <1>1, <2>2, <3>1, <3>2, <3>3
  <2>3. QED
    BY <2>1, <2>2
<1>3. ASSUME NEW i \in 1..(n + 1)
      PROVE  IF i = 1 THEN c[i][1] <= c[i][2]
             ELSE c[i][1] = c[i - 1][2] + 1 /\ c[i - 1][2] <= c[i][2]
  <2>1. CASE i = n + 1
    <3>1. c[i] = <<first, end>> /\ i - 1 = n /\ (i = 1 <=> n = 0)
      BY <1>1, <2>1
    <3>2. QED
      BY <1>2, <3>1
  <2>2. CASE i # n + 1
    <3>1. i \in 1..n /\ (i # 1 => i - 1 \in 1..n)
      BY <1>1, <2>2
    <3>2. c[i] = b[i] /\ (i # 1 => c[i - 1] = b[i - 1])
      BY <1>1, <3>1
    <3>3. QED
      BY <3>1, <3>2 DEF Chained
  <2>3. QED
    BY <2>1, <2>2
<1>4. c # <<>> /\ c[Len(c)][2] = end
  BY <1>1
<1> HIDE DEF c, n
<1>5. QED
  BY <1>1, <1>3, <1>4 DEF Chained, c

-----------------------------------------------------------------------------
(* The transactions keep the invariant.                                    *)

\* Nothing is invoiced of a line without a last date invoiced.
LEMMA NothingInvoiced ==
  ASSUME NEW b \in Seq(Periods), Chained(b, 0)
  PROVE  b = <<>>
<1>1. SUFFICES ASSUME b # <<>> PROVE FALSE
  OBVIOUS
<1>2. Len(b) \in 1..Len(b)
  BY <1>1
<1>3. b[Len(b)] \in Periods
  BY <1>2
<1>4. b[Len(b)][2] # 0
  BY <1>3 DEF Periods
<1>5. QED
  BY <1>1, <1>4 DEF Chained

\* Every transaction but an invoicing and a deletion leaves the lines and what has
\* been invoiced in order.
LEMMA TableStep ==
  ASSUME IInv, NEW t, Keeps(line, t)
  PROVE  /\ Correct(t) /\ Rows(line) \subseteq Rows(t)
         /\ \A l \in Rows(t) : Chained(bills[l], t[l].last)
         /\ \A l \in Line \ Rows(t) : bills[l] = <<>>
<1>1. Correct(t) /\ Evolves(line, t)
  BY DEF Keeps
<1>2. ASSUME NEW l \in Rows(t) PROVE Chained(bills[l], t[l].last)
  <2>1. l \in Line
    BY DEF Rows
  <2>2. CASE l \in Rows(line)
    BY <1>1, <2>2 DEF IInv, Evolves
  <2>3. CASE l \notin Rows(line)
    <3>1. bills[l] = <<>> /\ t[l].last = 0
      BY <1>1, <2>1, <2>3 DEF IInv, Evolves
    <3>2. QED
      BY <3>1 DEF Chained
  <2>4. QED
    BY <2>2, <2>3
<1>3. Rows(line) \subseteq Rows(t)
  BY <1>1 DEF Evolves
<1>4. \A l \in Line \ Rows(t) : bills[l] = <<>>
  BY <1>3 DEF IInv
<1>5. QED
  BY <1>1, <1>2, <1>3, <1>4

\* An operation on a contract that is not terminated.
LEMMA OperationKeeps ==
  ASSUME IInv, NEW T, \A t \in T : Keeps(line, t),
         \A t \in T : terminate_date = 0, Operation(T)
  PROVE  IInv'
<1>1. /\ ops < MaxOps /\ ops' = ops + 1 /\ Commit(T)
      /\ today' = today /\ terminate_date' = terminate_date /\ bills' = bills
      /\ stopped_on' = stopped_on
  BY DEF Operation
<1>2. line' \in T /\ InBounds(line')
  BY <1>1 DEF Commit
<1>3. Keeps(line, line') /\ terminate_date = 0
  BY <1>2
<1>4. /\ Correct(line')
      /\ \A l \in Rows(line') : Chained(bills[l], line'[l].last)
      /\ \A l \in Line \ Rows(line') : bills[l] = <<>>
  BY <1>3, TableStep
<1>5. ops' \in 0..MaxOps
  BY <1>1, ContractAssumption DEF IInv
<1>6. QED
  BY <1>1, <1>2, <1>3, <1>4, <1>5 DEF IInv

\* The lines entered in the form.
LEMMA EnteredRow ==
  ASSUME NEW f \in Form
  PROVE  /\ Entered(f) \in RowOf(Int)
         /\ Entered(f).date_start >= 2 /\ Entered(f).last = 0
         /\ Entered(f).succ = NoLine /\ Entered(f).pred = NoLine
<1> DEFINE r == [date_start |-> f.date_start,
                 date_end |-> IF f.auto THEN FirstDateEnd(f.date_start) ELSE f.date_end,
                 next |-> 0, last |-> 0, auto |-> f.auto, manual |-> FALSE,
                 canceled |-> FALSE, prepaid |-> f.prepaid,
                 succ |-> NoLine, pred |-> NoLine]
           next == OnchangeDateStart(r)
<1>1. /\ f.date_start \in Int /\ f.date_start >= 2 /\ f.date_end \in Int
      /\ f.auto \in BOOLEAN /\ f.prepaid \in BOOLEAN
  BY ContractAssumption
<1>2. FirstDateEnd(f.date_start) \in Int
  BY <1>1, ContractAssumption DEF FirstDateEnd
<1>3. r \in RowOf(Int)
  BY <1>1, <1>2 DEF RowOf
<1>4. next \in Int
  BY <1>3, OnchangeType
<1>5. Entered(f) = [r EXCEPT !.next = next]
  BY DEF Entered
<1> HIDE DEF next
<1>6. [r EXCEPT !.next = next] \in RowOf(Int)
  BY <1>3, <1>4 DEF RowOf
<1>7. /\ [r EXCEPT !.next = next].date_start = f.date_start
      /\ [r EXCEPT !.next = next].last = 0
      /\ [r EXCEPT !.next = next].succ = NoLine
      /\ [r EXCEPT !.next = next].pred = NoLine
  OBVIOUS
<1>8. QED
  BY <1>1, <1>5, <1>6, <1>7

\* A line added in the form.
LEMMA NewLineKeeps ==
  ASSUME NEW t, Correct(t), NEW u \in WithNewLine(t)
  PROVE  Keeps(t, u)
<1>1. PICK l \in Line, f \in Form : u \in CreateLine(t, l, Entered(f))
  BY DEF WithNewLine
<1>2. QED
  BY <1>1, EnteredRow, CreateKeeps

\* The contract with one line.
LEMMA Establish == Init => IInv
<1> SUFFICES ASSUME Init PROVE IInv
  OBVIOUS
<1> DEFINE none == [l \in Line |-> NoRow]
<1>1. Rows(none) = {} /\ none \in Table
  BY DEF Rows, Table
<1>2. Correct(none)
  BY <1>1 DEF Correct
<1>3. line \in WithNewLine(none)
  BY DEF Init
<1>4. Correct(line) /\ Evolves(none, line)
  BY <1>2, <1>3, NewLineKeeps DEF Keeps
<1>5. \A l \in Rows(line) : line[l].last = 0
  BY <1>1, <1>4 DEF Evolves
<1>6. /\ bills = [l \in Line |-> <<>>] /\ today = 2 /\ ops = 0
      /\ terminate_date = 0 /\ stopped_on = 0
  BY DEF Init
<1>7. bills \in [Line -> Seq(Periods)]
  BY <1>6
<1>8. \A l \in Rows(line) : Chained(bills[l], line[l].last)
  BY <1>5, <1>6 DEF Chained, Rows
<1>9. \A l \in Line \ Rows(line) : bills[l] = <<>>
  BY <1>6
<1>10. InBounds(line)
  BY DEF Init
<1>11. QED
  BY <1>4, <1>6, <1>7, <1>8, <1>9, <1>10, ContractAssumption DEF IInv

\* Lines are added in the form.
LEMMA EnterStep == ASSUME IInv, EnterLine PROVE IInv'
<1>1. \A t \in WithNewLine(line) : Keeps(line, t)
  BY NewLineKeeps DEF IInv
<1>2. terminate_date = 0 /\ Operation(WithNewLine(line))
  BY DEF EnterLine
<1>3. QED
  BY <1>1, <1>2, OperationKeeps

\* The row as edited in the form: the date of next invoice computed for it is a
\* date.
LEMMA EditedRow ==
  ASSUME NEW r \in RowOf(Int), NEW start \in Int, NEW end \in Int
  PROVE  /\ OnchangeDateStart([r EXCEPT !.date_end = end]) \in Int
         /\ OnchangeDateStart([r EXCEPT !.date_start = start, !.date_end = end]) \in Int
<1>1. /\ [r EXCEPT !.date_end = end] \in RowOf(Int)
      /\ [r EXCEPT !.date_start = start, !.date_end = end] \in RowOf(Int)
  BY DEF RowOf
<1>2. QED
  BY <1>1, OnchangeType

\* The first day of a line is edited.
LEMMA EditDateStartStep ==
  ASSUME IInv, NEW l \in Rows(line), NEW start \in UserDate, EditDateStart(l, start)
  PROVE  IInv'
<1> DEFINE end == IF line[l].auto THEN FirstDateEnd(start) ELSE line[l].date_end
           next == OnchangeDateStart([line[l] EXCEPT !.date_start = start,
                                                     !.date_end = end])
           values == [date_start |-> start, date_end |-> end, next |-> next]
<1>1. Correct(line) /\ line[l] \in RowOf(Int) /\ start \in Int /\ start >= 2
  BY Types, ContractAssumption DEF IInv
<1>2. end \in Int
  BY <1>1, ContractAssumption DEF FirstDateEnd, RowOf
<1>3. terminate_date = 0 /\ Operation(Write(line, l, values))
  BY DEF EditDateStart
<1> HIDE DEF end
<1>4. next \in Int
  BY <1>1, <1>2, EditedRow
<1> HIDE DEF next
<1>5. /\ Fit(values) /\ DOMAIN values = {"date_start", "date_end", "next"}
      /\ values.date_start = start
  BY <1>1, <1>2, <1>4 DEF Fit
<1> HIDE DEF values
<1>6. \A t \in Write(line, l, values) : Keeps(line, t)
  BY <1>1, <1>5, WriteDated
<1>7. QED
  BY <1>3, <1>6, OperationKeeps

\* The last day of a line is edited.
LEMMA EditDateEndStep ==
  ASSUME IInv, NEW l \in Rows(line), NEW end \in UserDate \cup {0}, EditDateEnd(l, end)
  PROVE  IInv'
<1> DEFINE next == OnchangeDateStart([line[l] EXCEPT !.date_end = end])
           values == [date_end |-> end, next |-> next]
<1>1. Correct(line) /\ line[l] \in RowOf(Int) /\ end \in Int
  BY Types, ContractAssumption DEF IInv
<1>2. next \in Int
  BY <1>1, EditedRow
<1>3. terminate_date = 0 /\ Operation(Write(line, l, values))
  BY DEF EditDateEnd
<1> HIDE DEF next
<1>4. Fit(values) /\ DOMAIN values = {"date_end", "next"}
  BY <1>1, <1>2 DEF Fit
<1> HIDE DEF values
<1>5. \A t \in Write(line, l, values) : Keeps(line, t)
  BY <1>1, <1>4, WriteDated
<1>6. QED
  BY <1>3, <1>5, OperationKeeps

\* The date of next invoice is forced.
LEMMA EditNextDateStep ==
  ASSUME IInv, NEW l \in Rows(line), NEW next \in UserDate \cup {0},
         EditNextDate(l, next)
  PROVE  IInv'
<1> DEFINE values == [next |-> next]
<1>1. Correct(line) /\ next \in Int
  BY ContractAssumption DEF IInv
<1>2. terminate_date = 0 /\ Operation(Write(line, l, values))
  BY DEF EditNextDate
<1>3. Fit(values) /\ DOMAIN values = {"next"}
  BY <1>1 DEF Fit
<1> HIDE DEF values
<1>4. \A t \in Write(line, l, values) : Keeps(line, t)
  BY <1>1, <1>3, WriteDated
<1>5. QED
  BY <1>2, <1>4, OperationKeeps

\* A line becomes pre-paid, or post-paid.
LEMMA EditInvoicingTypeStep ==
  ASSUME IInv, NEW l \in Rows(line), EditInvoicingType(l)
  PROVE  IInv'
<1> DEFINE prepaid == ~line[l].prepaid
           next == OnchangeDateStart([line[l] EXCEPT !.prepaid = prepaid])
           values == [prepaid |-> prepaid, next |-> next]
<1>1. Correct(line) /\ line[l] \in RowOf(Int)
  BY Types DEF IInv
<1>2. [line[l] EXCEPT !.prepaid = prepaid].prepaid = prepaid
  BY <1>1, Zenon DEF RowOf
<1>3. terminate_date = 0 /\ Operation(Write(line, l, values))
  BY <1>2, Zenon DEF EditInvoicingType
<1>4. prepaid \in BOOLEAN
  OBVIOUS
<1> HIDE DEF prepaid
<1>5. next \in Int
  <2>1. [line[l] EXCEPT !.prepaid = prepaid] \in RowOf(Int)
    BY <1>1, <1>4 DEF RowOf
  <2>2. QED
    BY <2>1, OnchangeType
<1> HIDE DEF next
<1>6. Fit(values) /\ DOMAIN values = {"prepaid", "next"}
  BY <1>4, <1>5 DEF Fit
<1> HIDE DEF values
<1>7. \A t \in Write(line, l, values) : Keeps(line, t)
  BY <1>1, <1>6, WriteDated
<1>8. QED
  BY <1>3, <1>7, OperationKeeps

\* A line is set to auto-renew.
LEMMA SetAutoRenewStep ==
  ASSUME IInv, NEW l \in Rows(line), SetAutoRenew(l)
  PROVE  IInv'
<1> DEFINE end == FirstDateEnd(line[l].date_start)
           next == OnchangeDateStart([line[l] EXCEPT !.date_end = end])
           dated == [auto |-> TRUE, date_end |-> end, next |-> next]
           values == IF end = line[l].date_end THEN [auto |-> TRUE] ELSE dated
<1>1. Correct(line) /\ line[l] \in RowOf(Int) /\ end \in Int
  <2>1. Correct(line)
    BY DEF IInv
  <2>2. line[l] \in RowOf(Int)
    BY <2>1, Types
  <2>3. line[l].date_start \in Int
    BY <2>2 DEF RowOf
  <2>4. end \in Int
    BY <2>3, ContractAssumption DEF FirstDateEnd
  <2>5. QED
    BY <2>1, <2>2, <2>4
<1>2. next \in Int
  BY <1>1, EditedRow
<1>3. terminate_date = 0 /\ Operation(Write(line, l, values))
  BY DEF SetAutoRenew
<1> HIDE DEF next, end
<1>4. \A t \in Write(line, l, values) : Keeps(line, t)
  <2>1. CASE end = line[l].date_end
    <3>1. values = [auto |-> TRUE]
      BY <2>1
    <3>2. \A b \in BOOLEAN : \A t \in Write(line, l, [auto |-> b]) : Keeps(line, t)
      BY <1>1, WriteAuto
    <3> HIDE DEF values
    <3>3. QED
      BY <3>1, <3>2
  <2>2. CASE end # line[l].date_end
    <3>1. values = dated
      BY <2>2
    <3>2. Fit(dated) /\ DOMAIN dated = {"auto", "date_end", "next"}
      BY <1>1, <1>2 DEF Fit
    <3> HIDE DEF values, dated
    <3>3. QED
      BY <1>1, <3>1, <3>2, WriteDated
  <2>3. QED
    BY <2>1, <2>2
<1> HIDE DEF values
<1>5. QED
  BY <1>3, <1>4, OperationKeeps

\* A line is reset from auto-renew.
LEMMA ResetAutoRenewStep ==
  ASSUME IInv, NEW l \in Rows(line), ResetAutoRenew(l)
  PROVE  IInv'
<1>1. Correct(line)
  BY DEF IInv
<1>2. \A b \in BOOLEAN : \A t \in Write(line, l, [auto |-> b]) : Keeps(line, t)
  BY <1>1, WriteAuto
<1>3. terminate_date = 0 /\ Operation(Write(line, l, [auto |-> FALSE]))
  BY DEF ResetAutoRenew
<1> DEFINE T == Write(line, l, [auto |-> FALSE])
<1>4. \A t \in T : Keeps(line, t)
  BY <1>2
<1> HIDE DEF T
<1>5. terminate_date = 0 /\ Operation(T)
  BY <1>3 DEF T
<1>6. QED
  BY <1>4, <1>5, OperationKeeps

\* The wizards and the buttons.
LEMMA StopLineStep ==
  ASSUME IInv, NEW l \in Rows(line), NEW end \in UserDate, NEW manual \in BOOLEAN,
         StopLine(l, end, manual)
  PROVE  IInv'
<1>1. Correct(line) /\ end \in Int
  BY ContractAssumption DEF IInv
<1>2. \A t \in Stop(line, l, end, manual) : Keeps(line, t)
  BY <1>1, StopKeeps
<1>3. \A t \in Stop(line, l, end, manual) : terminate_date = 0
  BY DEF Stop, StopAllowed, Alive
<1>4. QED
  BY <1>2, <1>3, OperationKeeps DEF StopLine

\* A successor is planned.
LEMMA PlanLineStep ==
  ASSUME IInv, NEW l \in Rows(line), NEW start \in UserDate,
         NEW end \in UserDate \cup {0}, NEW auto \in BOOLEAN,
         PlanLine(l, start, end, auto)
  PROVE  IInv'
<1>1. Correct(line) /\ start \in Int /\ start >= 2 /\ end \in Int
  BY ContractAssumption DEF IInv
<1>2. \A t \in PlanSuccessor(line, l, start, end, auto) : Keeps(line, t)
  BY <1>1, PlanKeeps
<1>3. \A t \in PlanSuccessor(line, l, start, end, auto) : terminate_date = 0
  BY DEF PlanSuccessor, PlanAllowed, Alive
<1>4. QED
  BY <1>2, <1>3, OperationKeeps DEF PlanLine

\* A line is suspended.
LEMMA SuspendLineStep ==
  ASSUME IInv, NEW l \in Rows(line), NEW from \in UserDate, NEW to \in UserDate,
         NEW auto \in BOOLEAN, SuspendLine(l, from, to, auto)
  PROVE  IInv'
<1>1. Correct(line) /\ from \in Int /\ to \in Int /\ 2 <= from /\ from <= to
  BY ContractAssumption DEF IInv, SuspendLine
<1>2. \A t \in Suspend(line, l, from, to, auto) : Keeps(line, t)
  BY <1>1, SuspendKeeps
<1>3. \A t \in Suspend(line, l, from, to, auto) : terminate_date = 0
  BY DEF Suspend, SuspendAllowed, Alive
<1>4. QED
  BY <1>2, <1>3, OperationKeeps DEF SuspendLine

\* A line is canceled.
LEMMA CancelLineStep == ASSUME IInv, NEW l \in Rows(line), CancelLine(l) PROVE IInv'
<1>1. \A t \in Cancel(line, l) : Keeps(line, t)
  BY CancelKeeps DEF IInv
<1>2. \A t \in Cancel(line, l) : terminate_date = 0
  BY DEF Cancel, CancelAllowed, Alive
<1>3. QED
  BY <1>1, <1>2, OperationKeeps DEF CancelLine

\* A line is alive again.
LEMMA UncancelLineStep ==
  ASSUME IInv, NEW l \in Rows(line), NEW next \in UserDate, UncancelLine(l, next)
  PROVE  IInv'
<1>1. Correct(line) /\ next \in Int
  BY ContractAssumption DEF IInv
<1>2. \A t \in Uncancel(line, l, next) : Keeps(line, t)
  BY <1>1, UncancelKeeps
<1>3. \A t \in Uncancel(line, l, next) : terminate_date = 0
  BY DEF Uncancel, UncancelAllowed
<1>4. QED
  BY <1>2, <1>3, OperationKeeps DEF UncancelLine

\* No line of a terminated contract is renewed.
LEMMA RenewLineStep == ASSUME IInv, NEW l \in Rows(line), RenewLine(l) PROVE IInv'
<1>1. \A t \in Renew(line, l) : Keeps(line, t)
  BY RenewKeeps DEF IInv
<1>2. terminate_date = 0
  <2>1. line[l].auto
    BY DEF RenewLine
  <2>2. QED
    BY <2>1 DEF IInv, Ended
<1>3. QED
  BY <1>1, <1>2, OperationKeeps DEF RenewLine

\* Only canceled lines are deleted: nothing has been invoiced of them, and no line
\* is linked to them as to its successor.
LEMMA UnlinkLineStep == ASSUME IInv, NEW l \in Rows(line), UnlinkLine(l) PROVE IInv'
<1> DEFINE reset(m) == IF m = l THEN NoLine ELSE m
           Reset(r) == [r EXCEPT !.succ = reset(r.succ), !.pred = reset(r.pred)]
           unlinked(r) == IF r = NoRow THEN r ELSE Reset(r)
           u == [[m \in Line |-> unlinked(line[m])] EXCEPT ![l] = NoRow]
<1>1. /\ line[l].canceled /\ ops < MaxOps /\ ops' = ops + 1
      /\ line' = u /\ InBounds(line')
      /\ today' = today /\ terminate_date' = terminate_date /\ bills' = bills
      /\ stopped_on' = stopped_on
  BY DEF UnlinkLine, Operation, Commit
<1>2. Correct(line) /\ line \in Table
  BY DEF IInv, Correct
<1>3. ASSUME NEW r \in RowOf(Int)
      PROVE  /\ Reset(r) \in RowOf(Int) /\ Reset(r) # NoRow
             /\ Reset(r).succ = reset(r.succ) /\ Reset(r).pred = reset(r.pred)
             /\ Reset(r).date_start = r.date_start /\ Reset(r).date_end = r.date_end
             /\ Reset(r).next = r.next /\ Reset(r).last = r.last
             /\ Reset(r).auto = r.auto /\ Reset(r).canceled = r.canceled
             /\ Reset(r).prepaid = r.prepaid
  <2>1. r.succ \in Line \cup {NoLine} /\ r.pred \in Line \cup {NoLine}
    BY DEF RowOf
  <2>2. reset(r.succ) \in Line \cup {NoLine} /\ reset(r.pred) \in Line \cup {NoLine}
    BY <2>1
  <2> HIDE DEF reset
  <2>3. Reset(r) \in RowOf(Int)
    BY <2>2 DEF RowOf
  <2>4. Reset(r) # NoRow
    BY <2>3, RowNotMissing
  <2>5. QED
    BY <2>3, <2>4 DEF RowOf
<1> HIDE DEF Reset
<1>4. line'[l] = NoRow /\ \A m \in Line \ {l} : line'[m] = unlinked(line[m])
  BY <1>1 DEF Rows
<1>5. Rows(line') = Rows(line) \ {l}
  BY <1>2, <1>3, <1>4 DEF Rows, Table
<1>6. \A m \in Rows(line') : line[m] \in RowOf(Int) /\ line'[m] = Reset(line[m]) /\ m \in Rows(line)
  BY <1>2, <1>4, <1>5 DEF Rows, Table
<1>7. line' \in Table
  <2>1. DOMAIN line' = Line /\ line' = [m \in Line |-> line'[m]]
    BY <1>1
  <2>2. \A m \in Line : line'[m] \in RowOf(Int) \cup {NoRow}
    BY <1>3, <1>5, <1>6 DEF Rows
  <2>3. QED
    BY <2>1, <2>2 DEF Table
<1> HIDE DEF u, unlinked
<1>8. ASSUME NEW m \in Rows(line')
      PROVE  /\ Sound(line'[m]) /\ Link(line', m)
             /\ line'[m].pred # NoLine => line'[m].pred \in Rows(line') \ {m}
  <2> DEFINE r == line[m]
             q == line'[m]
  <2>1. /\ r \in RowOf(Int) /\ m # l /\ m \in Rows(line) /\ Sound(r) /\ Link(line, m)
        /\ r.pred # NoLine => r.pred \in Rows(line) \ {m}
    BY <1>2, <1>5, <1>6 DEF Correct
  <2>2. /\ q.succ = reset(r.succ) /\ q.pred = reset(r.pred)
        /\ q.date_start = r.date_start /\ q.date_end = r.date_end
        /\ q.next = r.next /\ q.last = r.last /\ q.auto = r.auto
        /\ q.canceled = r.canceled /\ q.prepaid = r.prepaid
    BY <1>3, <1>6, <2>1
  <2>3. Offset(q) = Offset(r)
    BY <2>2 DEF Offset
  <2>4. Sound(q)
    <3> HIDE DEF q, r
    <3>1. (q.succ # NoLine => r.succ # NoLine) /\ (r.succ = NoLine => q.succ = NoLine)
      BY <2>2
    <3>2. Sound(r)
      BY <2>1
    <3>3. QED
      BY <2>2, <2>3, <3>1, <3>2 DEF Sound
  <2>5. q.pred # NoLine => q.pred \in Rows(line') \ {m}
    BY <1>5, <2>1, <2>2
  <2>6. Link(line', m)
    <3>1. SUFFICES ASSUME q.succ # NoLine PROVE Link(line', m)
      BY DEF Link
    <3> DEFINE s == r.succ
    <3>2. s # l /\ s # NoLine /\ q.succ = s
      BY <2>2, <3>1
    <3>3. /\ s \in Rows(line) /\ ~line[s].canceled /\ line[s].pred = m
          /\ r.date_end # 0 /\ r.date_end < line[s].date_start
      BY <2>1, <3>2 DEF Link
    <3>4. s \in Rows(line')
      BY <1>5, <3>2, <3>3
    <3>5. /\ ~line'[s].canceled /\ line'[s].pred = m
          /\ line'[s].date_start = line[s].date_start
      BY <1>3, <1>6, <2>1, <3>3, <3>4
    <3>6. QED
      BY <2>2, <3>2, <3>3, <3>4, <3>5 DEF Link
  <2>7. QED
    BY <2>4, <2>5, <2>6
<1>9. Correct(line')
  BY <1>7, <1>8 DEF Correct
<1>10. \A m \in Rows(line') : Chained(bills[m], line'[m].last)
  BY <1>3, <1>6 DEF IInv
<1>11. \A m \in Line \ Rows(line') : bills[m] = <<>>
  <2>1. line[l].last = 0
    BY <1>1, <1>2 DEF Correct, Sound
  <2>2. Keeps(line, line)
    BY <1>2, EvolvesSelf DEF Keeps
  <2>3. Chained(bills[l], 0) /\ bills[l] \in Seq(Periods)
    BY <2>1, Types DEF IInv
  <2>4. bills[l] = <<>>
    BY <2>3, NothingInvoiced
  <2>5. QED
    BY <1>5, <2>4 DEF IInv
<1>12. terminate_date # 0 => Ended(line', stopped_on, today)
  BY <1>3, <1>6 DEF IInv, Ended
<1>13. ops' \in 0..MaxOps
  BY <1>1, ContractAssumption DEF IInv
<1>14. QED
  BY <1>1, <1>9, <1>10, <1>11, <1>12, <1>13 DEF IInv

\* A line that the termination does not stop has ended, or never starts.
LEMMA NotStopped ==
  ASSUME NEW r \in RowOf(Int), Sound(r), today \in Int, terminate_date = 0,
         ~StopAllowed(r)
  PROVE  ~r.auto /\ (r.canceled \/ (r.date_end # 0 /\ r.date_end < today))
<1>1. InMatrix(r)
  BY DEF InMatrix, Sound, RowOf
<1>2. r.canceled \/ (When(r) = "AFTER" /\ r.succ # NoLine)
  BY <1>1 DEF StopAllowed, Alive
<1>3. When(r) = "AFTER" => r.date_end # 0 /\ r.date_end < today
  BY DEF When, RowOf
<1>4. QED
  BY <1>2, <1>3 DEF Sound

\* The contract is terminated: the lines are stopped.  Terminated again, it gets
\* another date, but no line is stop-allowed any more.
LEMMA TerminateStep ==
  ASSUME IInv, NEW date \in UserDate, TerminateContract(date)
  PROVE  IInv'
<1>1. /\ ops < MaxOps /\ ops' = ops + 1
      /\ line' \in ForEach(line, Stoppable, LAMBDA t, l : StopOne(t, l, date, FALSE))
      /\ InBounds(line')
      /\ terminate_date' = date /\ today' = today /\ bills' = bills
      /\ stopped_on' = IF terminate_date = 0 THEN date ELSE stopped_on
  BY DEF TerminateContract, Commit, Stoppable
<1>2. Correct(line) /\ date \in Int /\ today \in Int
  BY ContractAssumption DEF IInv
<1>3. Stopped(line', Stoppable, date)
  BY <1>1, <1>2, StopAll
<1>4. Keeps(line, line') /\ Rows(line') = Rows(line)
  BY <1>3 DEF Stopped
<1>5. /\ Correct(line')
      /\ \A l \in Rows(line') : Chained(bills[l], line'[l].last)
      /\ \A l \in Line \ Rows(line') : bills[l] = <<>>
  BY <1>4, TableStep
<1>6. Ended(line', stopped_on', today)
  <2>1. CASE terminate_date = 0
    <3>1. SUFFICES ASSUME NEW l \in Rows(line')
                   PROVE  /\ ~line'[l].auto
                          /\ \/ line'[l].canceled
                             \/ /\ line'[l].date_end # 0
                                /\ \/ line'[l].date_end <= date
                                   \/ line'[l].date_end < today
      BY <1>1, <2>1 DEF Ended
    <3>2. CASE l \in Stoppable
      BY <1>3, <3>2 DEF Stopped
    <3>3. CASE l \notin Stoppable
      <4>1. l \in Rows(line) /\ ~StopAllowed(line[l])
        BY <1>4, <3>1, <3>3 DEF Stoppable
      <4>2. line[l] \in RowOf(Int) /\ Sound(line[l])
        BY <1>2, <4>1, Types DEF Correct
      <4>3. /\ ~line[l].auto
            /\ line[l].canceled \/ (line[l].date_end # 0 /\ line[l].date_end < today)
        BY <1>2, <2>1, <4>1, <4>2, NotStopped
      <4>4. SameTerm(line[l], line'[l])
        BY <1>3, <3>3, <4>1 DEF Stopped
      <4>5. QED
        BY <4>3, <4>4 DEF SameTerm
    <3>4. QED
      BY <3>2, <3>3
  <2>2. CASE terminate_date # 0
    <3>1. Stoppable = {}
      BY <2>2 DEF Stoppable, StopAllowed, Alive
    <3>2. \A l \in Rows(line) : SameTerm(line[l], line'[l])
      BY <1>3, <3>1 DEF Stopped
    <3>3. Ended(line, stopped_on, today) /\ stopped_on' = stopped_on
      BY <1>1, <2>2 DEF IInv
    <3>4. QED
      BY <1>4, <3>2, <3>3 DEF Ended, SameTerm
  <2>3. QED
    BY <2>1, <2>2
<1>7. ops' \in 0..MaxOps
  <2>1. ops < MaxOps /\ ops' = ops + 1
    BY <1>1
  <2>2. QED
    BY <2>1, ContractAssumption DEF IInv
<1>8. stopped_on' \in UserDate \cup {0}
  BY <1>1 DEF IInv
<1>9. QED
  BY <1>1, <1>5, <1>6, <1>7, <1>8 DEF IInv

\* The termination is canceled.
LEMMA CancelTerminationStep == ASSUME IInv, CancelTermination PROVE IInv'
<1>1. /\ ops < MaxOps /\ ops' = ops + 1 /\ terminate_date' = 0 /\ stopped_on' = 0
      /\ line' = line /\ today' = today /\ bills' = bills
  BY DEF CancelTermination
<1>2. ops' \in 0..MaxOps
  BY <1>1, ContractAssumption DEF IInv
<1>3. QED
  BY <1>1, <1>2 DEF IInv

\* The cron renews lines; none of a terminated contract.
LEMMA CronRenewStep == ASSUME IInv, CronRenew PROVE IInv'
<1>1. /\ line' \in ForEach(line, ToRenew, Renew) /\ InBounds(line') /\ ToRenew # {}
      /\ today' = today /\ terminate_date' = terminate_date /\ bills' = bills
      /\ stopped_on' = stopped_on
      /\ ops' = ops
  BY DEF CronRenew, Commit
<1>2. terminate_date = 0
  BY <1>1 DEF ToRenew
<1>3. Keeps(line, line')
  BY <1>1, RenewAllKeeps DEF IInv
<1>4. /\ Correct(line')
      /\ \A l \in Rows(line') : Chained(bills[l], line'[l].last)
      /\ \A l \in Line \ Rows(line') : bills[l] = <<>>
  BY <1>3, TableStep
<1>5. QED
  BY <1>1, <1>2, <1>4 DEF IInv

\* The period of the invoice line, read before the line is updated, ends on the
\* last date invoiced that the update computes afterwards.
LEMMA InvoiceStep ==
  ASSUME IInv, NEW date, Invoice(date), ops' \in 0..MaxOps
  PROVE  IInv'
<1> DEFINE S == ToInvoice(date)
<1>1. /\ line' \in ForEach(line, S, UpdateNextDate) /\ InBounds(line')
      /\ bills' = Billed(line, S) /\ today' = today
      /\ terminate_date' = terminate_date /\ stopped_on' = stopped_on
  BY DEF Invoice, Commit
<1>2. Correct(line)
  BY DEF IInv
<1>3. Invoiced(line', S)
  BY <1>1, <1>2, InvoiceAll
<1>4. Correct(line') /\ Rows(line') = Rows(line)
  BY <1>3 DEF Invoiced
<1>5. S \subseteq Rows(line) /\ \A l \in S : line[l].next # 0
  BY DEF ToInvoice
<1>6. ASSUME NEW l \in S
      PROVE  /\ bills'[l] \in Seq(Periods)
             /\ Chained(bills'[l], line'[l].last)
  <2> DEFINE r == line[l]
             first == FirstNotInvoiced(r)
             end == NextEnd(r)
  <2>1. /\ NextEnd(r) # 0 /\ line'[l].last = NextEnd(r)
        /\ line'[l].date_start = r.date_start
    BY <1>3 DEF Invoiced
  <2>2. /\ l \in Rows(line) /\ l \in Rows(line') /\ l \in Line
        /\ r \in RowOf(Int) /\ Sound(r)
        /\ line'[l] \in Row /\ Sound(line'[l])
    BY <1>1, <1>2, <1>4, <1>5, Types, InRange DEF Correct
  <2>3. r.date_start <= NextEnd(r)
    BY <2>1, <2>2 DEF Sound
  <2>4. /\ first \in Int /\ first >= 2 /\ end \in Int
        /\ end = PeriodEnd(r, first, r.date_end, r.next)
        /\ first = IF r.last # 0 THEN r.last + 1 ELSE r.date_start
        /\ r.last # 0 => r.last <= end
    BY <2>1, <2>2, <2>3, PeriodOrder
  <2>5. end \in Date /\ end # 0
    BY <2>1, <2>2 DEF Row, RowOf
  <2>6. <<first, end>> \in Periods
    <3>1. r \in Row /\ r.next # 0
      BY <1>2, <1>5, <2>2, InRange DEF IInv
    <3>2. first <= MaxDate
      BY <2>2, <2>4, <3>1, ContractAssumption DEF Row, RowOf, Date, Sound
    <3>3. QED
      BY <2>4, <2>5, <3>2, ContractAssumption DEF Periods, Date
  <2>7. bills'[l] = Append(bills[l], <<first, end>>)
    <3>1. Billed(line, S)[l] = Append(bills[l], <<first, PeriodEnd(r, first, r.date_end, r.next)>>)
      BY <2>2 DEF Billed
    <3>2. QED
      BY <1>1, <2>4, <3>1
  <2>8. /\ bills[l] \in Seq(Periods) /\ Chained(bills[l], r.last)
        /\ r.date_start \in Int /\ r.last \in Int
    BY <2>2 DEF IInv, RowOf
  <2>9. r.last = 0 => first <= end
    BY <2>3, <2>4
  <2> HIDE DEF first, end, r
  <2>10. QED
    BY <2>1, <2>4, <2>6, <2>7, <2>8, <2>9, ChainAppend DEF end
<1>7. ASSUME NEW l \in Line \ S
      PROVE  bills'[l] = bills[l] /\ line'[l] = line[l]
  <2>1. bills'[l] = bills[l]
    BY <1>1 DEF Billed
  <2>2. line'[l] = line[l]
    BY <1>3 DEF Invoiced
  <2>3. QED
    BY <2>1, <2>2
<1> HIDE DEF S
<1>8. bills' \in [Line -> Seq(Periods)]
  <2>1. bills' = [l \in Line |-> bills'[l]]
    BY <1>1 DEF Billed
  <2>2. \A l \in Line : bills'[l] \in Seq(Periods)
    BY <1>6, <1>7 DEF IInv
  <2>3. QED
    BY <2>1, <2>2
<1>9. \A l \in Rows(line') : Chained(bills'[l], line'[l].last)
  <2>1. \A l \in Rows(line') : l \in Line /\ l \in Rows(line)
    BY <1>4 DEF Rows
  <2>2. QED
    BY <1>6, <1>7, <2>1 DEF IInv
<1>10. \A l \in Line \ Rows(line') : bills'[l] = <<>>
  BY <1>4, <1>5, <1>7 DEF IInv
<1>11. \A l \in Rows(line') : SameTerm(line[l], line'[l])
  <2>1. \A l \in Rows(line') : l \in Line
    BY DEF Rows
  <2>2. QED
    BY <1>3, <1>7, <2>1 DEF Invoiced, SameTerm
<1>12. terminate_date # 0 => Ended(line', stopped_on, today)
  BY <1>4, <1>11 DEF IInv, SameTerm, Ended
<1>13. QED
  BY <1>1, <1>4, <1>8, <1>9, <1>10, <1>12 DEF IInv

\* The cron and the button that invoice.
LEMMA InvoicingStep == ASSUME IInv, CronInvoice \/ InvoiceNow PROVE IInv'
<1>1. CASE CronInvoice
  <2>1. Invoice(today) /\ ops' \in 0..MaxOps
    BY <1>1 DEF CronInvoice, IInv
  <2>2. QED
    BY <2>1, InvoiceStep
<1>2. CASE InvoiceNow
  <2>1. ops < MaxOps /\ ops' = ops + 1
    BY <1>2 DEF InvoiceNow
  <2>2. ops' \in 0..MaxOps
    BY <2>1, ContractAssumption DEF IInv
  <2>3. PICK date : Invoice(date)
    BY <1>2 DEF InvoiceNow
  <2>4. QED
    BY <2>2, <2>3, InvoiceStep
<1>3. QED
  BY <1>1, <1>2

\* A day passes: a line that was over is still over.
LEMMA TickStep == ASSUME IInv, Tick PROVE IInv'
<1>1. /\ today < Today /\ today' = today + 1 /\ line' = line
      /\ terminate_date' = terminate_date /\ bills' = bills /\ ops' = ops
      /\ stopped_on' = stopped_on
  BY DEF Tick
<1>2. today \in Int /\ today' \in 2..Today
  BY <1>1, ContractAssumption DEF IInv
<1>3. \A l \in Rows(line) : line[l].date_end \in Int
  BY Types DEF IInv, RowOf
<1>4. \A l \in Rows(line) : line[l].date_end < today => line[l].date_end < today'
  BY <1>1, <1>2, <1>3
<1>5. terminate_date # 0 => Ended(line, stopped_on, today')
  BY <1>4 DEF IInv, Ended
<1>6. QED
  BY <1>1, <1>2, <1>5 DEF IInv

\* Every step keeps the inductive invariant.
LEMMA Preserve == IInv /\ [Next]_vars => IInv'
<1> SUFFICES ASSUME IInv, [Next]_vars PROVE IInv'
  OBVIOUS
<1>1. CASE EnterLine
  BY <1>1, EnterStep
<1>2. ASSUME NEW l \in Rows(line), LineOperation(l) PROVE IInv'
  <2>1. CASE \E start \in UserDate : EditDateStart(l, start)
    BY <2>1, EditDateStartStep
  <2>2. CASE \E end \in UserDate \cup {0} : EditDateEnd(l, end)
    BY <2>2, EditDateEndStep
  <2>3. CASE \E next \in UserDate \cup {0} : EditNextDate(l, next)
    BY <2>3, EditNextDateStep
  <2>4. CASE EditInvoicingType(l)
    BY <2>4, EditInvoicingTypeStep
  <2>5. CASE SetAutoRenew(l)
    BY <2>5, SetAutoRenewStep
  <2>6. CASE ResetAutoRenew(l)
    BY <2>6, ResetAutoRenewStep
  <2>7. CASE \E end \in UserDate, manual \in BOOLEAN : StopLine(l, end, manual)
    BY <2>7, StopLineStep
  <2>8. CASE \E start \in UserDate, end \in UserDate \cup {0}, auto \in BOOLEAN :
               PlanLine(l, start, end, auto)
    BY <2>8, PlanLineStep
  <2>9. CASE \E from, to \in UserDate, auto \in BOOLEAN : SuspendLine(l, from, to, auto)
    BY <2>9, SuspendLineStep
  <2>10. CASE CancelLine(l)
    BY <2>10, CancelLineStep
  <2>11. CASE \E next \in UserDate : UncancelLine(l, next)
    BY <2>11, UncancelLineStep
  <2>12. CASE RenewLine(l)
    BY <2>12, RenewLineStep
  <2>13. CASE UnlinkLine(l)
    BY <2>13, UnlinkLineStep
  <2>14. QED
    BY <1>2, <2>1, <2>2, <2>3, <2>4, <2>5, <2>6, <2>7, <2>8, <2>9, <2>10,
       <2>11, <2>12, <2>13 DEF LineOperation
<1>3. CASE \E date \in UserDate : TerminateContract(date)
  BY <1>3, TerminateStep
<1>4. CASE CancelTermination
  BY <1>4, CancelTerminationStep
<1>5. CASE CronRenew
  BY <1>5, CronRenewStep
<1>6. CASE CronInvoice \/ InvoiceNow
  BY <1>6, InvoicingStep
<1>7. CASE Tick
  BY <1>7, TickStep
<1>8. CASE UNCHANGED vars
  BY <1>8 DEF vars, IInv
<1>9. QED
  BY <1>1, <1>2, <1>3, <1>4, <1>5, <1>6, <1>7, <1>8 DEF Next

\* The inductive invariant holds in every state.
THEOREM Invariance == Spec => []IInv
<1>1. Init => IInv
  BY Establish
<1>2. IInv /\ [Next]_vars => IInv'
  BY Preserve
<1>3. QED
  BY <1>1, <1>2, PTL DEF Spec

-----------------------------------------------------------------------------
(* The properties that the runs check.                                     *)

\* Every state has the types of the variables.
THEOREM Typing == Spec => []TypeOK
<1>1. IInv => TypeOK
  <2> SUFFICES ASSUME IInv PROVE TypeOK
    OBVIOUS
  <2>1. line \in [Line -> Row \cup {NoRow}]
    BY InRange DEF IInv
  <2>2. terminate_date \in Date /\ stopped_on \in Date
    BY ContractAssumption DEF IInv, Date
  <2>3. QED
    BY <2>1, <2>2 DEF IInv, TypeOK, Periods
<1>2. QED
  BY <1>1, Invariance, PTL

\* A line and its successor name each other, and the successor is alive and starts
\* after the line ends, after any operations.
THEOREM LinkedChains == Spec => []ChainsLinked
<1>1. IInv => ChainsLinked
  BY DEF IInv, Correct, Link, ChainsLinked, Live, Rows
<1>2. QED
  BY <1>1, Invariance, PTL

\* The criteria of the buttons are known of every line.
THEOREM KnownCriteria == Spec => []CriteriaKnown
<1>1. ASSUME NEW r \in RowOf(Int), Sound(r) PROVE InMatrix(r)
  BY <1>1 DEF InMatrix, Sound, RowOf
<1>2. IInv => CriteriaKnown
  BY <1>1, Types DEF IInv, Correct, CriteriaKnown
<1>3. QED
  BY <1>2, Invariance, PTL

\* The periods invoiced of a line follow one another, none goes back behind the one
\* before, and the last one ends on last_date_invoiced and within the line, for any
\* dates of invoice forced and any dates of the line edited in between.
THEOREM OrderedBills == Spec => []BilledInOrder
<1>1. ASSUME IInv, NEW l \in Rows(line)
      PROVE  /\ Chained(bills[l], line[l].last)
             /\ line[l].date_end # 0 => line[l].last <= line[l].date_end
  <2>1. Chained(bills[l], line[l].last)
    BY <1>1 DEF IInv
  <2>2. Sound(line[l]) /\ line[l] \in RowOf(Int)
    BY <1>1, Types DEF IInv, Correct
  <2>3. line[l].date_end # 0 => line[l].last <= line[l].date_end
    BY <2>2 DEF Sound, RowOf
  <2>4. QED
    BY <2>1, <2>3
<1>2. IInv => BilledInOrder
  BY <1>1 DEF Chained, BilledInOrder
<1>3. QED
  BY <1>2, Invariance, PTL

\* No live line of a terminated contract goes on after the date at which it was
\* terminated first, though it may be terminated again on another date.
THEOREM HeldTermination == Spec => []TerminationHolds
<1>1. ASSUME IInv, terminate_date # 0, NEW l \in Rows(line), GoesOnAfter(l, stopped_on)
      PROVE  line[l].date_end # 0 /\ line[l].date_end < today
  <2>1. Ended(line, stopped_on, today) /\ line[l].date_end \in Int /\ stopped_on \in Int
    BY <1>1, Types, ContractAssumption DEF IInv, RowOf
  <2>2. QED
    BY <1>1, <2>1 DEF Ended, GoesOnAfter, Live
<1>2. IInv => TerminationHolds
  BY <1>1 DEF TerminationHolds
<1>3. QED
  BY <1>2, Invariance, PTL

\* The domains of the search select the state shown.
LEMMA DomainsAgree ==
  ASSUME NEW r \in RowOf(Int), Sound(r), today \in Int, NEW state \in States
  PROVE  /\ ComputeState(r) \in States
         /\ StateDomain(r, state) => state = ComputeState(r)
         /\ state = ComputeState(r) /\ state # "in-progress" => StateDomain(r, state)
<1> DEFINE late == NoticeDate(r) # 0 /\ NoticeDate(r) < today
<1>1. /\ r.date_start \in Int /\ r.date_end \in Int
      /\ r.canceled \in BOOLEAN /\ r.auto \in BOOLEAN /\ r.manual \in BOOLEAN
  BY DEF RowOf
<1>2. r.date_end # 0 => r.date_start <= r.date_end
  BY DEF Sound
<1>3. NoticeDate(r) \in Int
  BY <1>1, ContractAssumption DEF NoticeDate
<1>4. /\ When(r) \in {"BEFORE", "IN", "AFTER"}
      /\ When(r) = "BEFORE" <=> today < r.date_start
      /\ When(r) = "AFTER" <=> r.date_end # 0 /\ today > r.date_end
      /\ When(r) = "IN" <=> r.date_start <= today /\ (r.date_end = 0 \/ today <= r.date_end)
  BY <1>1, <1>2 DEF When
<1>5. NoticeDate(r) # 0 => r.date_end # 0
  BY DEF NoticeDate
<1>6. ComputeState(r) =
        IF r.canceled THEN "canceled"
        ELSE IF When(r) = "BEFORE" THEN "upcoming"
        ELSE IF When(r) = "IN"
             THEN IF late /\ ~r.auto /\ ~r.manual THEN "upcoming-close" ELSE "in-progress"
        ELSE IF r.auto \/ (r.manual /\ r.succ = NoLine) THEN "to-renew" ELSE "closed"
  BY <1>4 DEF ComputeState
<1>7. CASE state = "canceled"
  <2>1. StateDomain(r, state) <=> r.canceled
    BY <1>7 DEF StateDomain
  <2>2. QED
    BY <1>6, <1>7, <2>1 DEF States
<1>8. CASE state = "upcoming"
  <2>1. StateDomain(r, state) <=> ~r.canceled /\ r.date_start > today
    BY <1>8 DEF StateDomain
  <2>2. QED
    BY <1>1, <1>4, <1>6, <1>8, <2>1 DEF States
<1>9. CASE state = "in-progress"
  <2>1. StateDomain(r, state) <=>
          /\ ~r.canceled /\ r.date_start <= today
          /\ r.date_end = 0 \/ r.date_end >= today
          /\ r.auto \/ NoticeDate(r) > today
    BY <1>9 DEF StateDomain
  <2>2. QED
    BY <1>1, <1>3, <1>4, <1>6, <1>9, <2>1 DEF States
<1>10. CASE state = "upcoming-close"
  <2>1. StateDomain(r, state) <=>
          /\ ~r.canceled /\ r.date_start <= today /\ r.date_end >= today
          /\ ~r.auto /\ ~r.manual /\ late
    BY <1>10 DEF StateDomain
  <2>2. QED
    BY <1>1, <1>3, <1>4, <1>5, <1>6, <1>10, <2>1 DEF States
<1>11. CASE state = "to-renew"
  <2>1. StateDomain(r, state) <=>
          /\ ~r.canceled /\ r.date_end # 0 /\ r.date_end < today
          /\ r.auto \/ (r.manual /\ r.succ = NoLine)
    BY <1>11 DEF StateDomain
  <2>2. QED
    BY <1>1, <1>2, <1>4, <1>6, <1>11, <2>1 DEF States
<1>12. CASE state = "closed"
  <2>1. StateDomain(r, state) <=>
          /\ ~r.canceled /\ r.date_end # 0 /\ r.date_end < today
          /\ ~r.auto
          /\ ~r.manual \/ r.succ # NoLine
    BY <1>12 DEF StateDomain
  <2>2. QED
    BY <1>1, <1>2, <1>4, <1>6, <1>12, <2>1 DEF States
<1>13. QED
  BY <1>7, <1>8, <1>9, <1>10, <1>11, <1>12 DEF States

\* The search by state finds the lines shown in the state, of every line that the
\* operations may leave.
THEOREM SearchAgrees == Spec => []SearchedAsShown
<1>1. ASSUME IInv, NEW l \in Rows(line)
      PROVE  LET shown == ComputeState(line[l])
                 found == {state \in States : StateDomain(line[l], state)}
             IN  found = {shown} \/ (shown = "in-progress" /\ found = {})
  <2>1. line[l] \in RowOf(Int) /\ Sound(line[l]) /\ today \in Int
    BY <1>1, Types DEF IInv, Correct
  <2> DEFINE shown == ComputeState(line[l])
             found == {state \in States : StateDomain(line[l], state)}
  <2>2. shown \in States
    <3>1. "closed" \in States
      BY DEF States
    <3>2. QED
      BY <2>1, <3>1, DomainsAgree
  <2>3. found \subseteq {shown}
    BY <2>1, DomainsAgree
  <2>4. shown # "in-progress" => shown \in found
    BY <2>1, <2>2, DomainsAgree
  <2> HIDE DEF shown, found
  <2>5. found = {shown} \/ (shown = "in-progress" /\ found = {})
    BY <2>3, <2>4
  <2>6. QED
    BY <2>5 DEF shown, found
<1>2. IInv => SearchedAsShown
  BY <1>1 DEF SearchedAsShown
<1>3. QED
  BY <1>2, Invariance, PTL

\* How many days there are from a day to a day.
LEMMA IntervalSize ==
  ASSUME NEW a \in Int, NEW b \in Int, a <= b + 1
  PROVE  IsFiniteSet(a..b) /\ Cardinality(a..b) = b - a + 1
BY FS_Interval

\* A delay keeps the number of days.
LEMMA ShiftedDays ==
  ASSUME NEW start \in Int, NEW end \in Int, start <= end, NEW days \in Int
  PROVE  Cardinality((start + days)..(end + days)) = Cardinality(start..end)
<1>1. Cardinality(start..end) = end - start + 1
  BY IntervalSize
<1> DEFINE a == start + days
           b == end + days
<1>2. a \in Int /\ b \in Int /\ a <= b + 1 /\ b - a + 1 = end - start + 1
  OBVIOUS
<1> HIDE DEF a, b
<1>3. Cardinality(a..b) = b - a + 1
  BY <1>2, IntervalSize
<1>4. QED
  BY <1>1, <1>2, <1>3 DEF a, b

\* The days of a line that is suspended between its first and its last day.
Split(start, end, from, to) ==
  (start..(from - 1)) \cup ((to + 1)..(end + (to - from) + 1))

\* The suspension of a line keeps the number of days.
LEMMA SplitDays ==
  ASSUME NEW start \in Int, NEW end \in Int, NEW from \in Int, NEW to \in Int,
         start < from, from <= end, from <= to
  PROVE  Cardinality(Split(start, end, from, to)) = Cardinality(start..end)
<1> DEFINE eve == from - 1
           next == to + 1
           new == end + (to - from) + 1
           first == start..eve
           second == next..new
<1>1. /\ eve \in Int /\ next \in Int /\ new \in Int
      /\ start <= end + 1 /\ start <= eve + 1 /\ next <= new + 1
      /\ (eve - start + 1) + (new - next + 1) = end - start + 1
      /\ eve < next
  OBVIOUS
<1> HIDE DEF eve, next, new
<1>2. Cardinality(start..end) = end - start + 1
  BY <1>1, IntervalSize
<1>3. IsFiniteSet(first) /\ Cardinality(first) = eve - start + 1
  BY <1>1, IntervalSize
<1>4. IsFiniteSet(second) /\ Cardinality(second) = new - next + 1
  BY <1>1, IntervalSize
<1>5. first \cap second = {}
  BY <1>1
<1> HIDE DEF first, second
<1>6. Cardinality(first \cup second)
        = Cardinality(first) + Cardinality(second) - Cardinality(first \cap second)
  BY <1>3, <1>4, FS_Union
<1>7. Cardinality(first \cap second) = 0
  BY <1>5, FS_EmptySet
<1>8. Cardinality(first \cup second) = end - start + 1
  BY <1>1, <1>3, <1>4, <1>6, <1>7
<1>9. QED
  BY <1>2, <1>8 DEF Split, first, second, eve, next, new

\* Whatever the suspension does, it only moves days.
LEMMA SuspendMoves ==
  ASSUME NEW t, Correct(t), NEW l \in Rows(t), NEW from \in Int, NEW to \in Int,
         2 <= from, from <= to, from <= MaxDate, NEW auto \in BOOLEAN,
         NEW u \in Suspend(t, l, from, to, auto)
  PROVE  Moves(t, u, l, from, to)
<1> DEFINE r == t[l]
           start == r.date_start
           end == r.date_end
<1>1. /\ r \in RowOf(Int) /\ start \in Int /\ end \in Int /\ MaxDate \in Int
      /\ start >= 2
      /\ end # 0 => start <= end
  BY Types, ContractAssumption DEF RowOf, Correct, Sound
<1>2. SuspendAllowed(r) /\ r.succ = NoLine
  BY DEF Suspend, SuspendAllowed
<1>3. CASE start >= from
  <2> DEFINE days == SuspensionDelay(r, from, to)
  <2>1. days \in Nat /\ start + days > to
    BY <1>1, <1>3 DEF SuspensionDelay
  <2>2. u \in Delay(t, l, days)
    BY <1>2, <1>3 DEF Suspend
  <2> HIDE DEF days
  <2>3. /\ u[l].succ = NoLine /\ u[l].date_start = start + days
        /\ u[l].date_end = IF end = 0 THEN 0 ELSE end + days
    BY <1>2, <2>1, <2>2, DelayKeeps
  <2> DEFINE before == start..(IF end = 0 THEN MaxDate ELSE end)
             after == (start + days)..(IF u[l].date_end = 0 THEN MaxDate ELSE u[l].date_end)
  <2>4. after \cap (from..to) = {}
    BY <1>1, <2>1
  <2>5. {d \in before : d < from} = {} /\ {d \in after : d < from} = {}
    BY <1>1, <1>3, <2>1
  <2>6. end # 0 => Cardinality(after) = Cardinality(before)
    <3>1. SUFFICES ASSUME end # 0 PROVE Cardinality(after) = Cardinality(before)
      OBVIOUS
    <3>2. end + days # 0
      BY <1>1, <2>1, <3>1
    <3>3. after = (start + days)..(end + days) /\ before = start..end
      BY <2>3, <3>1, <3>2
    <3>4. QED
      BY <1>1, <2>1, <3>1, <3>3, ShiftedDays
  <2>7. Days(t[l]) = before /\ Days(u[l]) = after
    BY <2>3 DEF Days
  <2> HIDE DEF before, after
  <2>8. QED
    BY <2>3, <2>4, <2>5, <2>6, <2>7 DEF Moves
<1>4. CASE start < from /\ end # 0 /\ end < from
  <2>1. u \in Stop(t, l, from, FALSE)
    <3>1. ~(r.date_start >= from) /\ r.date_end # 0 /\ r.date_end < from
      BY <1>1, <1>4
    <3>2. QED
      BY <3>1 DEF Suspend
  <2>2. u \in StopOne(t, l, from, FALSE)
    BY <2>1 DEF Stop
  <2>3. u \in Write(t, l, [auto |-> FALSE, manual |-> FALSE])
    BY <1>1, <1>4, <2>2 DEF StopOne
  <2>4. \A b \in BOOLEAN : u \in Write(t, l, [auto |-> FALSE, manual |-> b]) =>
          u[l].date_end = end /\ u[l].date_start = start /\ u[l].succ = NoLine
    BY <1>2, WriteNoRenewal
  <2>5. u[l].date_end = end /\ u[l].date_start = start /\ u[l].succ = NoLine
    BY <2>3, <2>4
  <2>6. Days(t[l]) = start..end /\ Days(u[l]) = start..end
    BY <1>4, <2>5 DEF Days
  <2>7. (start..end) \cap (from..to) = {}
    BY <1>1, <1>4
  <2>8. QED
    BY <2>5, <2>6, <2>7 DEF Moves
<1>5. CASE start < from /\ (end = 0 \/ end >= from)
  <2> DEFINE new == RestartEnd(r, from, to)
  <2>1. PICK v \in Stop(t, l, from - 1, TRUE) : u \in PlanSuccessor(v, l, to + 1, new, auto)
    <3>1. ~(r.date_start >= from) /\ ~(r.date_end # 0 /\ r.date_end < from)
      BY <1>1, <1>5
    <3>2. QED
      BY <3>1 DEF Suspend, Then
  <2>2. v \in StopOne(t, l, from - 1, TRUE)
    BY <2>1 DEF Stop
  <2>3. v \in Write(t, l, [date_end |-> from - 1, auto |-> FALSE, manual |-> TRUE,
                           next |-> InvoiceDate(r, NextStart(r), from - 1)])
    BY <1>1, <1>5, <2>2 DEF StopOne
  <2>4. from - 1 \in Int /\ to + 1 \in Int /\ to + 1 >= 2 /\ new \in Int
    BY <1>1, RestartEndType
  <2>5. \A b \in BOOLEAN, day \in Int :
          v \in Write(t, l, [date_end |-> day, auto |-> FALSE, manual |-> b,
                             next |-> InvoiceDate(t[l], NextStart(t[l]), day)])
            => /\ Keeps(t, v) /\ Changes(t, v, l)
               /\ v[l].date_end = day /\ v[l].date_start = start
    BY WriteStop
  <2>6. /\ Keeps(t, v) /\ Changes(t, v, l)
        /\ v[l].date_end = from - 1 /\ v[l].date_start = start
    BY <2>3, <2>4, <2>5
  <2>7. Correct(v) /\ l \in Rows(v)
    BY <2>6 DEF Keeps, Changes
  <2> HIDE DEF new
  <2> DEFINE s == u[l].succ
  <2>8. /\ u[l].date_start = start /\ u[l].date_end = from - 1
        /\ s \in Line /\ u[s].date_start = to + 1 /\ u[s].date_end = new
    <3> DEFINE next == to + 1
    <3>1. next \in Int /\ next >= 2 /\ u \in PlanSuccessor(v, l, next, new, auto)
      BY <2>1, <2>4
    <3> HIDE DEF next
    <3>2. /\ u[l].date_start = v[l].date_start /\ u[l].date_end = v[l].date_end
          /\ s \in Line \ Rows(v) /\ u[s].date_start = next /\ u[s].date_end = new
      BY <2>4, <2>7, <3>1, PlanKeeps
    <3>3. QED
      BY <2>6, <3>2 DEF next
  <2>9. s # NoLine /\ from - 1 # 0
    BY <2>8, ContractAssumption
  <2> DEFINE first == start..(from - 1)
             second == (to + 1)..(IF new = 0 THEN MaxDate ELSE new)
             before == start..(IF end = 0 THEN MaxDate ELSE end)
  <2>10. Days(t[l]) = before /\ Days(u[l]) = first /\ Days(u[s]) = second
    BY <2>8, <2>9 DEF Days
  <2>11. (first \cup second) \cap (from..to) = {} /\ first \cap second = {}
    BY <1>1, <2>4
  <2>12. {d \in before : d < from} = {d \in first \cup second : d < from}
    BY <1>1, <1>5, <2>4
  <2>13. end # 0 => Cardinality(first \cup second) = Cardinality(before)
    <3>1. SUFFICES ASSUME end # 0 PROVE Cardinality(first \cup second) = Cardinality(before)
      OBVIOUS
    <3>2. new = end + (to - from) + 1 /\ new # 0
      BY <1>1, <1>5, <3>1 DEF RestartEnd, new
    <3>3. before = start..end /\ second = (to + 1)..new
      BY <3>1, <3>2
    <3>4. from <= end /\ start < from
      BY <1>1, <1>5, <3>1
    <3>5. Cardinality(Split(start, end, from, to)) = Cardinality(start..end)
      BY <1>1, <3>4, SplitDays
    <3>6. QED
      BY <3>2, <3>3, <3>5 DEF Split
  <2> HIDE DEF first, second, before
  <2>14. QED
    BY <2>9, <2>10, <2>11, <2>12, <2>13 DEF Moves
<1>6. QED
  BY <1>1, <1>3, <1>4, <1>5

\* A suspension takes no day of service away, it only moves days, whatever was done to
\* the line before.
THEOREM MovedDays == Spec => []SuspensionMovesDays
<1>1. ASSUME IInv, NEW l \in Rows(line), NEW from \in UserDate, NEW to \in UserDate,
             NEW auto \in BOOLEAN, from <= to, NEW u \in Suspend(line, l, from, to, auto)
      PROVE  Moves(line, u, l, from, to)
  <2>1. Correct(line)
    BY <1>1 DEF IInv
  <2>2. from \in Int /\ to \in Int /\ 2 <= from /\ from <= MaxDate
    BY ContractAssumption
  <2>3. QED
    BY <1>1, <2>1, <2>2, SuspendMoves
<1>2. IInv => SuspensionMovesDays
  BY <1>1 DEF SuspensionMovesDays
<1>3. QED
  BY <1>2, Invariance, PTL

=============================================================================
