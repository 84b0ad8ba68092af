-------------------------------- MODULE Analytics --------------------------------
(***************************************************************************)
(* The reports of AnalyticsService (backend/src/analytics) and the daily   *)
(* payment funnel, over a payments and a settlements table that change     *)
(* while a report is being read: the queries of one report run side by     *)
(* side, and daily volumes come from a materialized view that is refreshed *)
(* every hour.  A date is a day number; the calendar is the sequence of    *)
(* the first days of its months, which have different lengths.             *)
(***************************************************************************)
EXTENDS Integers, Sequences, FiniteSetsExt

CONSTANTS
    Payments, Settlements,   \* rows
    RowDay, RowUsd,          \* a payment's createdAt; amountUsd or feeAmountUsd (units)
    RowNetwork, RowMerchant,
    MonthStarts,             \* first days of the months, ascending
    DefaultDays, DefaultMonths,   \* 30 and 12
    QueryDays,               \* the dates a caller may give
    FirstDay, LastDay,       \* today moves between them
    Scale                    \* 1_000_000 units

ASSUME AnalyticsAssumption ==
    /\ IsFiniteSet(Payments) /\ IsFiniteSet(Settlements)
    /\ RowDay \in [Payments -> Int] /\ RowUsd \in [Payments \cup Settlements -> Nat]
    /\ FirstDay \in Int /\ LastDay \in Int /\ FirstDay <= LastDay /\ QueryDays \subseteq Int
    /\ Scale \in Nat \ {0} /\ DefaultDays \in Nat \ {0} /\ DefaultMonths \in Nat \ {0}
    /\ MonthStarts \in Seq(Int) \ {<< >>}
    /\ \A j, k \in DOMAIN MonthStarts : j < k => MonthStarts[j] < MonthStarts[k]

VARIABLES
    today,
    payStatus,   \* of each payment
    completedAt, \* of each settlement, 0 while it is not completed
    mvPayments,  \* the settled payments mv_daily_payment_volume was built from
    report,      \* the report being read: its parts come in any order
    moved        \* history: rows that changed while the report was read

analyticsVars == <<today, payStatus, completedAt, mvPayments, report, moved>>

None == 0
Admin == "admin"
FunnelStatuses == {"pending", "confirmed", "settling", "settled", "failed", "expired"}
NoReport == [kind |-> "none", got |-> << >>]
Settled == {p \in Payments : payStatus[p] = "settled"}
Completed == {s \in Settlements : completedAt[s] # 0}

AnalyticsInit ==
    /\ today = FirstDay
    /\ payStatus = [p \in Payments |-> "confirmed"]
    /\ completedAt = [s \in Settlements |-> 0]
    /\ mvPayments = {} /\ report = NoReport /\ moved = {}

--------------------------------------------------------------------------------
(* Dates                                                                   *)

MonthOf(d) == Max({m \in DOMAIN MonthStarts : MonthStarts[m] <= d})
startOfUtcMonth(d) == MonthStarts[MonthOf(d)]
addUtcDays(d, n) == d + n
addUtcMonths(d, n) == MonthStarts[MonthOf(d) + n]
diffUtcDays(s, e) == e - s
diffUtcMonths(s, e) == MonthOf(e) - MonthOf(s)

\* The calendar has all months that the dates lead to.
ASSUME CalendarAssumption ==
    LET dates == QueryDays \cup (FirstDay .. LastDay)
    IN  \A d \in dates :
            /\ MonthStarts[1] <= d /\ 2 * DefaultMonths <= MonthOf(d) /\ MonthOf(d) < Len(MonthStarts)
            /\ \A e \in dates : MonthOf(e) + 2 <= 2 * MonthOf(d)

Truncate(period, d) == IF period = "daily" THEN d ELSE startOfUtcMonth(d)

\* The requested range, or the default window that ends today.  A range whose
\* start lies after its end is refused.
resolveVolumeRange(period, from, to) ==
    LET end == Truncate(period, IF to # None THEN to ELSE today)
        start == IF from # None THEN Truncate(period, from)
                 ELSE IF period = "daily" THEN addUtcDays(end, 1 - DefaultDays)
                 ELSE addUtcMonths(end, 1 - DefaultMonths)
    IN  [start |-> start,
         endExclusive |-> IF period = "daily" THEN addUtcDays(end, 1) ELSE addUtcMonths(end, 1),
         valid |-> start <= end, last |-> end]

\* As many buckets before the current range as it has itself.
resolvePreviousRange(period, cur) ==
    [start |-> IF period = "daily"
               THEN addUtcDays(cur.start, -(diffUtcDays(cur.start, cur.last) + 1))
               ELSE addUtcMonths(cur.start, -(diffUtcMonths(cur.start, cur.last) + 1)),
     endExclusive |-> cur.start]

\* Today or this month, and the one before: getPeriodBounds and getComparison.
getPeriodBounds(period) ==
    LET start == Truncate(period, today)
        next(d, n) == IF period = "daily" THEN addUtcDays(d, n) ELSE addUtcMonths(d, n)
    IN  [cur |-> [start |-> start, endExclusive |-> next(start, 1)],
         prev |-> [start |-> next(start, -1), endExclusive |-> start]]

Buckets(period, range) ==
    {d \in range.start .. range.endExclusive - 1 : Truncate(period, d) = d}

--------------------------------------------------------------------------------
(* Decimals, as a sign, a whole part and six digits                        *)

unitsToDecimal(v) ==
    LET a == IF v < 0 THEN -v ELSE v IN [neg |-> v < 0, whole |-> a \div Scale, frac |-> a % Scale]

decimalToUnits(d) == (IF d.neg THEN -1 ELSE 1) * (d.whole * Scale + d.frac)

subtractDecimalStrings(l, r) == unitsToDecimal(decimalToUnits(l) - decimalToUnits(r))

\* Hundredths of a percent, rounded to the nearest.
calculatePercentageChange(cur, prev) ==
    IF prev = 0 THEN (IF cur > 0 THEN 10000 ELSE 0)
    ELSE LET diff == cur - prev
             size == (20000 * (IF diff < 0 THEN -diff ELSE diff) + prev) \div (2 * prev)
         IN  IF diff < 0 THEN -size ELSE size

--------------------------------------------------------------------------------
(* Queries                                                                 *)

Usd(S) == MapThenSumSet(LAMBDA x : RowUsd[x], S)
DayOf(x) == IF x \in Payments THEN RowDay[x] ELSE completedAt[x]
Mine(r, S) == IF r.merchant = Admin THEN S ELSE {x \in S : RowMerchant[x] = r.merchant}
In(range, S) == {x \in S : range.start <= DayOf(x) /\ DayOf(x) < range.endExclusive}

\* GROUP BY the bucket: only the buckets that have rows.
GroupByBucket(period, S) ==
    [b \in {Truncate(period, DayOf(x)) : x \in S} |->
        LET rows == {x \in S : Truncate(period, DayOf(x)) = b}
        IN  [usd |-> Usd(rows), count |-> Cardinality(rows)]]

getRevenueBreakdown(r) == GroupByBucket(r.period, In(r.cur, Mine(r, Completed)))

\* Mutant: the total counts a fee on the first moment behind the range.
TotalPastTheEnd(r, range) ==
    Usd({s \in Mine(r, Completed) : range.start <= DayOf(s) /\ DayOf(s) <= range.endExclusive})

getRevenueTotal(r, range) == Usd(In(range, Mine(r, Completed)))

\* Mutant: monthly volumes are read from the view as well.
VolumeFromView(r) == GroupByBucket(r.period, In(r.cur, Mine(r, mvPayments)))

\* Daily volumes read the view, monthly ones the table.
getVolumeBreakdown(r) ==
    GroupByBucket(r.period, In(r.cur, Mine(r, IF r.period = "daily" THEN mvPayments ELSE Settled)))
getVolumeForPeriod(r, range) == Usd(In(range, Mine(r, Settled)))

\* COUNT(*) by status, of the payments created in the range.
fetchCounts(r, range) ==
    [st \in FunnelStatuses |-> Cardinality({p \in In(range, Mine(r, Payments)) : payStatus[p] = st})]

\* getNetworkBreakdown: all settled payments by network, and by network and bucket.
NetworkTotals(r) ==
    [n \in {RowNetwork[p] : p \in Payments} |-> Usd({p \in Mine(r, Settled) : RowNetwork[p] = n})]
NetworkTrend(r) ==
    [n \in {RowNetwork[p] : p \in Payments} |->
        GroupByBucket(r.period, {p \in Mine(r, Settled) : RowNetwork[p] = n})]

PartsOf(kind) ==
    CASE kind = "revenue"  -> {"breakdown", "total", "previous"}
      [] kind = "volume"   -> {"breakdown"}
      [] kind = "networks" -> {"total", "trend"}
      [] OTHER             -> {"total", "previous"}

PartRead(r, part) ==
    CASE r.kind = "revenue" /\ part = "breakdown" -> getRevenueBreakdown(r)
      [] r.kind = "revenue" /\ part = "total"     -> getRevenueTotal(r, r.cur)
      [] r.kind = "revenue" /\ part = "previous"  -> getRevenueTotal(r, r.prev)
      [] r.kind = "volume"                        -> getVolumeBreakdown(r)
      [] r.kind = "networks" /\ part = "total"    -> NetworkTotals(r)
      [] r.kind = "networks" /\ part = "trend"    -> NetworkTrend(r)
      [] r.kind = "comparison" -> getVolumeForPeriod(r, IF part = "total" THEN r.cur ELSE r.prev)
      [] r.kind = "funnel"     -> fetchCounts(r, IF part = "total" THEN r.cur ELSE r.prev)

\* buildVolumeSeries, and buildRevenueSeries alike: every bucket of the range, the
\* ones without rows as zero.
buildSeries(period, range, rows) ==
    [b \in Buckets(period, range) |->
        IF b \in DOMAIN rows THEN rows[b] ELSE [usd |-> 0, count |-> 0]]

--------------------------------------------------------------------------------
(* Actions                                                                 *)

NewDay ==
    /\ today < LastDay /\ today' = today + 1
    /\ UNCHANGED <<payStatus, completedAt, mvPayments, report, moved>>

Move(x) == moved' = IF report.kind = "none" THEN moved ELSE moved \cup {x}

PaymentEnds(p) ==
    /\ payStatus[p] = "confirmed"
    /\ \E st \in {"settled", "failed"} : payStatus' = [payStatus EXCEPT ![p] = st]
    /\ Move(p)
    /\ UNCHANGED <<today, completedAt, mvPayments, report>>

SettlementCompletes(s) ==
    /\ completedAt[s] = 0
    /\ completedAt' = [completedAt EXCEPT ![s] = today]
    /\ Move(s)
    /\ UNCHANGED <<today, payStatus, mvPayments, report>>

refreshMaterializedViews ==
    /\ mvPayments' = Settled
    /\ UNCHANGED <<today, payStatus, completedAt, report, moved>>

StartReport(r) ==
    /\ report.kind = "none"
    /\ report' = r /\ moved' = {}
    /\ UNCHANGED <<today, payStatus, completedAt, mvPayments>>

\* getRevenue and getVolume for a merchant or an administrator.
StartRanged ==
    \E kind \in {"revenue", "volume"}, period \in {"daily", "monthly"},
       from, to \in QueryDays \cup {None}, m \in {RowMerchant[x] : x \in Payments} \cup {Admin} :
        LET cur == resolveVolumeRange(period, from, to)
        IN  /\ cur.valid
            /\ StartReport([kind |-> kind, period |-> period, merchant |-> m, cur |-> cur,
                            prev |-> resolvePreviousRange(period, cur), got |-> << >>])

\* getComparison, getNetworkBreakdown and getFunnel, this one with compareWith (without it
\* a single query counts all rows and compares nothing).  The bounds are whole days of
\* the server's zone, the days rows are counted in here.
StartCurrent ==
    \E kind \in {"comparison", "funnel", "networks"}, period \in {"daily", "monthly"},
       m \in {RowMerchant[x] : x \in Payments} :
        /\ kind = "funnel" => period = "daily"
        /\ StartReport([kind |-> kind, period |-> period, merchant |-> m,
                        cur |-> getPeriodBounds(period).cur, prev |-> getPeriodBounds(period).prev,
                        got |-> << >>])

ReadPart ==
    /\ report.kind # "none"
    /\ \E part \in PartsOf(report.kind) \ DOMAIN report.got :
           report' = [report EXCEPT !.got =
                         [q \in DOMAIN @ \cup {part} |-> IF q = part THEN PartRead(report, q) ELSE @[q]]]
    /\ UNCHANGED <<today, payStatus, completedAt, mvPayments, moved>>

ReportDone == report.kind # "none" /\ DOMAIN report.got = PartsOf(report.kind)

Answer ==
    /\ ReportDone
    /\ report' = NoReport /\ moved' = {}
    /\ UNCHANGED <<today, payStatus, completedAt, mvPayments>>

AnalyticsNext ==
    \/ NewDay \/ refreshMaterializedViews \/ StartRanged \/ StartCurrent \/ ReadPart \/ Answer
    \/ \E p \in Payments : PaymentEnds(p)
    \/ \E s \in Settlements : SettlementCompletes(s)

--------------------------------------------------------------------------------
(* Properties                                                              *)

SeriesUsd(series) == MapThenSumSet(LAMBDA b : series[b].usd, DOMAIN series)
buildRevenueSeries == buildSeries(report.period, report.cur, report.got["breakdown"])

\* The parts of a report that were read apart add up: the fee series to its
\* total, the trend of a network to its volume, except for the rows that changed
\* while it was read.
ReportsAddUp ==
    ReportDone =>
        LET off == Usd(moved)
            Near(a, b) == a - b <= off /\ b - a <= off
        IN  /\ report.kind = "revenue" => Near(SeriesUsd(buildRevenueSeries), report.got["total"])
            /\ report.kind = "networks" =>
                   \A n \in DOMAIN report.got["total"] :
                       Near(report.got["total"][n], SeriesUsd(report.got["trend"][n]))

\* A volume series counts every payment of its range once that is settled (by
\* month) or was settled at the last refresh of the view (by day).
VolumeIsComplete ==
    [][(report.kind = "volume" /\ report.got = << >> /\ report'.kind = "volume" /\ report'.got # << >>) =>
          LET series == buildSeries(report.period, report.cur, report'.got["breakdown"])
              known == IF report.period = "daily" THEN mvPayments ELSE Settled
          IN  MapThenSumSet(LAMBDA b : series[b].count, DOMAIN series)
                  = Cardinality(In(report.cur, Mine(report, known)))]_analyticsVars

\* A period is compared with the one just before it, of as many buckets.
PeriodsAdjoin ==
    report.kind \in {"revenue", "comparison", "funnel"} =>
        /\ report.prev.endExclusive = report.cur.start
        /\ Cardinality(Buckets(report.period, report.prev)) = Cardinality(Buckets(report.period, report.cur))

\* The change of the revenue is exact to the unit and has the sign of the
\* percentage shown beside it.
ChangeIsExact ==
    (ReportDone /\ report.kind = "revenue") =>
        LET cur == report.got["total"]  prev == report.got["previous"]
            change == subtractDecimalStrings(unitsToDecimal(cur), unitsToDecimal(prev))
            percent == calculatePercentageChange(cur, prev)
        IN  /\ decimalToUnits(change) = cur - prev
            /\ change.neg => percent <= 0
            /\ percent < 0 => change.neg
================================================================================
