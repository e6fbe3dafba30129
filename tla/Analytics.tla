----------------------------- MODULE Analytics -----------------------------
(***************************************************************************)
(* What viewers' players report and what the owner's reports make of it:   *)
(* video_analytics.go, video_analytics_dashboard.go and the summary of     *)
(* video_query.go.                                                         *)
(*                                                                         *)
(* Every row is inserted by a goroutine some time after the player's       *)
(* request was accepted, and a report is several queries, one after the    *)
(* other and without a snapshot, about a "now" read before the first of    *)
(* them.  Only the day of a row counts.  The videos are those of one       *)
(* owner or organization.  Referrers, browsers, devices, places and watch  *)
(* time are further groupings of the rows counted here, and left out.      *)
(***************************************************************************)
EXTENDS Integers, FiniteSets, FiniteSetsExt

CONSTANTS Audience,   \* viewer hashes
          Watched,    \* videos
          NoReport,
          Ranges,     \* lengths in days: 7, 30 and 90
          LastDay,    \* bounds the model
          MaxRows     \* of the four tables together (bounds the model)

ASSUME AnalyticsAssumption ==
  /\ IsFiniteSet(Watched) /\ Ranges \subseteq Nat \ {0}
  /\ LastDay \in Nat /\ MaxRows \in Nat \ {0}

VARIABLES today,
          viewed,      \* video_views
          clicked,     \* cta_clicks
          milestone,   \* view_milestones, without their days
          engaged,     \* segment_engagement.watch_count, summed over the segments
          removed,     \* the videos of status deleted
          report       \* the report being prepared

analyticsVars == <<today, viewed, clicked, milestone, engaged, removed, report>>

CalendarDays == 0 .. LastDay
Milestones == {25, 100}   \* of 25, 50, 75 and 100
All == 0                  \* range "all"

\* nth tells rows apart that are alike.
ViewRow == [video : Watched, by : Audience, day : CalendarDays, nth : 1 .. MaxRows]
ClickRow == [video : Watched, day : CalendarDays, nth : 1 .. MaxRows]

\* The sum of the values of f, counted as pairs.
SumOf(f) == Cardinality(UNION {{x} \X (1 .. f[x]) : x \in DOMAIN f})

Views(V, days) == {x \in viewed : x.video \in V /\ x.day \in days}
Watchers(V, days) == {x.by : x \in Views(V, days)}
Clicks(V, days) == {x \in clicked : x.video \in V /\ x.day \in days}
Room == Cardinality(viewed) + Cardinality(clicked) + Cardinality(milestone)
          + SumOf(engaged) < MaxRows

AnalyticsInit ==
  /\ today = 0 /\ viewed = {} /\ clicked = {}
  /\ milestone = {} /\ engaged = [v \in Watched |-> 0]
  /\ removed = {} /\ report = NoReport

(***************************************************************************)
(* The goroutines' inserts.  The video was ready or processing when its    *)
(* share token was looked up; it may have been deleted since.              *)
(***************************************************************************)
InsertView(v, a) ==
  /\ Room
  /\ LET alike == {x \in Views({v}, {today}) : x.by = a} IN
     viewed' = viewed \cup {[video |-> v, by |-> a, day |-> today, nth |-> Cardinality(alike) + 1]}
  /\ UNCHANGED <<today, clicked, milestone, engaged, removed, report>>

RecordCTAClick(v) ==
  /\ Room
  /\ clicked' = clicked \cup {[video |-> v, day |-> today,
                                nth |-> Cardinality(Clicks({v}, {today})) + 1]}
  /\ UNCHANGED <<today, viewed, milestone, engaged, removed, report>>

\* ON CONFLICT DO NOTHING; in whatever order the requests come.
RecordMilestone(v, a, m) ==
  /\ Room /\ milestone' = milestone \cup {<<v, a, m>>}
  /\ UNCHANGED <<today, viewed, clicked, engaged, removed, report>>

RecordSegments(v) ==
  /\ Room /\ engaged' = [engaged EXCEPT ![v] = @ + 1]
  /\ UNCHANGED <<today, viewed, clicked, milestone, removed, report>>

Midnight ==
  /\ today < LastDay /\ today' = today + 1
  /\ UNCHANGED <<viewed, clicked, milestone, engaged, removed, report>>

RemoveVideo(v) ==
  /\ v \notin removed /\ removed' = removed \cup {v}
  /\ UNCHANGED <<today, viewed, clicked, milestone, engaged, report>>

(***************************************************************************)
(* The queries.  A row counts from the first day of the range on, with no  *)
(* upper end.  The days of a bounded range are all listed, those without   *)
(* rows as zero, and no other day; "all" and the exports list the days     *)
(* that have rows.                                                         *)
(***************************************************************************)
\* A plausible mistake, to test the properties: one day too many.
SinceDayBefore(now, days) == IF days = All THEN 0 ELSE now - days

Since(now, days) == IF days = All THEN 0 ELSE now - (days - 1)

Counted(now, days) == {d \in CalendarDays : d >= Since(now, days)}

Exported(V, now, days) == {x.day : x \in Views(V, Counted(now, days))}

Daily(V, now, days) ==
  [d \in IF days = All THEN Exported(V, now, All) ELSE now - (days - 1) .. now |->
     [views |-> Cardinality(Views(V, {d})), unique |-> Cardinality(Watchers(V, {d}))]]

\* TotalViews and UniqueViews of a video's report are sums over its days.
Summary(daily, now) ==
  [total |-> SumOf([d \in DOMAIN daily |-> daily[d].views]),
   unique |-> SumOf([d \in DOMAIN daily |-> daily[d].unique]),
   today |-> IF now \in DOMAIN daily THEN daily[now].views ELSE 0]

\* The views of the range before this one, for the trend.
Previous(v, now, days) ==
  Cardinality(Views({v}, Since(now, days) - days .. Since(now, days) - 1))

\* Both tables are joined to the video before the views are counted, so that each view
\* counts once for every milestone row.
TopViews(v, now, days) ==
  LET reached == {x \in milestone : x[1] = v}
  IN Cardinality(Views({v}, Counted(now, days))) * Max({1, Cardinality(reached)})

(***************************************************************************)
(* Analytics, AnalyticsDashboard and their exports.  A video's report sums *)
(* up its days; the dashboard queries its totals before its days and the   *)
(* list of its top videos after them.  floor is history: the views of the  *)
(* days up to now when the report was asked for.                           *)
(***************************************************************************)
Report == [kind : {"video", "board"}, of : SUBSET Watched, days : Ranges \cup {All},
           now : CalendarDays, pc : {"totals", "daily", "rest", "done"}, total : 0 .. MaxRows,
           unique : 0 .. MaxRows, listed : 0 .. MaxRows, rest : 0 .. MaxRows * MaxRows,
           floor : 0 .. MaxRows]

ASSUME NothingAsked == NoReport \notin Report

Prepare(kind, V, days, pc) ==
  /\ report = NoReport
  /\ report' = [kind |-> kind, of |-> V, days |-> days, now |-> today, pc |-> pc,
                total |-> 0, unique |-> 0, listed |-> 0, rest |-> 0,
                floor |-> Cardinality(Views(V, Counted(today, days)))]
  /\ UNCHANGED <<today, viewed, clicked, milestone, engaged, removed>>

AnalyticsOf(v, days) == v \notin removed /\ Prepare("video", {v}, days, "daily")

AnalyticsDashboard(days) == Prepare("board", Watched, days, "totals")

Answered(r) == report' = r /\ UNCHANGED <<today, viewed, clicked, milestone, engaged, removed>>

ReadTotals ==
  LET counted == Counted(report.now, report.days) IN
  /\ report # NoReport /\ report.pc = "totals"
  /\ Answered([report EXCEPT !.pc = "daily", !.total = Cardinality(Views(report.of, counted)),
                             !.unique = Cardinality(Watchers(report.of, counted))])

ReadDaily ==
  /\ report # NoReport /\ report.pc = "daily"
  /\ LET sum == Summary(Daily(report.of, report.now, report.days), report.now) IN
     Answered(IF report.kind = "board"
              THEN [report EXCEPT !.pc = "rest", !.listed = sum.total]
              ELSE [report EXCEPT !.pc = "rest", !.listed = sum.total,
                                  !.total = sum.total, !.unique = sum.unique])

\* The clicks on the video; the list of top videos, of which the first is kept here.
ReadRest ==
  /\ report # NoReport /\ report.pc = "rest"
  /\ LET clicks == Cardinality(Clicks(report.of, Counted(report.now, report.days)))
         tops == {TopViews(v, report.now, report.days) : v \in report.of \ removed} IN
     Answered([report EXCEPT !.pc = "done",
                 !.rest = IF report.kind = "video" THEN clicks ELSE Max({0} \cup tops)])

Deliver == report # NoReport /\ report.pc = "done" /\ Answered(NoReport)

AnalyticsNext ==
  \/ \E v \in Watched :
       \/ \E a \in Audience : InsertView(v, a) \/ \E m \in Milestones : RecordMilestone(v, a, m)
       \/ RecordCTAClick(v) \/ RecordSegments(v) \/ RemoveVideo(v)
       \/ \E days \in Ranges \cup {All} : AnalyticsOf(v, days)
  \/ \E days \in Ranges \cup {All} : AnalyticsDashboard(days)
  \/ Midnight \/ ReadTotals \/ ReadDaily \/ ReadRest \/ Deliver

AnalyticsSpec == AnalyticsInit /\ [][AnalyticsNext]_analyticsVars

-----------------------------------------------------------------------------
AnalyticsTypeOK ==
  /\ today \in CalendarDays /\ milestone \subseteq Watched \X Audience \X Milestones
  /\ viewed \subseteq ViewRow /\ clicked \subseteq ClickRow
  /\ engaged \in [Watched -> 0 .. MaxRows] /\ removed \subseteq Watched
  /\ report \in Report \cup {NoReport}

\* A report shows every view there was when it was asked for, and no view twice: the sum
\* of its days is at least those views, and at most the views there are now.  Rows added
\* between its queries may set the totals and the days of a dashboard apart, and a view
\* of the day after now is in the totals only.
ReportsEveryView ==
  report # NoReport /\ report.pc \in {"rest", "done"} =>
    /\ report.floor <= report.listed
    /\ report.listed <= Cardinality(Views(report.of, Counted(report.now, report.days)))
    /\ today = report.now /\ report.kind = "board" => report.total <= report.listed

\* The two kinds of report and their ranges tell one story: the dashboard's total is the
\* sum of the videos' totals, deleted ones included; the distinct viewers of the range are
\* at most the sum over its days; a range and the one before it are the range of twice the
\* length; today's views are in every range; and the list of top videos agrees while a
\* video has at most one milestone row.  (Stated of the rows between two reports.)
ReportsAgree ==
  report = NoReport /\ viewed # {} => \A days \in Ranges \cup {All} :
    LET in(v) == Summary(Daily({v}, today, days), today)
        board == Summary(Daily(Watched, today, days), today)
        counted == Counted(today, days)
        total == Cardinality(Views(Watched, counted)) IN
    /\ total = SumOf([v \in Watched |-> in(v).total]) /\ total = board.total
    /\ Cardinality(Watchers(Watched, counted)) <= board.unique
    /\ board.today = Cardinality(Views(Watched, {today}))
    /\ days # All => \A v \in Watched :
         in(v).total + Previous(v, today, days)
           = Cardinality(Views({v}, Counted(today, 2 * days)))
    /\ \A v \in Watched : Cardinality({x \in milestone : x[1] = v}) <= 1 =>
         TopViews(v, today, days) = in(v).total

\* What the two state above, as one: reports neither lose nor repeat a view, whatever is
\* recorded while they are prepared, and agree with each other between two of them.
ReportsAddUp == ReportsEveryView /\ ReportsAgree
=============================================================================
