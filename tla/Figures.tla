------------------------------ MODULE Figures -------------------------------
(***************************************************************************)
(* The figures of the profile and of the dashboard: uploads by day, the    *)
(* breakdown by type, the ring of the quota, sizes and the small curves    *)
(* are computed from a sample; the chart of uploads is a state machine,    *)
(* for its tooltip stays while the data under it change.                   *)
(*                                                                         *)
(* Fractions are kept as whole numbers: tenths of a unit, or a numerator   *)
(* over a fixed denominator.                                               *)
(* A definition Name_Variant is Name with a plausible bug in it.           *)
(***************************************************************************)
EXTENDS Integers, Sequences, FiniteSets, SequencesExt, QueryCache

CONSTANTS
    Sample,        \* bound: what is computed from, see Of
    PageLimit,     \* 100 in the code: images the profile asks for
    TopTypes,      \* 4 in the code
    FeedLength,    \* 6 in the code: images in the feed of the profile
    Kilo,          \* 1024 in the code
    Button,        \* the buttons 7d, 30d, 90d
    MaxUploads     \* bound: uploads while the dashboard is shown

VARIABLES
    sample,        \* rigid: one of Sample
    uploads,       \* server: of today
    range, trend,  \* the button that is on; cache: the data for each
    tooltip,       \* NoTip, or the day and the number in it
    replaced       \* history: the data were replaced under the tooltip

vars == <<sample, uploads, range, trend, tooltip, replaced>>
Of(kind) == sample.of = kind
NoTip == [day |-> 0, value |-> 0]

-----------------------------------------------------------------------------
\* Nine days of 24 hours, of which one may have an hour more or less; the
\* sample tells the hour of the last one it is.
Day == 1..9
StartOf(d) == 24 * (d - 1) + IF d > sample.changed THEN sample.by ELSE 0
DayOf(hour) == CHOOSE d \in Day : StartOf(d) <= hour /\ (d = 9 \/ hour < StartOf(d + 1))
Now == StartOf(9) + sample.hour
\* Images of a day among the newest that were asked for.
Since(d) == FoldLeftDomain(LAMBDA n, e : IF e > d THEN n + sample.week[e] ELSE n, 0, sample.week)
Listed(d) ==
    LET room == PageLimit - Since(d)
    IN  IF room < 0 THEN 0 ELSE IF room < sample.week[d] THEN room ELSE sample.week[d]
\* trendData: the days that the last six multiples of 24 hours fall on, each
\* once, in the order of the keys of an object.
Keys_FromYesterday == [n \in 1..7 |-> DayOf(Now - 24 * (8 - n))]
Keys == [n \in 1..7 |-> DayOf(Now - 24 * (7 - n))]
Distinct(s) == SelectSeq([n \in DOMAIN s |-> <<n, s[n]>>],
                         LAMBDA p : \A m \in 1..(p[1] - 1) : s[m] # p[2])
trendData == [n \in DOMAIN Distinct(Keys) |-> Listed(Distinct(Keys)[n][2])]

\* typeStats: sizes added by type, the largest first, the first seen first
\* among equals, of those the first four.
Images == sample.images    \* their types and sizes, the newest first
Types == {Images[i].type : i \in DOMAIN Images}
SizeOf(t) == FoldLeft(LAMBDA n, image : IF image.type = t THEN n + image.size ELSE n, 0, Images)
CountOf(t) == Cardinality({i \in DOMAIN Images : Images[i].type = t})
FirstSeen(t) == CHOOSE i \in DOMAIN Images :
    Images[i].type = t /\ \A j \in 1..(i - 1) : Images[j].type # t
Before_ByCount(t, u) ==
    CountOf(t) > CountOf(u) \/ (CountOf(t) = CountOf(u) /\ FirstSeen(t) < FirstSeen(u))
Before(t, u) == SizeOf(t) > SizeOf(u) \/ (SizeOf(t) = SizeOf(u) /\ FirstSeen(t) < FirstSeen(u))
typeStats ==
    LET all == SetToSortSeq(Types, Before)
    IN  SubSeq(all, 1, IF Len(all) < TopTypes THEN Len(all) ELSE TopTypes)
maxTypeSize == IF typeStats = <<>> \/ SizeOf(typeStats[1]) < 1 THEN 1 ELSE SizeOf(typeStats[1])
\* The row of a type: its part of the bar, and of the files of the sample.
Row(t) == [part |-> SizeOf(t), whole |-> maxTypeSize, files |-> CountOf(t)]
Feed == SubSeq(Images, 1, IF Len(Images) < FeedLength THEN Len(Images) ELSE FeedLength)

\* formatFileSize of the web and of the phone: the number in tenths, and the
\* bytes its unit stands for.
Unit(bytes) ==
    IF bytes < Kilo THEN 1 ELSE IF bytes < Kilo * Kilo THEN Kilo
    ELSE IF bytes < Kilo * Kilo * Kilo THEN Kilo * Kilo ELSE Kilo * Kilo * Kilo
Nearest(n, d) == (2 * n + d) \div (2 * d)
FormatFileSize_Floor(bytes) == [tenths |-> (10 * bytes) \div Unit(bytes), unit |-> Unit(bytes)]
FormatFileSize(bytes) == [tenths |-> Nearest(10 * bytes, Unit(bytes)), unit |-> Unit(bytes)]
FormatOnPhone(bytes) ==
    IF Unit(bytes) = Kilo THEN [tenths |-> 10 * Nearest(bytes, Kilo), unit |-> Kilo]
    ELSE FormatFileSize(bytes)

\* The quota: the ring is filled to sample.used of 1000, an admin's at most.
Percent_NoCap == sample.used
Percent == IF sample.admin /\ sample.used > 1000 THEN 1000 ELSE sample.used
Ring == IF Percent < 1000 THEN Percent ELSE 1000
RingLabel == Nearest(Percent, 10)

\* Sparkline, of the dashboard and of the profile: the points of the curve,
\* over the largest value and the number of steps.
Top(data) == LET S == ToSet(data) \cup {1} IN CHOOSE m \in S : \A n \in S : n <= m
Steps(data) == IF Len(data) > 1 THEN Len(data) - 1 ELSE 1
Sparkline(data, width) ==
    [i \in DOMAIN data |-> [x |-> (i - 1) * width, y |-> 18 * Top(data) - 16 * data[i]]]
\* The curves of the profile's tiles: the uploads, and two that end with the
\* number of types and with the tenths of a percent, at least 1.
TypeCurve == <<2, 3, 3, 4, 4, 5, IF typeStats = <<>> THEN 1 ELSE Len(typeStats)>>
StorageCurve == <<50, 80, 120, 180, 250, 300, IF Percent = 0 THEN 10 ELSE Percent>>
\* kpiSparks: seven steps that lead to the present total, for three tiles of the
\* dashboard, and the last seven days for the fourth.
KpiSpark(total, step) ==
    [i \in 1..7 |-> IF total - (7 - i) * step > 1 THEN total - (7 - i) * step ELSE 1]
LastSeven(data) == SubSeq(data, IF Len(data) > 7 THEN Len(data) - 6 ELSE 1, Len(data))
DashboardTiles(total, data) ==
    {KpiSpark(total, 2), KpiSpark(total, 5), KpiSpark(total, 1000000), LastSeven(data)}
\* The bars of the tags, over the longest.
TagBar(count, counts) == [part |-> count, whole |-> Top(counts)]

\* TrendChart: its points, x over the number of steps and y over the largest
\* value, the one that is closest to the pointer, the first among equals, and
\* the days written under it.
Chart_W == 380
Chart_H == 160
Pad_X == 32
Pad_Y == 16
Points(data) ==
    [i \in DOMAIN data |->
        [x |-> Pad_X * Steps(data) + (i - 1) * (Chart_W - 2 * Pad_X),
         y |-> (Chart_H - Pad_Y) * Top(data) - data[i] * (Chart_H - 2 * Pad_Y)]]
Distance(data, i, x) == LET d == Points(data)[i].x - x IN IF d < 0 THEN -d ELSE d
Closest(data, x) ==
    CHOOSE i \in DOMAIN data : \A j \in DOMAIN data :
        IF j < i THEN Distance(data, i, x) < Distance(data, j, x)
        ELSE Distance(data, i, x) <= Distance(data, j, x)
Labelled_PastEnd(data) ==
    IF Len(data) < 2 THEN <<>> ELSE <<1, Len(data) \div 2 + 1, Len(data) + 1>>
Labelled(data) ==
    IF Len(data) < 2 THEN <<>> ELSE <<1, Len(data) \div 2 + 1, Len(data)>>

-----------------------------------------------------------------------------
TypeOK ==
    /\ uploads \in 0..MaxUploads /\ range \in Button
    /\ tooltip \in [day: 0..2, value: 0..MaxUploads] /\ replaced \in BOOLEAN
    /\ \A r \in Button : trend[r].flight \in {"none", "asked", "answered"}

Init ==
    /\ sample \in Sample
    /\ uploads = 0 /\ range = "30d"
    /\ trend = [r \in Button |-> IF Of("chart") /\ r = "30d" THEN Observed(Empty) ELSE Empty]
    /\ tooltip = NoTip /\ replaced = FALSE

\* Two days stand for the thirty: yesterday, and today.
Truth == <<1, uploads>>
Shown == IF trend[range].data = NoData THEN <<>> ELSE trend[range].data
\* The chart is there, and with it its tooltip, as long as there are data.
Chart(r, entries) ==
    /\ range' = r /\ trend' = entries
    /\ IF entries[r].data = NoData THEN tooltip' = NoTip /\ replaced' = FALSE
       ELSE /\ UNCHANGED tooltip
            /\ replaced' = (replaced \/ (tooltip # NoTip /\ entries[r].data # Shown))

SetRange(r) ==
    /\ r # range
    /\ Chart(r, [trend EXCEPT ![r] = Observed(@)])
    /\ UNCHANGED <<sample, uploads>>
\* handleMouseMove: the point that is nearest.
HandleMouseMove(d) ==
    /\ d \in DOMAIN Shown
    /\ tooltip' = [day |-> d, value |-> Shown[d]] /\ replaced' = FALSE
    /\ UNCHANGED <<sample, uploads, range, trend>>
MouseLeave ==
    /\ tooltip # NoTip /\ tooltip' = NoTip /\ replaced' = FALSE
    /\ UNCHANGED <<sample, uploads, range, trend>>
Upload ==
    /\ uploads < MaxUploads /\ uploads' = uploads + 1
    /\ UNCHANGED <<sample, range, trend, tooltip, replaced>>
Serve(r) ==
    /\ trend[r].flight = "asked" /\ trend' = [trend EXCEPT ![r] = Served(@, Truth)]
    /\ UNCHANGED <<sample, uploads, range, tooltip, replaced>>
Land_UnderTip(r) ==
    /\ Aged(trend[r]) /\ trend' = [trend EXCEPT ![r] = Landed(@)]
    /\ UNCHANGED <<sample, uploads, range, tooltip, replaced>>
Land(r) ==
    /\ Aged(trend[r]) /\ Chart(range, [trend EXCEPT ![r] = Landed(@)])
    /\ UNCHANGED <<sample, uploads>>

Next ==
    /\ Of("chart")
    /\ \/ \E r \in Button : SetRange(r) \/ Serve(r) \/ Land(r)
       \/ \E d \in 1..2 : HandleMouseMove(d)
       \/ MouseLeave \/ Upload
Spec == Init /\ [][Next]_vars

-----------------------------------------------------------------------------
\* A curve stays in its box, and goes from its left to its right.
InBox(data) ==
    \A i \in DOMAIN data :
        LET p == Sparkline(data, 100)[i] IN
        /\ p.x \in 0..(100 * Steps(data)) /\ p.y \in (2 * Top(data))..(18 * Top(data))
        /\ i = Len(data) /\ i > 1 => p.x = 100 * Steps(data)

\* The curve of the profile has the images of each of the last seven days, of
\* those that were asked for; where the clocks are changed an hour of that week
\* a day may be missing, or one too early taken for it, but none counts twice
\* (ProfilePage.tsx:153-165).
DaysCounted ==
    Of("days") =>
        LET days == {Distinct(Keys)[n][2] : n \in DOMAIN Distinct(Keys)} IN
        /\ sample.changed = 0 => trendData = [n \in 1..7 |-> Listed(n + 2)]
        /\ Len(trendData) = Cardinality(days) /\ 9 \in days /\ InBox(trendData)
        /\ Cardinality((3..9) \ days) <= 1 /\ days \subseteq 2..9

\* The types that are shown are the largest, in order, and no bar is longer
\* than the row; when all types are shown their sizes add up and their files are
\* all files; and a type with an image of the feed is shown or smaller than those
\* that are (ProfilePage.tsx:139-167, :267-300, :344-380).
TypesRanked ==
    Of("types") =>
        /\ \A m, n \in DOMAIN typeStats : m < n => SizeOf(typeStats[m]) >= SizeOf(typeStats[n])
        /\ \A t \in Types \ ToSet(typeStats), n \in DOMAIN typeStats : SizeOf(t) <= SizeOf(typeStats[n])
        /\ \A n \in DOMAIN typeStats :
              LET row == Row(typeStats[n]) IN row.part <= row.whole /\ row.files >= 1
        /\ \A n \in DOMAIN Feed :
              \/ Feed[n].type \in ToSet(typeStats) /\ Row(Feed[n].type).part >= Feed[n].size
              \/ Len(typeStats) = TopTypes /\ Feed[n].size <= Row(typeStats[TopTypes]).part
        /\ InBox(TypeCurve)
        /\ Cardinality(Types) <= TopTypes =>
              /\ FoldLeft(LAMBDA n, t : n + SizeOf(t), 0, typeStats)
                    = FoldLeft(LAMBDA n, image : n + image.size, 0, Images)
              /\ FoldLeft(LAMBDA n, t : n + Row(t).files, 0, typeStats) = Len(Images)

\* A size is told to half a tenth of its unit, half a unit for kilobytes on the
\* phone, and never makes a larger file look smaller, though the last ones
\* before a unit are rounded up to it (utils/format.ts).
Bytes(label) == label.tenths * label.unit
SizesTold ==
    Of("size") =>
        LET b == sample.bytes IN
        /\ Bytes(FormatFileSize(b)) - 10 * b \in (-Unit(b) \div 2 - 1)..(Unit(b) \div 2 + 1)
        /\ 2 * (Bytes(FormatOnPhone(b)) - 10 * b) \in (-10 * Unit(b))..(10 * Unit(b))
        /\ Bytes(FormatFileSize(b)) <= Bytes(FormatFileSize(b + 1))
        /\ Bytes(FormatOnPhone(b)) <= Bytes(FormatOnPhone(b + 1))

\* The ring is never filled beyond its end, and full only when the label says
\* so, which goes beyond 100 for users and not for admins (ProfilePage.tsx:51-80, :136).
RingTellsQuota ==
    Of("quota") =>
        /\ Ring <= 1000 /\ (Ring = 1000 <=> sample.used >= 1000)
        /\ Ring = 1000 => RingLabel >= 100
        /\ RingLabel > 100 => ~sample.admin
        /\ InBox(StorageCurve)

\* No curve or bar of the dashboard leaves its box, whatever the numbers, and the
\* curve of a total never falls and ends with it; every point of the chart is the
\* closest to some pointer, and the first and the last day are written under it,
\* one of two twice (DashboardPage.tsx:25-81, :134-142, :280-285, :365-385).
CurvesInBox ==
    Of("curve") =>
        LET data == sample.data  P == Points(data)  L == Labelled(data) IN
        /\ InBox(data)
        /\ \A i \in DOMAIN data :
              /\ LET bar == TagBar(data[i], data) IN bar.part <= bar.whole
              /\ P[i].x \in (Pad_X * Steps(data))..((Chart_W - Pad_X) * Steps(data))
              /\ P[i].y \in (Pad_Y * Top(data))..((Chart_H - Pad_Y) * Top(data))
              /\ Closest(data, P[i].x) = i
        /\ Len(data) >= 1 =>
              /\ Closest(data, 0) = 1 /\ Closest(data, Chart_W * Steps(data)) = Len(data)
              /\ \A curve \in DashboardTiles(data[1], data) : InBox(curve)
              /\ \A step \in {2, 5, 1000000} :
                    LET s == KpiSpark(data[1], step) IN
                    s[7] = (IF data[1] < 1 THEN 1 ELSE data[1]) /\ IsSorted(s, <=)
              /\ Last(LastSeven(data)) = Last(data) /\ Len(LastSeven(data)) <= 7
        /\ Len(data) >= 2 =>
              /\ ToSet(L) \subseteq DOMAIN data /\ {1, Len(data)} \subseteq ToSet(L)
              /\ (Cardinality(ToSet(L)) = 3 <=> Len(data) > 2)

\* The tooltip says what the chart shows, unless its data were replaced since
\* the pointer moved (DashboardPage.tsx:44, :70-81).
TooltipOfChart ==
    tooltip # NoTip /\ ~replaced => tooltip.day \in DOMAIN Shown /\ Shown[tooltip.day] = tooltip.value

=============================================================================
