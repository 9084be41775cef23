---------------------------- MODULE ProxyTraffic ----------------------------
(***************************************************************************)
(* The traffic of one proxy by day, from the counters of frps to the bars   *)
(* of the dashboard: StandardDateCounter (pkg/util/metric), the statistics   *)
(* of a proxy (pkg/metrics/mem), /api/traffic/:name, the dialog Traffic.vue  *)
(* and DrawProxyTrafficChart (web/frps).                                     *)
(*                                                                          *)
(* A counter keeps the last ReserveDays days and moves them along when it is *)
(* used: every read and every write first rotates it to the present date.    *)
(* It measures the days since its last use in hours, so the model has the    *)
(* hour of each midnight: on one day the zone of frps may put its clocks     *)
(* forward or back.  The chart dates the values with the browser's clock.    *)
(***************************************************************************)
EXTENDS Integers

CONSTANTS
    ReserveDays,   \* days that a counter keeps
    ChartDays,     \* days on the axis of the chart
    MaxDay,        \* bound: the last day
    MaxBytes,      \* bound: traffic of a direction per day
    Changes,       \* hours by which the clocks of frps go back, -1 forward
    Skews          \* days by which the browser's date is ahead of frps

\* ReserveDays (types.go) and the 7 of DrawProxyTrafficChart are the same number.
ASSUME DaysAssumption ==
    /\ ReserveDays \in Nat \ {0} /\ ChartDays = ReserveDays
    /\ MaxDay \in Nat /\ MaxBytes \in Nat
    /\ Changes \subseteq -1 .. 1 /\ Skews \subseteq -1 .. 1

Dir == {"in", "out"}   \* the counters TrafficIn and TrafficOut
Slot == 0 .. (ReserveDays - 1)
Day == 0 .. MaxDay
NoReply == [asOf |-> -1]
NoChart == [asOf |-> -1]

VARIABLES
    today,       \* the date at frps
    changeDay,   \* the day on which the clocks are changed
    change,      \* hours they go back
    skew,        \* date of the browser minus date of frps
    known,       \* the proxy has statistics
    counts,      \* counts of the two counters, [Dir -> [Slot -> Nat]]
    lastUpdate,  \* their lastUpdateDate
    hist,        \* ghost: the traffic of each day
    trafficDialog,
    reply,       \* answer of /api/traffic on its way to the browser
    trafficChart \* what the dialog shows

trafficVars == <<today, changeDay, change, skew, known, counts, lastUpdate, hist,
                 trafficDialog, reply, trafficChart>>
clocks == <<changeDay, change, skew>>
browser == <<trafficDialog, reply, trafficChart>>

Zeros == [d \in Dir |-> [i \in Slot |-> 0]]
Silence == [d \in Dir |-> [day \in Day |-> 0]]

TrafficInit ==
    /\ today = 0 /\ changeDay \in Day /\ change \in Changes /\ skew \in Skews
    /\ known = TRUE /\ counts = Zeros /\ hist = Silence
    /\ lastUpdate = [d \in Dir |-> 0]
    /\ trafficDialog = "closed" /\ reply = NoReply /\ trafficChart = NoChart

---------------------------------------------------------------------------
(* Frps *)

\* The hour of the midnight that begins a day.
Midnight(day) == 24 * day + (IF day > changeDay THEN change ELSE 0)

\* rotate to a date: whole days since the last use, as int(hours / 24) has it; values
\* that are ReserveDays old or older fall off.
DaysSince(d, now) == (Midnight(now) - Midnight(lastUpdate[d])) \div 24

\* mutant: a value is moved one slot too far.
RotatedTooFar(d, now) ==
    LET days == DaysSince(d, now)
    IN  [i \in Slot |-> IF days = 0 THEN counts[d][i]
                        ELSE IF i <= days THEN 0 ELSE counts[d][i - days - 1]]

Rotated(d, now) ==
    LET days == DaysSince(d, now)
    IN  [i \in Slot |-> IF i < days THEN 0 ELSE counts[d][i - days]]

\* Inc, by AddTrafficIn or AddTrafficOut; without statistics nothing is counted.
AddTraffic(d) ==
    /\ known /\ hist[d][today] < MaxBytes
    /\ counts' = [counts EXCEPT ![d] = [Rotated(d, today) EXCEPT ![0] = @ + 1]]
    /\ lastUpdate' = [lastUpdate EXCEPT ![d] = today]
    /\ hist' = [hist EXCEPT ![d][today] = @ + 1]
    /\ UNCHANGED <<today, clocks, known, browser>>

\* TodayCount and GetLastDaysCount of both counters, under m.mu.  Each asks for the time
\* itself: the date of the second may be that of the next day.
RotateAll(asOf) ==
    /\ asOf["in"] = today /\ asOf["out"] \in {today, today + 1}
    /\ today' = asOf["out"]
    /\ counts' = [d \in Dir |-> Rotated(d, asOf[d])]
    /\ lastUpdate' = asOf

\* GetProxiesByType, for the table of proxies.
ReadToday ==
    /\ known
    /\ \E asOf \in [Dir -> Day] : RotateAll(asOf)
    /\ UNCHANGED <<clocks, known, hist, browser>>

DayPasses ==
    /\ today < MaxDay
    /\ today' = today + 1
    /\ UNCHANGED <<clocks, known, counts, lastUpdate, hist, browser>>

\* clearUselessInfo: the proxy has been closed and its statistics are removed.
Forget ==
    /\ known
    /\ known' = FALSE
    /\ UNCHANGED <<today, clocks, counts, lastUpdate, hist, browser>>

\* NewProxy of a name without statistics: new counters.
NewCounters ==
    /\ ~known
    /\ known' = TRUE /\ counts' = Zeros /\ hist' = Silence
    /\ lastUpdate' = [d \in Dir |-> today]
    /\ UNCHANGED <<today, clocks, browser>>

\* apiProxyTraffic.  The ghost field truth is the traffic up to now.
AnswerTraffic ==
    /\ trafficDialog = "asked" /\ known
    /\ \E asOf \in [Dir -> Day] :
          /\ RotateAll(asOf)
          /\ reply' = [asOf |-> asOf, counts |-> counts', truth |-> hist]
    /\ trafficDialog' = "answered"
    /\ UNCHANGED <<clocks, known, hist, trafficChart>>

---------------------------------------------------------------------------
(* The browser *)

\* A click on Traffic mounts Traffic.vue, whose fetchData asks for the proxy.
OpenDialog ==
    /\ trafficDialog = "closed"
    /\ trafficDialog' = "asked"
    /\ UNCHANGED <<today, clocks, known, counts, lastUpdate, hist, reply, trafficChart>>

\* Answer 404 is no JSON, and a request may fail: fetchData shows a warning.
AskFails ==
    /\ trafficDialog \in {"asked", "answered"}
    /\ trafficDialog' = "warned" /\ reply' = NoReply
    /\ UNCHANGED <<today, clocks, known, counts, lastUpdate, hist, trafficChart>>

\* mutant: the values are drawn in the order of the answer, today first.
SeriesUnreversed(d) == reply.counts[d]

\* DrawProxyTrafficChart: reverse of the counts, oldest first.
Series(d) == [i \in Slot |-> reply.counts[d][ReserveDays - 1 - i]]

\* The dates of the axis, of the ChartDays days up to the browser's date.
Dates(now) == [i \in 0 .. (ChartDays - 1) |-> now - (ChartDays - 1) + i]

DrawProxyTrafficChart ==
    /\ trafficDialog = "answered"
    /\ trafficChart' = [asOf |-> reply.asOf, truth |-> reply.truth, now |-> today + skew,
                 dates |-> Dates(today + skew), bars |-> [d \in Dir |-> Series(d)]]
    /\ trafficDialog' = "drawn" /\ reply' = NoReply
    /\ UNCHANGED <<today, clocks, known, counts, lastUpdate, hist>>

\* destroy-on-close.  An answer that comes after this finds no element to draw in
\* (module Dashboard).
CloseDialog ==
    /\ trafficDialog # "closed"
    /\ trafficDialog' = "closed" /\ trafficChart' = NoChart /\ reply' = NoReply
    /\ UNCHANGED <<today, clocks, known, counts, lastUpdate, hist>>

TrafficNext ==
    \/ \E d \in Dir : AddTraffic(d)
    \/ ReadToday \/ DayPasses \/ Forget \/ NewCounters
    \/ OpenDialog \/ AnswerTraffic \/ AskFails \/ DrawProxyTrafficChart \/ CloseDialog

TrafficSpec == TrafficInit /\ [][TrafficNext]_trafficVars

---------------------------------------------------------------------------
(* Properties *)

\* Traffic of a direction on a day, of which those before the first had none.
TrafficOn(h, d, day) == IF day \in Day THEN h[d][day] ELSE 0

\* Types: the counters have ReserveDays slots of naturals and no date is ahead.
TrafficTypeOK ==
    /\ today \in Day /\ changeDay \in Day /\ change \in Changes /\ skew \in Skews
    /\ known \in BOOLEAN
    /\ counts \in [Dir -> [Slot -> Nat]]
    /\ lastUpdate \in [Dir -> Day] /\ \A d \in Dir : lastUpdate[d] <= today
    /\ hist \in [Dir -> [Day -> Nat]]
    /\ trafficDialog \in {"closed", "asked", "answered", "drawn", "warned"}
    /\ reply = NoReply \/ trafficDialog = "answered"
    /\ trafficChart = NoChart \/ trafficDialog = "drawn"

\* rotate puts every value into the slot of its day, however long a counter was not
\* used and also over a day of 25 hours: slot i of a counter has the traffic of i days
\* before its last use.  When the clocks go forward, Hours() / 24 is below the number of days.
CountsExact ==
    change >= 0 /\ known =>
        \A d \in Dir, i \in Slot :
            counts[d][i] = TrafficOn(hist, d, lastUpdate[d] - i)

\* The counters are well formed and exact.
CountersSound == TrafficTypeOK /\ CountsExact

\* DrawProxyTrafficChart puts the traffic of a day above its date, for each direction
\* whose counter frps read on the date on which the browser draws.
BarsAreDated ==
    change >= 0 /\ trafficChart # NoChart =>
        \A d \in Dir : trafficChart.now = trafficChart.asOf[d] =>
            \A i \in 0 .. (ChartDays - 1) :
                trafficChart.bars[d][i] = TrafficOn(trafficChart.truth, d, trafficChart.dates[i])
=============================================================================
