------------------------------ MODULE Monitor -------------------------------
(***************************************************************************)
(* The monitor: a program of its own that measures the host every minute,  *)
(* keeps the measurements in SQLite, throws the old ones away and shows    *)
(* those of the last days.  What was measured is data; a measurement is    *)
(* the moment it was stored at.                                            *)
(*                                                                         *)
(* SQLite writes that moment as "date time", Go writes the beginning of a  *)
(* range as "dateTtime", and the two are compared as texts: within a day   *)
(* every measurement is before every beginning.                            *)
(* A definition Name_Variant is Name with a plausible bug in it.           *)
(***************************************************************************)
EXTENDS Integers

CONSTANTS
    DayLength,   \* moments of a day
    Period,      \* days that can be asked for: 1, 7, 30 in the code
    Kept,        \* days a measurement is kept: 90 in the code
    MaxTime      \* bound: the last moment

VARIABLES
    now,
    metrics,     \* the table: when its rows were stored
    job,         \* collectLoop: "off", "insert", "delete" or "idle"
    collected    \* history: all rows that were ever stored

vars == <<now, metrics, job, collected>>

Day(t) == t \div DayLength
Cutoff(range) == now - range * DayLength
\* created_at >= cutoff, as texts.
Since_SameDay(t, cutoff) == Day(t) >= Day(cutoff)
Since(t, cutoff) == Day(t) > Day(cutoff)
GetHistory(range) == {t \in metrics : Since(t, Cutoff(range))}

TypeOK ==
    /\ now \in 0..MaxTime /\ metrics \subseteq collected /\ collected \subseteq 0..now
    /\ job \in {"off", "insert", "delete", "idle"}

Init == now = 0 /\ metrics = {} /\ collected = {} /\ job = "off"

\* The program starts with a measurement and goes on with one a minute.
Start == job = "off" /\ job' = "insert" /\ UNCHANGED <<now, metrics, collected>>
Minute == job = "idle" /\ job' = "insert" /\ UNCHANGED <<now, metrics, collected>>
\* collect: the INSERT, whose error is logged, then the DELETE, whose error is not.
Insert ==
    /\ job = "insert" /\ job' = "delete"
    /\ \/ metrics' = metrics \cup {now} /\ collected' = collected \cup {now}
       \/ UNCHANGED <<metrics, collected>>
    /\ UNCHANGED now
Old_Recent(t) == t < Cutoff(1)
Old(t) == t < Cutoff(Kept)
DeleteOld ==
    /\ job = "delete" /\ job' = "idle"
    /\ metrics' \in {metrics, {t \in metrics : ~Old(t)}}
    /\ UNCHANGED <<now, collected>>
Stop == job # "off" /\ job' = "off" /\ UNCHANGED <<now, metrics, collected>>
Tick == now < MaxTime /\ now' = now + 1 /\ UNCHANGED <<metrics, job, collected>>

Next == Start \/ Minute \/ Insert \/ DeleteOld \/ Stop \/ Tick
Spec == Init /\ [][Next]_vars

-----------------------------------------------------------------------------
\* The history of some days shows nothing older, and everything measured in
\* them but at most the first day, through restarts and failing statements
\* (monitor/main.go:118, :129-140).
HistoryReaches ==
    \A range \in Period :
        LET shown == GetHistory(range)
        IN  /\ \A t \in shown : t > Cutoff(range)
            /\ {t \in collected : t > Cutoff(range - 1)} \subseteq shown

=============================================================================
