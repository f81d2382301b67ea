--------------------------- MODULE RollingFunding ---------------------------
(***************************************************************************)
(* The funding model of a symbol (python/perpcarry/models/                 *)
(* rolling_funding.py) on a series that was admitted: forecast_stream      *)
(* (models/funding_walk_forward.py) forecasts each settlement of a study   *)
(* before the model observes it.  Of a posterior the model keeps the rows  *)
(* it was fitted to; the regression itself is left out.                    *)
(***************************************************************************)
EXTENDS FundingSeries

CONSTANTS RollingDays,
          MinSettlements,
          StudyStart      \* first day of the study; the days before it warm up

ASSUME RollingAssumption ==
    RollingDays \in Nat \ {0} /\ MinSettlements \in Nat \ (0 .. 2) /\ StudyStart \in Nat

VARIABLES history,  \* the rows the model keeps
          observed, \* rows of the series it was given
          frozen,   \* the comparator: the rows of the first posterior of a cadence
          record,   \* the last record of the stream
          stream_pc

modelVars == <<history, observed, frozen, record, stream_pc>>
rollingVars == <<fundingVars, modelVars>>

NoRecord == [time |-> 0, status |-> "none", fitted |-> <<>>, frozen |-> <<>>]

RollingInit ==
    /\ history = <<>> /\ observed = 0
    /\ frozen = <<>> /\ record = NoRecord /\ stream_pc = "streaming"

RollingWindow == RollingDays * Day

Since(rows, time) == RowsAt(rows, {i \in 1 .. Len(rows) : rows[i].time >= time})

\* update refuses the row
Refused(rows, row) ==
    \/ ~row.sane
    \/ /\ rows # <<>>
       /\ \/ row.time <= Last(rows).time
          \/ ~Regular(row.time - Last(rows).time, row.hours)

\* fault: rows of another cadence stay
UpdatedAcrossCadences(rows, row) == Since(Append(rows, row), row.time - RollingWindow)

\* update: a row of another cadence clears the history; old rows drop out
Updated(rows, row) ==
    LET kept == IF rows # <<>> /\ Last(rows).hours # row.hours THEN <<>> ELSE rows
    IN  Since(Append(kept, row), row.time - RollingWindow)

\* _selection: the rows a forecast at this time is fitted to
Selected(rows, as_of) == Since(rows, as_of - RollingWindow)

Fresh(rows, as_of) ==
    rows # <<>> /\ as_of - Last(rows).time <= Last(rows).hours * Hour + Tolerance

\* no FundingModelUnavailable
Available(rows, as_of) == Fresh(rows, as_of) /\ Len(Selected(rows, as_of)) >= MinSettlements

Cadence(rows) == Last(rows).hours

Forecast(time) ==
    IF Available(history, time)
    THEN [time |-> time, status |-> "forecast", fitted |-> Selected(history, time),
          frozen |-> frozen']
    ELSE [time |-> time, status |-> "unavailable", fitted |-> <<>>, frozen |-> <<>>]

Streaming == load_pc = "admitted" /\ stream_pc = "streaming" /\ observed < Len(series)

\* a record first, then the update
ObserveSettlement ==
    /\ Streaming
    /\ LET row == series[observed + 1]
           in_study == row.time >= StudyStart * Day
       IN  /\ frozen' = IF /\ in_study /\ Available(history, row.time)
                           /\ frozen # <<>> => Cadence(frozen) # Cadence(history)
                        THEN Selected(history, row.time) ELSE frozen
           /\ record' = IF in_study THEN Forecast(row.time) ELSE record
           /\ IF Refused(history, row) THEN stream_pc' = "raised" /\ UNCHANGED <<history, observed>>
              ELSE /\ history' = Updated(history, row) /\ observed' = observed + 1
                   /\ UNCHANGED stream_pc
    /\ UNCHANGED fundingVars

RollingNext == ObserveSettlement
------------------------------------------------------------------------------
\* settlements of the venue before a time, back to its last change of cadence
SinceCadenceChange(time) ==
    {i \in 1 .. Len(InWindow) :
        /\ InWindow[i].time < time
        /\ \A j \in i .. Len(InWindow) :
              InWindow[j].time < time => InWindow[j].hours = InWindow[i].hours}

\* what a forecast at a time should rest on, from the settlements of the venue
RecentTruth(time) ==
    {InWindow[i] : i \in {k \in SinceCadenceChange(time) : InWindow[k].time >= time - RollingWindow}}

(* No settlement of a series that was admitted is refused by the model, so *)
(* that a study never breaks off in the middle (validate, update).         *)
AdmittedSeriesIsAccepted == stream_pc # "raised"

(* A forecast rests on the settlements of the venue in its window, all of  *)
(* them since the last change of cadence and nothing else: none that was   *)
(* lost on the way, none of its own time or later.  The frozen comparator  *)
(* is of the same cadence and knows nothing newer than it (_selection,     *)
(* forecast_stream).                                                       *)
ForecastIsOfTheRecentPast ==
    record.status = "forecast" =>
        /\ Range(record.fitted) = RecentTruth(record.time)
        /\ Len(record.fitted) = Cardinality(RecentTruth(record.time))
        /\ Len(record.fitted) >= MinSettlements
        /\ Cadence(record.frozen) = Cadence(record.fitted)
        /\ Last(record.frozen).time <= Last(record.fitted).time
=============================================================================
