--------------------------- MODULE BacktestCommand ---------------------------
(***************************************************************************)
(* The backtest as it is run (python/perpcarry/tools/run_backtest.py): it  *)
(* feeds the events of a manifest to the runner, writes each record as it  *)
(* comes, and ends its output with a footer that says whether the study    *)
(* was covered.  The manifest may end anywhere; the runner does not mind.  *)
(*                                                                         *)
(* Of the records that were written, only what the footer looks at and     *)
(* their numbers are kept.                                                 *)
(***************************************************************************)
EXTENDS WalkForward

VARIABLE output

commandVars == <<runnerVars, output>>

CommandInit ==
    /\ RunnerInit
    /\ output = [status |-> "running", last_funding |-> Never, last_market |-> Never,
                 settlements |-> 0, decisions |-> 0]

\* a record is written as soon as the runner yields it; warmup yields none
Written ==
    IF last_time' < Start THEN output
    ELSE IF next_observation' # next_observation
    THEN [output EXCEPT !.last_funding = last_time', !.settlements = @ + 1]
    ELSE [output EXCEPT !.last_market = last_time',
                        !.decisions = IF decision' = "none" THEN @ ELSE @ + 1]

RunEvent ==
    /\ output.status = "running"
    /\ RunnerNext
    /\ output' = IF failure' # NoError THEN [output EXCEPT !.status = "error"] ELSE Written

\* fault: a study is complete with its last settlement
CompleteOnceSettled == output.last_funding = End - Cadence

Complete ==
    /\ output.last_funding = End - Cadence
    /\ output.last_market = End - 1

\* the manifest has no more events
ManifestEnds ==
    /\ output.status = "running"
    /\ output' = [output EXCEPT !.status = IF Complete THEN "complete" ELSE "incomplete_coverage"]
    /\ UNCHANGED runnerVars

CommandNext == RunEvent \/ ManifestEnds
CommandSpec == CommandInit /\ [][CommandNext]_commandVars
------------------------------------------------------------------------------
(* A footer that says complete is right: every settlement of the study was *)
(* accounted, each was followed by its decision, and what is still held    *)
(* was marked at the very end.  Two times in the footer stand for all of   *)
(* them, because the runner and the ledger let none pass (main; the        *)
(* runner's generator ends without an error wherever its events do).       *)
CompleteMeansCovered ==
    output.status = "complete" =>
        /\ output.settlements * Cadence = End - Start
        /\ output.decisions = output.settlements
        /\ last_time = End - 1 /\ ledger.last_funding = End - Cadence
==============================================================================
