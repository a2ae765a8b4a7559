--------------------------- MODULE EquityRecorder ---------------------------
(***************************************************************************)
(* backtest/equity_recorder.cpp: a thread that samples the position        *)
(* keeper's total profit while fills and prices arrive, and the summary    *)
(* that finalize makes of the samples.  Of a Sample only total_pnl, which  *)
(* the summary is computed from, is kept.                                  *)
(***************************************************************************)
EXTENDS PositionKeeper, Sequences, SequencesExt

CONSTANT MaxSamples  \* bound on the samples of run()

ASSUME MaxSamplesAssumption == MaxSamples \in Nat

VARIABLES
  run_,      \* EquityRecorder::run_
  samples_,
  summary    \* what finalize prints, << >> before it has run

equityVars == <<pnlVars, run_, samples_, summary>>

EquityInit ==
  /\ PnLInit
  /\ run_ = TRUE
  /\ samples_ = << >>
  /\ summary = << >>

Greater(m, n) == IF m > n THEN m ELSE n

(* TradeEngine's thread; it has ended when finalize is called. *)
TradeEngineStep ==
  /\ summary = << >>
  /\ PnLNext
  /\ UNCHANGED <<run_, samples_, summary>>

(* one round of EquityRecorder::run *)
sample ==
  /\ run_
  /\ Len(samples_) < MaxSamples
  /\ samples_' = Append(samples_, total_pnl_)
  /\ UNCHANGED <<pnlVars, run_, summary>>

(* the main thread, before it stops the other threads *)
stop ==
  /\ run_
  /\ run_' = FALSE
  /\ UNCHANGED <<pnlVars, samples_, summary>>

(* Mutant: the drawdown is measured before the peak is raised, from the start. *)
Mut_summarizeFromStart(samples) ==
  [final_pnl |-> samples[Len(samples)],
   peak_pnl |-> FoldLeft(Greater, 0, samples),
   max_drawdown |-> FoldLeft(LAMBDA d, s : Greater(d, -s), 0, samples)]

(* the loop of finalize over the samples *)
summarize(samples) ==
  LET loop[i \in 0 .. Len(samples)] ==
        IF i = 0 THEN [peak_pnl |-> 0, max_drawdown |-> 0]
        ELSE LET peak == Greater(loop[i - 1].peak_pnl, samples[i]) IN
             [peak_pnl |-> peak,
              max_drawdown |-> Greater(loop[i - 1].max_drawdown, peak - samples[i])]
      last == loop[Len(samples)]
  IN  [final_pnl |-> samples[Len(samples)],
       peak_pnl |-> last.peak_pnl, max_drawdown |-> last.max_drawdown]

finalize ==
  /\ ~run_
  /\ summary = << >>
  /\ samples_' = Append(samples_, total_pnl_)
  /\ summary' = <<summarize(samples_')>>
  /\ UNCHANGED <<pnlVars, run_>>

EquityNext == TradeEngineStep \/ sample \/ stop \/ finalize

EquitySpec == EquityInit /\ [][EquityNext]_equityVars

-----------------------------------------------------------------------------
(* Properties *)

(* The summary is right about the equity curve it was given, from an       *)
(* account that starts at 0: the drawdown is the largest fall from any     *)
(* earlier point to any later one, however the samples fell between fills, *)
(* and the final profit is that of the position keeper after the last fill.*)
SummaryOfTheCurve ==
  \A i \in DOMAIN summary :
    LET curve == <<0>> \o samples_
        largest(S, d) == d \in S /\ \A e \in S : e <= d
    IN
    /\ summary[i].final_pnl = total_pnl_
    /\ largest({ curve[j] : j \in DOMAIN curve }, summary[i].peak_pnl)
    /\ \E j, k \in DOMAIN curve : j <= k /\ summary[i].max_drawdown = curve[j] - curve[k]
    /\ \A j, k \in DOMAIN curve : j <= k => curve[j] - curve[k] <= summary[i].max_drawdown
=============================================================================
