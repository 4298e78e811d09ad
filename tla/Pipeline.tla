------------------------------ MODULE Pipeline ------------------------------
(***************************************************************************)
(* The pipeline of openfido.sh: run_gridlabd_main.py makes the baseline    *)
(* run, compiles the model and makes the simulation proper, with the Julia *)
(* server of module JuliaLink, and data_post_process.py works up what the  *)
(* recorders have left.  The script stops at the first command that fails  *)
(* (set -e).                                                               *)
(***************************************************************************)
EXTENDS JuliaLink, TimeSeries

CONSTANTS
  SimulationTimes,  \* the times recorded between STARTTIME and STOPTIME
  BaselineTimes     \* the same for BASELINESTARTTIME and BASELINESTOPTIME, any of these

\* A recorder writes its rows as time goes on.
Recorded(s) == s \in Seq(Nat) /\ \A i, j \in 1..Len(s) : i < j => s[i] < s[j]

ASSUME PipelineAssumption == Recorded(SimulationTimes) /\ \A b \in BaselineTimes : Recorded(b)

VARIABLES
  stage,      \* what the script is doing
  baselines,  \* baseline files written by this pipeline
  output      \* timeseries.csv of the output directory

pvars == <<vars, stage, baselines, output>>

Stages == {"inputs", "baseline", "solar", "loads", "compile", "convert", "simulation", "post",
           "deliver", "done", "failed"}
BaselineFiles == {"Ps_baseline", "Loads_baseline"}

PInit ==
  /\ Init
  /\ stage = "inputs"
  /\ baselines = {}
  /\ output = <<>>

\* A command that succeeds, or ends the script.
Step(from, to) ==
  /\ stage = from
  /\ stage' \in {to, "failed"}
  /\ UNCHANGED <<vars, output>>

CheckInputs == Step("inputs", "baseline") /\ UNCHANGED baselines

\* The driver fails when gridlabd.err is not empty.
RunBaseline == Step("baseline", "solar") /\ UNCHANGED baselines

\* (mutant) a missing file is caught, as timeseries_gen does.
WritePsIfThere ==
  /\ Step("solar", "loads") /\ stage' = "loads"
  /\ baselines' \in {baselines, baselines \cup {"Ps_baseline"}}

\* timeseries_persupernode: the solar power, then the loads of the supernodes.
WritePs ==
  /\ Step("solar", "loads")
  /\ baselines' = IF stage' = "failed" THEN baselines ELSE baselines \cup {"Ps_baseline"}

WriteLoads ==
  /\ Step("loads", "compile")
  /\ baselines' = IF stage' = "failed" THEN baselines ELSE baselines \cup {"Loads_baseline"}

Compile == Step("compile", "convert") /\ UNCHANGED baselines
Convert == Step("convert", "simulation") /\ UNCHANGED baselines

Simulate ==
  /\ stage = "simulation"
  /\ Next
  /\ UNCHANGED <<stage, baselines, output>>

\* GridLAB-D has returned; on_init or a callback that raised is in gridlabd.err.
EndSimulation ==
  /\ pc \in {"over", "failed"}
  /\ Step("simulation", "post")
  /\ pc = "failed" => stage' = "failed"
  /\ UNCHANGED baselines

\* What the recorders may have left: each its rows from the first on, or nothing.
Beginnings(s) == {SubSeq(s, 1, k) : k \in 0..Len(s)}
Recordings ==
  [generation : Beginnings(SimulationTimes), total_load : Beginnings(SimulationTimes),
   hvac : Beginnings(SimulationTimes), wh : Beginnings(SimulationTimes),
   has_baseline : BOOLEAN, baseline : BaselineTimes]

\* log_gen catches everything; timeseries_gen may raise with its file half written.
PostProcess(f) ==
  /\ stage = "post"
  /\ output' = IF Raises(f) THEN output ELSE Written(f)
  /\ stage' = IF Raises(f) THEN "failed" ELSE "deliver"
  /\ UNCHANGED <<vars, baselines>>

\* The files are copied one by one; with no *.txt to move the script fails after all.
Deliver == Step("deliver", "done") /\ UNCHANGED baselines

\* The script has ended, or waits for a simulation that waits for a dead server or
\* searches a ring for ever.
Waits ==
  \/ pc = "waiting" /\ toClient = <<>> /\ server = "dead"
  \/ pc = "hung"
ScriptOver ==
  /\ stage \in {"done", "failed"} \/ Waits
  /\ UNCHANGED pvars

PNext ==
  \/ CheckInputs \/ RunBaseline \/ WritePs \/ WriteLoads \/ Compile \/ Convert
  \/ Simulate \/ EndSimulation
  \/ \E f \in Recordings : PostProcess(f)
  \/ Deliver
  \/ ScriptOver

\* Every process that can go on does, and GridLAB-D reaches its stop time.
PSpec == PInit /\ [][PNext]_pvars /\ WF_pvars(PNext)

-----------------------------------------------------------------------------
(* Properties.                                                             *)

\* The server is only started when this pipeline has written both baseline files
\* it is going to read, and not with one of them, or with one that came with the
\* inputs: on_init looks at Loads_baseline.csv alone.
ServerHasBaseline ==
  server \in {"loading", "listening", "working"} => baselines = BaselineFiles

\* timeseries_gen joins by position files of two runs with times of their own, any
\* of which may be missing or cut short.  What it finishes has rows of one time.
SeriesAligned ==
  stage \in {"deliver", "done"} => \A k \in 1..Len(output) : Aligned(output[k])

\* The script comes to an end, unless the simulation waits for a server that died,
\* or has gone into a search for loads to shut off that has no end.
PipelineEnds == <>(stage \in {"done", "failed"} \/ Waits)
=============================================================================
