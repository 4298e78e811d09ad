----------------------------- MODULE TimeSeries -----------------------------
(***************************************************************************)
(* timeseries_gen of data_post_process.py: the files the recorders of the  *)
(* simulation and of the baseline run have left are read row by row and    *)
(* put together by position into timeseries.csv.                           *)
(*                                                                         *)
(* A file is the sequence of the times of its rows, and a value stands for *)
(* the time it was recorded at: what matters is which rows come together.  *)
(* A recorder's file that is missing counts as empty.                      *)
(***************************************************************************)
EXTENDS Naturals, SequencesExt, FiniteSetsExt

\* (mutant) every row of the baseline run.
AllBaselineLoad(generation, baseline) == baseline

\* The rows of baseline.csv whose time is in the time series, after the first k rows.
BaselineLoad(generation, baseline) ==
  LET load[k \in 0..Len(baseline)] ==
        IF k = 0 THEN <<>>
        ELSE IF baseline[k] \in ToSet(generation) THEN Append(load[k - 1], baseline[k])
        ELSE load[k - 1]
  IN  load[Len(baseline)]

\* The energy metered is zero at the start of the run.
ZeroEnergy(baseline, t) == t = Head(baseline)

\* The unserved energy is a share of the last baseline value: there is none, or
\* it is zero.
NoShare(f) ==
  /\ f.has_baseline
  /\ LET base == BaselineLoad(f.generation, f.baseline)
     IN  base = <<>> \/ ZeroEnergy(f.baseline, Last(base))

Unserved(f) ==
  IF f.has_baseline THEN Zip(BaselineLoad(f.generation, f.baseline), f.total_load) ELSE <<>>

\* The rows that get written: up to the first that a column is too short for.
Written(f) ==
  LET flexible == Zip(f.hvac, f.wh)
      unserved == Unserved(f)
  IN  [k \in 1..Min({Len(f.generation), Len(f.total_load), Len(flexible), Len(unserved)}) |->
         [timestamp |-> f.generation[k], total_load |-> f.total_load[k],
          flexible_load |-> flexible[k], unserved_energy |-> unserved[k]]]

\* ZeroDivisionError or IndexError: only a missing file is caught.
Raises(f) == NoShare(f) \/ Len(Written(f)) < Len(f.generation)

\* What timeseries.csv is for: each row tells of one time throughout.
Aligned(row) ==
  /\ row.total_load = row.timestamp
  /\ row.flexible_load = <<row.timestamp, row.timestamp>>
  /\ row.unserved_energy = <<row.timestamp, row.timestamp>>
=============================================================================
