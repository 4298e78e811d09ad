-------------------------- MODULE IslandManagement --------------------------
(***************************************************************************)
(* The generation of one island: the plan manage_island                    *)
(* (packetized/island_management.jl) makes at every t_inc-th minute, what  *)
(* island_management (absorption.py) carries out of it, and                *)
(* check_power_balance, which after every commit lets one battery of the   *)
(* island make up for what the virtual battery does differently.           *)
(*                                                                         *)
(* Powers are whole numbers; a battery that charges is positive in the     *)
(* plan and negative in GridLAB-D.  A commit comes with every row of the   *)
(* baseline.  The linear program is any point of its power constraints, or *)
(* the zeros of a run without solution: energies only narrow the choice.   *)
(* Solar inverters follow the plan and are left out.  Which islands there  *)
(* are, and load shedding, is module AbsorptionControl; what the virtual   *)
(* battery makes of its setpoint is module VirtualBattery.                 *)
(***************************************************************************)
EXTENDS Integers, Sequences, FiniteSetsExt, Functions

CONSTANTS
  Battery,        \* the batteries of the island, each with its inverter
  ChargeRate,     \* max_charge_rate of the inverters
  DischargeRate,  \* max_discharge_rate
  Baselines,      \* what load_baseline-... and solar_baseline-... may hold
  TInc,           \* t_inc in rows of the baseline
  ManageEvery,    \* t_manage in commits
  Err,            \* err = 15 kW
  MaxVBload,      \* the most a virtual battery may draw (bounds the model)
  MaxPower,       \* the largest power or difference (bounds the model)
  MaxTime         \* STOPTIME in commits (bounds the model)

Row == [nf : Nat, flex : Nat, solar : Nat]

ASSUME ManagementAssumption ==
  /\ IsFiniteSet(Battery)
  /\ ChargeRate \in [Battery -> Nat]
  /\ DischargeRate \in [Battery -> Nat]
  /\ Baselines \subseteq Seq(Row)
  /\ TInc \in Nat \ {0} /\ ManageEvery \in Nat \ {0}
  /\ Err \in Nat /\ MaxVBload \in Nat /\ MaxPower \in Nat /\ MaxTime \in Nat

\* The plan takes max_charge_rate for the limit both ways; the inverters of the
\* example model have one rate for both.
ASSUME RateAssumption == \A b \in Battery : ChargeRate[b] <= DischargeRate[b]

VARIABLES
  baseline,  \* the baseline files of the island
  clock,     \* number of the commit being run or coming next
  phase,     \* where on_commit is
  formed,    \* the island is one of the islands there are
  P_Out,     \* what the inverters were last set to
  powerbal,  \* powerbal[tuple(island)]
  managed,   \* history: island_management has planned it since it formed
  plan       \* history: the last plan, and the commit that made it

vars == <<baseline, clock, phase, formed, P_Out, powerbal, managed, plan>>

InRates(p) == \A b \in Battery : p[b] \in -ChargeRate[b]..DischargeRate[b]
Powers == [Battery -> Int]
Off == [b \in Battery |-> 0]
NoRecord == [known |-> FALSE, solarP |-> 0, nfload |-> 0, VBload |-> 0, battP |-> Off]
NoPlan == [at |-> 0, row |-> [nf |-> 0, flex |-> 0, solar |-> 0], vb |-> 0, solved |-> FALSE]

Init ==
  /\ baseline \in Baselines
  /\ clock = 0 /\ phase = "commit"
  /\ formed = FALSE
  /\ P_Out = Off
  /\ powerbal = NoRecord
  /\ managed = FALSE
  /\ plan = NoPlan

-----------------------------------------------------------------------------
(* The faults of a commit.                                                 *)

\* The island is not among those there are at this commit.  Its batteries may be
\* shut off with a faulted node, or managed as part of other islands; its record
\* stays.
Elsewhere ==
  /\ phase = "commit" /\ clock <= MaxTime
  /\ P_Out' \in {p \in [Battery -> -MaxPower..MaxPower] : InRates(p)}
  /\ formed' = FALSE /\ managed' = FALSE
  /\ clock' = clock + 1
  /\ UNCHANGED <<baseline, phase, powerbal, plan>>

\* It is, for the first time or again, or still.
Form ==
  /\ phase = "commit" /\ clock <= MaxTime
  /\ formed' = TRUE
  /\ phase' = "manage"
  /\ UNCHANGED <<baseline, clock, P_Out, powerbal, managed, plan>>

-----------------------------------------------------------------------------
(* The plan.                                                               *)

\* (mutant) the day begins after t0.
RotatedLate(b, t0) == SubSeq(b, t0 + 1, Len(b)) \o SubSeq(b, 1, t0)

\* t0 to the end of the day, then the start of the day to t0.
Rotated(b, t0) == SubSeq(b, t0, Len(b)) \o SubSeq(b, 1, t0 - 1)

\* [1:t_inc:end]
EveryTInc(rows) == [k \in 1..((Len(rows) - 1) \div TInc) + 1 |-> rows[(k - 1) * TInc + 1]]

Horizon(t0) == EveryTInc(Rotated(baseline, t0))

\* t0 is no timestamp of the baseline, or the horizon has no second time step.
NoHorizon(t0) == t0 <= Len(baseline) => Len(Horizon(t0)) < 2

Total(p) == SumFunction(p)

BatteryPlans ==
  {p \in [Battery -> -MaxPower..MaxPower] :
     \A b \in Battery : p[b] \in -ChargeRate[b]..ChargeRate[b]}

\* (mutant) without the limit of Dshed.
SolutionsAnyShed(row) ==
  {r \in [solved : {TRUE}, solar : 0..row.solar, shed : 0..row.nf + 1, vb : 0..2 * row.flex,
          batt : BatteryPlans] :
     r.solar = row.nf - r.shed + r.vb + Total(r.batt)}

\* What the constraints on the powers of one time step leave.
Solutions(row) ==
  {r \in [solved : {TRUE}, solar : 0..row.solar, shed : 0..row.nf, vb : 0..2 * row.flex,
          batt : BatteryPlans] :
     r.solar = row.nf - r.shed + r.vb + Total(r.batt)}
Unsolved == [solved |-> FALSE, solar |-> 0, shed |-> 0, vb |-> 0, batt |-> Off]

-----------------------------------------------------------------------------
(* Carrying it out.                                                        *)

\* (mutant) the sign of the optimization kept.
OutputAsPlanned(r) == r.batt

\* -float(results[c]): GridLAB-D takes discharging for positive.
Output(r) == [b \in Battery |-> -r.batt[b]]

ManagementDue == clock % ManageEvery = 0 /\ clock < MaxTime

\* The results are those of the second time step.
Manage(vbload) ==
  /\ phase = "manage" /\ ManagementDue
  /\ ~NoHorizon(clock + 1)
  /\ LET row == Horizon(clock + 1)[2]
     IN  \E r \in Solutions(row) \cup {Unsolved} :
           /\ P_Out' = Output(r)
           /\ powerbal' = [known |-> TRUE, solarP |-> r.solar, nfload |-> row.nf - r.shed,
                           VBload |-> vbload, battP |-> Output(r)]
           /\ plan' = [at |-> clock, row |-> row, vb |-> r.vb, solved |-> r.solved]
  /\ managed' = TRUE
  /\ phase' = "balance"
  /\ UNCHANGED <<baseline, clock, formed>>

\* findall(...)[1] or an index beyond the horizon ends the server, and the
\* simulation waits for its answer.
ServerEnds ==
  /\ phase = "manage" /\ ManagementDue
  /\ NoHorizon(clock + 1)
  /\ phase' = "hung"
  /\ UNCHANGED <<baseline, clock, formed, P_Out, powerbal, managed, plan>>

\* Between two managements: packets, then the balance of the record there is.
PacketizeOnly(vbload) ==
  /\ phase = "manage" /\ ~ManagementDue
  /\ powerbal.known
  /\ powerbal' = [powerbal EXCEPT !.VBload = vbload]
  /\ phase' = "balance"
  /\ UNCHANGED <<baseline, clock, formed, P_Out, managed, plan>>

\* powerbal has no such key: KeyError.
NeverManaged ==
  /\ phase = "manage" /\ ~ManagementDue
  /\ ~powerbal.known
  /\ phase' = "failed"
  /\ UNCHANGED <<baseline, clock, formed, P_Out, powerbal, managed, plan>>

-----------------------------------------------------------------------------
(* check_power_balance.                                                    *)

Demand == powerbal.nfload + powerbal.VBload
Supply == powerbal.solarP + Total(powerbal.battP)

\* (mutant) tests what the battery gives now.
CanDischargeNow(b, diff) == powerbal.battP[b] <= DischargeRate[b]
\* (mutant) not up to the limit.
CanChargeBelow(b, diff) == -ChargeRate[b] + diff < powerbal.battP[b]

CanDischarge(b, diff) == powerbal.battP[b] <= DischargeRate[b] - diff
CanCharge(b, diff) == -ChargeRate[b] + diff <= powerbal.battP[b]

\* (mutant) the record keeps the planned power.
SetPowerOnly(b, kW) ==
  /\ P_Out' = [P_Out EXCEPT ![b] = kW]
  /\ UNCHANGED powerbal

SetPower(b, kW) ==
  /\ P_Out' = [P_Out EXCEPT ![b] = kW]
  /\ powerbal' = [powerbal EXCEPT !.battP[b] = kW]

EndBalance ==
  /\ phase' = "commit"
  /\ clock' = clock + 1
  /\ UNCHANGED <<baseline, formed, managed, plan>>

InBalance ==
  /\ phase = "balance"
  /\ Supply \in Demand - Err..Demand + Err
  /\ EndBalance
  /\ UNCHANGED <<P_Out, powerbal>>

\* Of the shuffled batteries the first that can take the whole difference does.
TooMuchLoad(diff) ==
  /\ phase = "balance"
  /\ Supply + diff = Demand /\ diff > Err
  /\ \/ \E b \in Battery : CanDischarge(b, diff) /\ SetPower(b, powerbal.battP[b] + diff)
     \/ (\A b \in Battery : ~CanDischarge(b, diff)) /\ UNCHANGED <<P_Out, powerbal>>
  /\ EndBalance

TooMuchPower(diff) ==
  /\ phase = "balance"
  /\ Supply = Demand + diff /\ diff > Err
  /\ \/ \E b \in Battery : CanCharge(b, diff) /\ SetPower(b, powerbal.battP[b] - diff)
     \/ (\A b \in Battery : ~CanCharge(b, diff)) /\ UNCHANGED <<P_Out, powerbal>>
  /\ EndBalance

\* The stop time is past, or on_commit raised or waits for a server that ended.
SimulationOver ==
  /\ phase \in {"failed", "hung"} \/ clock > MaxTime
  /\ UNCHANGED vars

Next ==
  \/ Elsewhere \/ Form
  \/ \E vbload \in 0..MaxVBload : Manage(vbload) \/ PacketizeOnly(vbload)
  \/ ServerEnds \/ NeverManaged
  \/ InBalance
  \/ \E diff \in 1..MaxPower : TooMuchLoad(diff) \/ TooMuchPower(diff)
  \/ SimulationOver

Spec == Init /\ [][Next]_vars

-----------------------------------------------------------------------------
(* Properties.                                                             *)

Phases == {"commit", "manage", "balance", "failed", "hung"}

\* Every variable has the type of the Python value it stands for; the load the
\* record holds besides the virtual battery is not negative.
TypeOK ==
  /\ baseline \in Baselines
  /\ clock \in Nat /\ phase \in Phases
  /\ formed \in BOOLEAN /\ managed \in BOOLEAN
  /\ P_Out \in Powers
  /\ powerbal \in [known : BOOLEAN, solarP : Nat, nfload : Nat, VBload : Nat, battP : Powers]
  /\ plan \in [at : Nat, row : Row, vb : Nat, solved : BOOLEAN]

\* No inverter is ever asked for more than its rates, whatever sequence of plans,
\* corrections and stale records led there: check_power_balance tests the power
\* it has recorded, not the one the inverter is at.
RatesKept == InRates(P_Out)

\* check_power_balance adds to powerbal's idea of the batteries.  From the first
\* management of an island on, that is what their inverters are set to; before
\* it, in an island that has formed again, it need not be.
RecordAgrees == managed => powerbal.battP = P_Out

\* After the commit of a managed island its batteries and solar generation are
\* within err of its load, or no battery can take the whole difference: no
\* earlier commit, plan without solution or order of the shuffle leaves it
\* otherwise (absorption.py:707).
Surplus == powerbal.solarP + Total(P_Out) - powerbal.nfload - powerbal.VBload
BalancedOrStuck ==
  phase = "commit" /\ managed =>
    \/ Surplus \in -Err..Err
    \/ Surplus > Err /\ \A b \in Battery : P_Out[b] - Surplus < -ChargeRate[b]
    \/ Surplus < -Err /\ \A b \in Battery : P_Out[b] - Surplus > DischargeRate[b]

\* A plan looks one time step ahead: at the next management the virtual battery
\* has been following the baseline of just that time, and at the end of the
\* baseline that of its start.
PlanIsAhead ==
  managed /\ clock = plan.at + TInc =>
    plan.row = baseline[IF clock < Len(baseline) THEN clock + 1 ELSE clock + 1 - Len(baseline)]

\* A plan that was solved is a balance in GridLAB-D's signs too: what it leaves
\* to correct is what the virtual battery draws besides its setpoint.
PlanBalances ==
  phase = "balance" /\ plan.at = clock /\ managed /\ plan.solved =>
    Surplus = plan.vb - powerbal.VBload
=============================================================================
