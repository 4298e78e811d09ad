----------------------- MODULE IslandManagementProofs -----------------------
(***************************************************************************)
(* Proofs about IslandManagement: inverters stay within their rates, the   *)
(* record of a managed island is what its inverters are set to, a plan is  *)
(* for the time of the next management and a balance when carried out, and *)
(* every commit leaves the island balanced or with no battery to balance   *)
(* it, for any batteries, rates, baselines and periods.                    *)
(***************************************************************************)
EXTENDS IslandManagement, SequenceTheorems, SumTheorems, TLAPS

\* The row of the baseline one time step after row t0, around its end.
RowAhead(b, t0) == b[IF t0 + TInc <= Len(b) THEN t0 + TInc ELSE t0 + TInc - Len(b)]

\* What keeps the properties: the record respects the rates as well, and the last
\* plan is that of the commit it was made at.
IInv ==
  /\ TypeOK
  /\ InRates(P_Out) /\ InRates(powerbal.battP)
  /\ RecordAgrees
  /\ managed => plan.row = RowAhead(baseline, plan.at + 1)
  /\ managed => plan.at + 1 <= Len(baseline)

-----------------------------------------------------------------------------
(* The horizon of manage_island.                                           *)

\* Rotating the baseline to t0 loses no row, and the row n after the first is the
\* one n after t0.
LEMMA RotatedRows ==
  ASSUME NEW b \in Seq(Row), NEW t0 \in 1..Len(b)
  PROVE  /\ Rotated(b, t0) \in Seq(Row)
         /\ Len(Rotated(b, t0)) = Len(b)
         /\ \A n \in 1..Len(b) :
              Rotated(b, t0)[n] = b[IF t0 + n - 1 <= Len(b) THEN t0 + n - 1
                                    ELSE t0 + n - 1 - Len(b)]
<1> DEFINE rest == SubSeq(b, t0, Len(b))
           start == SubSeq(b, 1, t0 - 1)
<1>1. Len(b) \in Nat
  BY LenProperties
<1>2. /\ rest \in Seq(Row) /\ Len(rest) = Len(b) - t0 + 1
      /\ \A i \in 1..Len(b) - t0 + 1 : rest[i] = b[t0 + i - 1]
  BY <1>1, SubSeqProperties
<1>3. /\ start \in Seq(Row) /\ Len(start) = t0 - 1
      /\ \A i \in 1..t0 - 1 : start[i] = b[i]
  <2>1. CASE t0 = 1
    BY <1>1, <2>1, SubSeqProperties
  <2>2. CASE t0 > 1
    BY <1>1, <2>2, SubSeqProperties
  <2> QED
    BY <2>1, <2>2
<1>4. /\ rest \o start \in Seq(Row)
      /\ Len(rest \o start) = Len(rest) + Len(start)
      /\ \A i \in 1..Len(rest) + Len(start) :
           (rest \o start)[i] = IF i <= Len(rest) THEN rest[i] ELSE start[i - Len(rest)]
  BY <1>2, <1>3, ConcatProperties
<1>5. Rotated(b, t0) = rest \o start
  BY DEF Rotated
<1> HIDE DEF rest, start
<1>6. ASSUME NEW n \in 1..Len(b)
      PROVE  (rest \o start)[n] = b[IF t0 + n - 1 <= Len(b) THEN t0 + n - 1
                                    ELSE t0 + n - 1 - Len(b)]
  <2>1. CASE n <= Len(rest)
    <3>1. (rest \o start)[n] = rest[n]
      BY <1>1, <1>2, <1>3, <1>4, <2>1
    <3>2. rest[n] = b[t0 + n - 1] /\ t0 + n - 1 <= Len(b)
      BY <1>1, <1>2, <2>1
    <3> QED
      BY <3>1, <3>2
  <2>2. CASE n > Len(rest)
    <3>1. (rest \o start)[n] = start[n - Len(rest)]
      BY <1>1, <1>2, <1>3, <1>4, <2>2
    <3>2. /\ n - Len(rest) = t0 + n - 1 - Len(b) /\ ~(t0 + n - 1 <= Len(b))
          /\ n - Len(rest) \in 1..t0 - 1
      BY <1>1, <1>2, <2>2
    <3>3. start[n - Len(rest)] = b[n - Len(rest)]
      BY <1>3, <3>2
    <3> QED
      BY <3>1, <3>2, <3>3
  <2>3. n <= Len(rest) \/ n > Len(rest)
    BY <1>1, <1>2
  <2> QED
    BY <2>1, <2>2, <2>3, Zenon
<1> QED
  BY <1>1, <1>2, <1>3, <1>4, <1>5, <1>6

\* A quotient of at least one.
LEMMA Quotient ==
  ASSUME NEW n \in Nat, NEW d \in Nat \ {0}
  PROVE  n \div d \in Nat /\ (n \div d >= 1 => d <= n)
<1>1. CASE d <= n
  BY <1>1
<1>2. CASE n < d
  <2>1. n \div d = 0
    BY <1>2
  <2> QED
    BY <2>1
<1> QED
  BY <1>1, <1>2

\* A horizon of two steps has its second one TInc rows after t0.
LEMMA SecondStep ==
  ASSUME NEW t0 \in Nat \ {0}, baseline \in Seq(Row), ~NoHorizon(t0)
  PROVE  /\ t0 <= Len(baseline)
         /\ Horizon(t0)[2] = RowAhead(baseline, t0)
         /\ Horizon(t0)[2] \in Row
<1> USE ManagementAssumption
<1>1. t0 \in 1..Len(baseline) /\ ~(Len(Horizon(t0)) < 2)
  BY LenProperties DEF NoHorizon
<1> DEFINE rows == Rotated(baseline, t0)
           steps == ((Len(rows) - 1) \div TInc) + 1
<1>2. /\ rows \in Seq(Row) /\ Len(rows) = Len(baseline)
      /\ \A n \in 1..Len(baseline) :
           rows[n] = baseline[IF t0 + n - 1 <= Len(baseline) THEN t0 + n - 1
                              ELSE t0 + n - 1 - Len(baseline)]
  BY <1>1, RotatedRows
<1>3. Len(baseline) \in Nat \ {0}
  BY <1>1, LenProperties
<1>4. Horizon(t0) = [k \in 1..steps |-> rows[(k - 1) * TInc + 1]]
  BY DEF Horizon, EveryTInc
<1> HIDE DEF rows
<1>5. /\ (Len(rows) - 1) \div TInc \in Nat
      /\ (Len(rows) - 1) \div TInc >= 1 => TInc <= Len(rows) - 1
  <2>1. Len(rows) - 1 \in Nat /\ TInc \in Nat \ {0}
    BY <1>2, <1>3
  <2> QED
    BY <2>1, Quotient
<1>6. steps \in Nat
  BY <1>5
<1> HIDE DEF steps
<1>7. Len(Horizon(t0)) = steps
  BY <1>4, <1>6
<1>8. 2 \in 1..steps /\ TInc <= Len(baseline) - 1
  BY <1>1, <1>2, <1>5, <1>6, <1>7 DEF steps
<1>9. Horizon(t0)[2] = rows[TInc + 1]
  BY <1>4, <1>8
<1>10. TInc + 1 \in 1..Len(baseline)
  BY <1>3, <1>8
<1>11. rows[TInc + 1] = RowAhead(baseline, t0)
  <2> DEFINE n == TInc + 1
  <2>0. rows[n] = baseline[IF t0 + n - 1 <= Len(baseline) THEN t0 + n - 1
                           ELSE t0 + n - 1 - Len(baseline)]
    BY <1>2, <1>10, Zenon
  <2>1. CASE t0 + TInc <= Len(baseline)
    <3>1. rows[TInc + 1] = baseline[t0 + TInc]
      BY <1>3, <2>0, <2>1
    <3> QED
      BY <2>1, <3>1, Zenon DEF RowAhead
  <2>2. CASE ~(t0 + TInc <= Len(baseline))
    <3>1. rows[TInc + 1] = baseline[t0 + TInc - Len(baseline)]
      BY <1>3, <2>0, <2>2
    <3> QED
      BY <2>2, <3>1, Zenon DEF RowAhead
  <2> QED
    BY <2>1, <2>2
<1>12. rows[TInc + 1] \in Row
  BY <1>2, <1>10, ElementOfSeq
<1> QED
  BY <1>1, <1>9, <1>11, <1>12

-----------------------------------------------------------------------------
(* The invariant.                                                          *)

LEMMA InitInv == Init => IInv
<1> SUFFICES ASSUME Init PROVE IInv
  OBVIOUS
<1> USE ManagementAssumption
<1>1. Off \in Powers /\ InRates(Off)
  BY DEF Off, Powers, InRates
<1>2. NoRecord \in [known : BOOLEAN, solarP : Nat, nfload : Nat, VBload : Nat, battP : Powers]
  BY <1>1 DEF NoRecord
<1>3. NoPlan \in [at : Nat, row : Row, vb : Nat, solved : BOOLEAN]
  BY DEF NoPlan, Row
<1>4. TypeOK
  BY <1>1, <1>2, <1>3 DEF Init, TypeOK, Phases
<1>5. InRates(P_Out) /\ InRates(powerbal.battP)
  BY <1>1 DEF Init, NoRecord
<1> QED
  BY <1>4, <1>5 DEF Init, IInv, RecordAgrees

LEMMA FaultsInv ==
  ASSUME IInv, Elsewhere \/ Form
  PROVE  IInv'
<1>1. CASE Elsewhere
  <2>1. P_Out' \in Powers /\ InRates(P_Out')
    BY <1>1, ManagementAssumption DEF Elsewhere, Powers
  <2>2. TypeOK'
    <3>1. clock' \in Nat
      BY <1>1 DEF IInv, Elsewhere, TypeOK
    <3>2. formed' \in BOOLEAN /\ managed' \in BOOLEAN
      BY <1>1, Zenon DEF Elsewhere
    <3>3. UNCHANGED <<baseline, phase, powerbal, plan>>
      BY <1>1 DEF Elsewhere
    <3> QED
      BY <2>1, <3>1, <3>2, <3>3 DEF IInv, TypeOK, Phases
  <2>3. InRates(powerbal.battP) /\ powerbal' = powerbal /\ managed' = FALSE
    BY <1>1 DEF IInv, Elsewhere
  <2> QED
    BY <2>1, <2>2, <2>3 DEF IInv, InRates, RecordAgrees
<1>2. CASE Form
  BY <1>2 DEF IInv, Form, TypeOK, Phases, InRates, RecordAgrees, RowAhead
<1> QED
  BY <1>1, <1>2

\* What is carried out is within the rates the optimization was given.
LEMMA OutputInRates ==
  ASSUME NEW row \in Row, NEW r \in Solutions(row) \cup {Unsolved}
  PROVE  /\ Output(r) \in Powers /\ InRates(Output(r))
         /\ r.solar \in Nat /\ row.nf - r.shed \in Nat /\ r.vb \in Nat /\ r.solved \in BOOLEAN
<1>1. CASE r = Unsolved
  BY <1>1, ManagementAssumption DEF Unsolved, Off, Output, Powers, InRates, Row
<1>2. CASE r \in Solutions(row)
  <2>1. /\ r.solved \in BOOLEAN /\ r.solar \in 0..row.solar /\ r.shed \in 0..row.nf
        /\ r.vb \in 0..2 * row.flex
        /\ r.batt \in BatteryPlans
    BY <1>2 DEF Solutions
  <2>2. \A b \in Battery : r.batt[b] \in -ChargeRate[b]..ChargeRate[b]
    BY <2>1 DEF BatteryPlans
  <2>3. Output(r) \in Powers /\ InRates(Output(r))
    BY <2>2, ManagementAssumption, RateAssumption DEF Output, Powers, InRates
  <2> QED
    BY <2>1, <2>3 DEF Row
<1> QED
  BY <1>1, <1>2

LEMMA ManageInv ==
  ASSUME IInv, NEW vbload \in 0..MaxVBload, Manage(vbload)
  PROVE  IInv'
<1>1. clock \in Nat /\ baseline \in Seq(Row) /\ ~NoHorizon(clock + 1)
  BY ManagementAssumption DEF IInv, TypeOK, Manage
<1> DEFINE row == Horizon(clock + 1)[2]
<1>2. clock + 1 <= Len(baseline) /\ row = RowAhead(baseline, clock + 1) /\ row \in Row
  BY <1>1, SecondStep
<1>3. PICK r \in Solutions(row) \cup {Unsolved} :
        /\ P_Out' = Output(r)
        /\ powerbal' = [known |-> TRUE, solarP |-> r.solar, nfload |-> row.nf - r.shed,
                        VBload |-> vbload, battP |-> Output(r)]
        /\ plan' = [at |-> clock, row |-> row, vb |-> r.vb, solved |-> r.solved]
  BY DEF Manage
<1> HIDE DEF row
<1>4. /\ Output(r) \in Powers /\ InRates(Output(r))
      /\ r.solar \in Nat /\ row.nf - r.shed \in Nat /\ r.vb \in Nat /\ r.solved \in BOOLEAN
  BY <1>2, OutputInRates
<1>5. TypeOK'
  BY <1>1, <1>2, <1>3, <1>4, ManagementAssumption DEF Manage, IInv, TypeOK, Phases
<1>6. InRates(P_Out') /\ InRates(powerbal'.battP) /\ RecordAgrees'
  BY <1>3, <1>4 DEF RecordAgrees
<1>7. /\ plan'.row = RowAhead(baseline', plan'.at + 1)
      /\ plan'.at + 1 <= Len(baseline')
  BY <1>2, <1>3 DEF Manage, RowAhead
<1> QED
  BY <1>5, <1>6, <1>7 DEF IInv, InRates

LEMMA PacketsInv ==
  ASSUME IInv,
         \/ ServerEnds \/ NeverManaged \/ InBalance
         \/ \E vbload \in 0..MaxVBload : PacketizeOnly(vbload)
  PROVE  IInv'
<1>1. CASE ServerEnds \/ NeverManaged
  BY <1>1
  DEF IInv, ServerEnds, NeverManaged, TypeOK, Phases, InRates, RecordAgrees, RowAhead
<1>2. CASE InBalance
  BY <1>2
  DEF IInv, InBalance, EndBalance, TypeOK, Phases, InRates, RecordAgrees, RowAhead
<1>3. ASSUME NEW vbload \in 0..MaxVBload, PacketizeOnly(vbload)
      PROVE  IInv'
  <2>1. vbload \in Nat
    BY ManagementAssumption
  <2>2. powerbal' = [powerbal EXCEPT !.VBload = vbload]
    BY <1>3 DEF PacketizeOnly
  <2>3. powerbal \in [known : BOOLEAN, solarP : Nat, nfload : Nat, VBload : Nat, battP : Powers]
    BY DEF IInv, TypeOK
  <2>4. /\ powerbal' \in [known : BOOLEAN, solarP : Nat, nfload : Nat, VBload : Nat, battP : Powers]
        /\ powerbal'.battP = powerbal.battP
    BY <2>1, <2>2, <2>3
  <2>5. TypeOK'
    BY <1>3, <2>4 DEF IInv, TypeOK, PacketizeOnly, Phases
  <2> QED
    BY <1>3, <2>4, <2>5 DEF IInv, InRates, RecordAgrees, PacketizeOnly, RowAhead
<1> QED
  BY <1>1, <1>2, <1>3

\* Setting a battery to a power within its rates, in the simulator and the record.
LEMMA SetPowerInv ==
  ASSUME IInv, EndBalance,
         NEW b \in Battery, NEW kW \in -ChargeRate[b]..DischargeRate[b], SetPower(b, kW)
  PROVE  IInv'
<1>1. kW \in Int
  BY ManagementAssumption
<1>2. /\ P_Out' = [P_Out EXCEPT ![b] = kW]
      /\ powerbal' = [powerbal EXCEPT !.battP = [powerbal.battP EXCEPT ![b] = kW]]
  BY DEF SetPower
<1>3. /\ powerbal \in [known : BOOLEAN, solarP : Nat, nfload : Nat, VBload : Nat, battP : Powers]
      /\ P_Out \in Powers
  BY DEF IInv, TypeOK
<1>4. powerbal'.battP = [powerbal.battP EXCEPT ![b] = kW]
  BY <1>2, <1>3
<1>5. P_Out' \in Powers /\ powerbal'.battP \in Powers
  BY <1>1, <1>2, <1>3, <1>4 DEF Powers
<1>6. powerbal' \in [known : BOOLEAN, solarP : Nat, nfload : Nat, VBload : Nat, battP : Powers]
  BY <1>2, <1>3, <1>4, <1>5
<1>7. TypeOK'
  BY <1>5, <1>6 DEF IInv, TypeOK, EndBalance, Phases
<1>8. InRates(P_Out') /\ InRates(powerbal'.battP)
  BY <1>2, <1>3, <1>4 DEF IInv, InRates, Powers
<1>9. RecordAgrees'
  BY <1>2, <1>4 DEF IInv, RecordAgrees, EndBalance
<1> QED
  BY <1>7, <1>8, <1>9 DEF IInv, InRates, EndBalance, RowAhead

\* A correction by a battery that can take it, or none.
LEMMA BalanceInv ==
  ASSUME IInv, NEW diff \in 1..MaxPower, TooMuchLoad(diff) \/ TooMuchPower(diff)
  PROVE  IInv'
<1> USE ManagementAssumption
<1>1. \A b \in Battery : powerbal.battP[b] \in -ChargeRate[b]..DischargeRate[b]
  BY DEF IInv, InRates
<1>2. EndBalance
  BY DEF TooMuchLoad, TooMuchPower
<1>3. CASE UNCHANGED <<P_Out, powerbal>>
  BY <1>2, <1>3 DEF IInv, EndBalance, TypeOK, Phases, InRates, RecordAgrees, RowAhead
<1>4. ASSUME NEW b \in Battery, CanDischarge(b, diff), SetPower(b, powerbal.battP[b] + diff)
      PROVE  IInv'
  <2>1. powerbal.battP[b] + diff \in -ChargeRate[b]..DischargeRate[b]
    BY <1>1, <1>4 DEF CanDischarge
  <2> QED
    BY <1>2, <1>4, <2>1, SetPowerInv
<1>5. ASSUME NEW b \in Battery, CanCharge(b, diff), SetPower(b, powerbal.battP[b] - diff)
      PROVE  IInv'
  <2>1. powerbal.battP[b] - diff \in -ChargeRate[b]..DischargeRate[b]
    BY <1>1, <1>5 DEF CanCharge
  <2> QED
    BY <1>2, <1>5, <2>1, SetPowerInv
<1> QED
  BY <1>3, <1>4, <1>5 DEF TooMuchLoad, TooMuchPower

LEMMA NextInv == IInv /\ [Next]_vars => IInv'
<1> SUFFICES ASSUME IInv, [Next]_vars PROVE IInv'
  OBVIOUS
<1>1. CASE Elsewhere \/ Form
  BY <1>1, FaultsInv
<1>2. ASSUME NEW vbload \in 0..MaxVBload, Manage(vbload)
      PROVE  IInv'
  BY <1>2, ManageInv
<1>3. CASE \/ ServerEnds \/ NeverManaged \/ InBalance
           \/ \E vbload \in 0..MaxVBload : PacketizeOnly(vbload)
  BY <1>3, PacketsInv
<1>4. ASSUME NEW diff \in 1..MaxPower, TooMuchLoad(diff) \/ TooMuchPower(diff)
      PROVE  IInv'
  BY <1>4, BalanceInv
<1>5. CASE SimulationOver \/ UNCHANGED vars
  BY <1>5
  DEF SimulationOver, vars, IInv, TypeOK, Phases, InRates, RecordAgrees, RowAhead
<1> QED
  BY <1>1, <1>2, <1>3, <1>4, <1>5 DEF Next

THEOREM Invariance == Spec => []IInv
  BY InitInv, NextInv, PTL DEF Spec

-----------------------------------------------------------------------------
(* The properties.                                                         *)

\* Every variable keeps the type of the Python value it stands for; the load
\* recorded besides the virtual battery's is never negative.
THEOREM TypeCorrect == Spec => []TypeOK
<1>1. IInv => TypeOK
  BY DEF IInv
<1> QED
  BY <1>1, Invariance, PTL

\* No inverter is asked for more than its rates by plans, corrections and stale
\* records, as long as max_charge_rate is at most max_discharge_rate.
THEOREM InvertersWithinRates == Spec => []RatesKept
<1>1. IInv => RatesKept
  BY DEF IInv, RatesKept
<1> QED
  BY <1>1, Invariance, PTL

\* Once an island is managed, powerbal holds what its inverters are set to.
THEOREM RecordsAgree == Spec => []RecordAgrees
<1>1. IInv => RecordAgrees
  BY DEF IInv
<1> QED
  BY <1>1, Invariance, PTL

\* The rotation and the subsampling of manage_island find the row of the baseline
\* for the time of the next management, for every baseline, start and t_inc.
THEOREM PlansAreAhead == Spec => []PlanIsAhead
<1>1. IInv => PlanIsAhead
  <2> SUFFICES ASSUME IInv, managed, clock = plan.at + TInc
               PROVE  plan.row = baseline[IF clock < Len(baseline) THEN clock + 1
                                          ELSE clock + 1 - Len(baseline)]
    BY DEF PlanIsAhead
  <2>1. plan.row = RowAhead(baseline, plan.at + 1) /\ baseline \in Seq(Row)
    BY ManagementAssumption DEF IInv, TypeOK
  <2>2. Len(baseline) \in Nat /\ plan.at \in Nat /\ TInc \in Nat
    BY <2>1, LenProperties, ManagementAssumption DEF IInv, TypeOK
  <2> QED
    BY <2>1, <2>2 DEF RowAhead
<1> QED
  BY <1>1, Invariance, PTL

-----------------------------------------------------------------------------
(* The balance.                                                            *)

\* What keeps the balance: a plan is judged at the commit it was made at only.
BalInv ==
  /\ BalancedOrStuck
  /\ PlanBalances
  /\ managed /\ phase = "balance" => plan.at <= clock
  /\ managed /\ phase \in {"commit", "manage"} => plan.at < clock

\* The power of the batteries together is a whole number; it is that of the set of
\* batteries.
LEMMA TotalType ==
  ASSUME NEW p \in Powers
  PROVE  Total(p) \in Int /\ Total(p) = SumFunctionOnSet(p, Battery)
<1>1. Total(p) = SumFunctionOnSet(p, Battery)
  BY DEF Total, SumFunction, Powers
<1>2. SumFunctionOnSet(p, Battery) \in Int
  BY SumType, ManagementAssumption DEF Powers
<1> QED
  BY <1>1, <1>2

\* Setting one battery changes the power of all by the difference.
LEMMA TotalUpdate ==
  ASSUME NEW p \in Powers, NEW b \in Battery, NEW kW \in Int
  PROVE  Total([p EXCEPT ![b] = kW]) = Total(p) - p[b] + kW
<1> DEFINE q == [p EXCEPT ![b] = kW]
<1>1. q \in Powers /\ q[b] = kW /\ \A c \in Battery : c # b => q[c] = p[c]
  BY DEF Powers
<1>2. IsFiniteSet(Battery) /\ \A c \in Battery : p[c] \in Int
  BY ManagementAssumption DEF Powers
<1>3. q[b] \in Int
  BY <1>1
<1> HIDE DEF q
<1>4. SumFunctionOnSet(q, Battery) = SumFunctionOnSet(p, Battery) - p[b] + q[b]
  BY <1>1, <1>2, <1>3, SumUpdate
<1>5. Total(q) = Total(p) - p[b] + kW
  BY <1>1, <1>4, TotalType
<1> QED
  BY <1>5 DEF q

\* A solution, carried out, has its surplus in the setpoint of the virtual battery.
LEMMA SolutionBalances ==
  ASSUME NEW row \in Row, NEW r \in Solutions(row)
  PROVE  r.solar + Total(Output(r)) - (row.nf - r.shed) = r.vb
<1>1. /\ r.solar = row.nf - r.shed + r.vb + Total(r.batt)
      /\ r.solar \in Nat /\ r.shed \in Nat /\ r.vb \in Nat /\ row.nf \in Nat
      /\ r.batt \in BatteryPlans
  BY DEF Solutions, Row
<1>2. r.batt \in Powers /\ Output(r) \in Powers
  BY <1>1 DEF BatteryPlans, Powers, Output
<1>3. \A b \in Battery : r.batt[b] \in Int /\ Output(r)[b] = -r.batt[b]
  BY <1>2 DEF Output, Powers
<1>4. SumFunctionOnSet(Output(r), Battery) = -SumFunctionOnSet(r.batt, Battery)
  BY <1>3, SumOpposite, ManagementAssumption
<1>5. Total(Output(r)) = -Total(r.batt) /\ Total(r.batt) \in Int
  BY <1>2, <1>4, TotalType
<1> QED
  BY <1>1, <1>5

LEMMA InitBal == Init => BalInv
  BY DEF Init, BalInv, BalancedOrStuck, PlanBalances

LEMMA FaultsBal ==
  ASSUME IInv, BalInv, Elsewhere \/ Form
  PROVE  BalInv'
<1>1. CASE Elsewhere
  BY <1>1 DEF BalInv, BalancedOrStuck, PlanBalances, Elsewhere
<1>2. CASE Form
  BY <1>2 DEF BalInv, BalancedOrStuck, PlanBalances, Form
<1> QED
  BY <1>1, <1>2

LEMMA ManageBal ==
  ASSUME IInv, BalInv, NEW vbload \in 0..MaxVBload, Manage(vbload)
  PROVE  BalInv'
<1>1. clock \in Nat /\ baseline \in Seq(Row) /\ ~NoHorizon(clock + 1)
  BY ManagementAssumption DEF IInv, TypeOK, Manage
<1> DEFINE row == Horizon(clock + 1)[2]
<1>2. row \in Row
  BY <1>1, SecondStep
<1>3. PICK r \in Solutions(row) \cup {Unsolved} :
        /\ P_Out' = Output(r)
        /\ powerbal' = [known |-> TRUE, solarP |-> r.solar, nfload |-> row.nf - r.shed,
                        VBload |-> vbload, battP |-> Output(r)]
        /\ plan' = [at |-> clock, row |-> row, vb |-> r.vb, solved |-> r.solved]
  BY DEF Manage
<1>4. phase' = "balance" /\ clock' = clock
  BY DEF Manage
<1> HIDE DEF row
<1>5. plan'.solved => Surplus' = plan'.vb - powerbal'.VBload
  <2> SUFFICES ASSUME r.solved PROVE Surplus' = plan'.vb - powerbal'.VBload
    BY <1>3
  <2>1. r \in Solutions(row)
    BY DEF Unsolved
  <2>2. r.solar + Total(Output(r)) - (row.nf - r.shed) = r.vb
    BY <1>2, <2>1, SolutionBalances
  <2>3. Surplus' = r.solar + Total(Output(r)) - (row.nf - r.shed) - vbload
    BY <1>3 DEF Surplus, Total
  <2>4. /\ r.solar \in Int /\ row.nf - r.shed \in Int /\ vbload \in Int /\ r.vb \in Int
        /\ Total(Output(r)) \in Int
    BY <1>2, OutputInRates, TotalType, ManagementAssumption
  <2>5. Surplus' = r.vb - vbload
    BY <2>2, <2>3, <2>4
  <2> QED
    BY <1>3, <2>5
<1>6. plan'.at = clock'
  BY <1>3, <1>4
<1> QED
  BY <1>1, <1>4, <1>5, <1>6 DEF BalInv, BalancedOrStuck, PlanBalances

LEMMA PacketsBal ==
  ASSUME IInv, BalInv,
         \/ ServerEnds \/ NeverManaged
         \/ \E vbload \in 0..MaxVBload : PacketizeOnly(vbload)
  PROVE  BalInv'
<1>1. clock \in Nat /\ (managed => plan.at \in Nat)
  BY DEF IInv, TypeOK
<1>2. CASE ServerEnds \/ NeverManaged
  BY <1>2 DEF BalInv, BalancedOrStuck, PlanBalances, ServerEnds, NeverManaged
<1>3. ASSUME NEW vbload \in 0..MaxVBload, PacketizeOnly(vbload)
      PROVE  BalInv'
  BY <1>1, <1>3 DEF BalInv, BalancedOrStuck, PlanBalances, PacketizeOnly
<1> QED
  BY <1>2, <1>3

\* check_power_balance of a managed island, from the record it reads.
LEMMA CheckBal ==
  ASSUME IInv, BalInv,
         InBalance \/ \E diff \in 1..MaxPower : TooMuchLoad(diff) \/ TooMuchPower(diff)
  PROVE  BalInv'
<1>1. phase = "balance" /\ EndBalance
  BY DEF InBalance, TooMuchLoad, TooMuchPower
<1>2. clock \in Nat /\ clock' = clock + 1 /\ phase' = "commit" /\ managed' = managed /\ plan' = plan
  BY <1>1 DEF EndBalance, IInv, TypeOK
<1>3. managed' => plan'.at < clock'
  BY <1>1, <1>2 DEF BalInv, IInv, TypeOK
<1> SUFFICES ASSUME managed PROVE BalancedOrStuck'
  BY <1>2, <1>3 DEF BalInv, PlanBalances, BalancedOrStuck
<1>4. /\ powerbal \in [known : BOOLEAN, solarP : Nat, nfload : Nat, VBload : Nat, battP : Powers]
      /\ powerbal.battP = P_Out /\ P_Out \in Powers
  BY DEF IInv, TypeOK, RecordAgrees
<1>5. /\ \A b \in Battery : P_Out[b] \in Int /\ ChargeRate[b] \in Nat /\ DischargeRate[b] \in Nat
      /\ Err \in Nat /\ MaxPower \in Nat
  BY <1>4, ManagementAssumption DEF Powers
<1>6. Total(P_Out) \in Int
  BY <1>4, TotalType
<1>7. Supply - Demand = Surplus /\ Supply \in Int /\ Demand \in Int /\ Surplus \in Int
  BY <1>4, <1>6 DEF Supply, Demand, Surplus
\* A battery takes the whole difference.
<1>8. ASSUME NEW b \in Battery, NEW kW \in Int, SetPower(b, kW), kW - P_Out[b] = -Surplus
      PROVE  Surplus' = 0
  <2>1. P_Out' = [P_Out EXCEPT ![b] = kW]
    BY <1>8 DEF SetPower
  <2>2. Total(P_Out') = Total(P_Out) - P_Out[b] + kW
    BY <1>4, <2>1, TotalUpdate
  <2>3. powerbal' = [powerbal EXCEPT !.battP = [powerbal.battP EXCEPT ![b] = kW]]
    BY <1>8 DEF SetPower
  <2>4. /\ powerbal'.solarP = powerbal.solarP /\ powerbal'.nfload = powerbal.nfload
        /\ powerbal'.VBload = powerbal.VBload
    BY <1>4, <2>3
  <2>5. Surplus' = powerbal.solarP + Total(P_Out') - powerbal.nfload - powerbal.VBload
    BY <2>4 DEF Surplus, Total
  <2> QED
    BY <1>4, <1>5, <1>6, <1>8, <2>2, <2>5 DEF Surplus
<1>9. CASE InBalance
  <2>1. Surplus \in -Err..Err /\ UNCHANGED <<P_Out, powerbal>>
    BY <1>5, <1>7, <1>9 DEF InBalance
  <2> QED
    BY <2>1 DEF BalancedOrStuck, Surplus, Total
<1>10. ASSUME NEW diff \in 1..MaxPower, TooMuchLoad(diff)
       PROVE  BalancedOrStuck'
  <2>1. Surplus = -diff /\ diff > Err /\ diff \in Nat
    BY <1>5, <1>7, <1>10 DEF TooMuchLoad
  <2>2. ASSUME NEW b \in Battery, SetPower(b, powerbal.battP[b] + diff)
        PROVE  BalancedOrStuck'
    <3> DEFINE kW == powerbal.battP[b] + diff
    <3>1. kW \in Int /\ kW - P_Out[b] = -Surplus /\ SetPower(b, kW)
      BY <1>4, <1>5, <2>1, <2>2
    <3> HIDE DEF kW
    <3>2. Surplus' = 0
      BY <1>8, <3>1, Zenon
    <3> QED
      BY <1>5, <3>2 DEF BalancedOrStuck
  <2>3. CASE (\A b \in Battery : ~CanDischarge(b, diff)) /\ UNCHANGED <<P_Out, powerbal>>
    <3>1. \A b \in Battery : P_Out[b] - Surplus > DischargeRate[b]
      BY <1>4, <1>5, <2>1, <2>3 DEF CanDischarge
    <3>2. Surplus' = Surplus
      BY <2>3 DEF Surplus, Total
    <3> QED
      BY <1>5, <2>1, <2>3, <3>1, <3>2 DEF BalancedOrStuck
  <2> QED
    BY <1>10, <2>2, <2>3 DEF TooMuchLoad
<1>11. ASSUME NEW diff \in 1..MaxPower, TooMuchPower(diff)
       PROVE  BalancedOrStuck'
  <2>1. Surplus = diff /\ diff > Err /\ diff \in Nat
    BY <1>5, <1>7, <1>11 DEF TooMuchPower
  <2>2. ASSUME NEW b \in Battery, SetPower(b, powerbal.battP[b] - diff)
        PROVE  BalancedOrStuck'
    <3> DEFINE kW == powerbal.battP[b] - diff
    <3>1. kW \in Int /\ kW - P_Out[b] = -Surplus /\ SetPower(b, kW)
      BY <1>4, <1>5, <2>1, <2>2
    <3> HIDE DEF kW
    <3>2. Surplus' = 0
      BY <1>8, <3>1, Zenon
    <3> QED
      BY <1>5, <3>2 DEF BalancedOrStuck
  <2>3. CASE (\A b \in Battery : ~CanCharge(b, diff)) /\ UNCHANGED <<P_Out, powerbal>>
    <3>1. \A b \in Battery : P_Out[b] - Surplus < -ChargeRate[b]
      BY <1>4, <1>5, <2>1, <2>3 DEF CanCharge
    <3>2. Surplus' = Surplus
      BY <2>3 DEF Surplus, Total
    <3> QED
      BY <1>5, <2>1, <2>3, <3>1, <3>2 DEF BalancedOrStuck
  <2> QED
    BY <1>11, <2>2, <2>3 DEF TooMuchPower
<1> QED
  BY <1>9, <1>10, <1>11

LEMMA BalanceInvariance == Spec => []BalInv
<1>1. IInv /\ BalInv /\ [Next]_vars => BalInv'
  <2> SUFFICES ASSUME IInv, BalInv, [Next]_vars PROVE BalInv'
    OBVIOUS
  <2>1. CASE Elsewhere \/ Form
    BY <2>1, FaultsBal
  <2>2. ASSUME NEW vbload \in 0..MaxVBload, Manage(vbload)
        PROVE  BalInv'
    BY <2>2, ManageBal
  <2>3. CASE ServerEnds \/ NeverManaged \/ \E vbload \in 0..MaxVBload : PacketizeOnly(vbload)
    BY <2>3, PacketsBal
  <2>4. CASE InBalance \/ \E diff \in 1..MaxPower : TooMuchLoad(diff) \/ TooMuchPower(diff)
    BY <2>4, CheckBal
  <2>5. CASE SimulationOver \/ UNCHANGED vars
    BY <2>5
    DEF SimulationOver, vars, BalInv, BalancedOrStuck, PlanBalances, Surplus, Total
  <2> QED
    BY <2>1, <2>2, <2>3, <2>4, <2>5 DEF Next
<1> QED
  BY <1>1, InitBal, Invariance, PTL DEF Spec

\* After every commit of a managed island its batteries and solar generation are
\* within err of its load, or no battery can take the whole difference, for any
\* number of batteries and whatever the plans, stale records and shuffles before.
THEOREM CommitsBalance == Spec => []BalancedOrStuck
<1>1. BalInv => BalancedOrStuck
  BY DEF BalInv
<1> QED
  BY <1>1, BalanceInvariance, PTL

\* What the optimization solved is a balance in GridLAB-D's signs as well: only the
\* virtual battery's departure from its setpoint is left to correct.
THEOREM PlansBalance == Spec => []PlanBalances
<1>1. BalInv => PlanBalances
  BY DEF BalInv
<1> QED
  BY <1>1, BalanceInvariance, PTL
=============================================================================
