------------------------------ MODULE VBDevice ------------------------------
(***************************************************************************)
(* The packetization state machine of one thermal load                     *)
(* (packetized/vb_device.py): the temperature ranges gldWaterHeater and    *)
(* gldHVAC check, and what vb_device.pem() may return from them.  The      *)
(* module has no state: Pem(...) is the set of <<device, effect>> results  *)
(* one call can have, the die roll of REQ_die_roll being the only choice.  *)
(*                                                                         *)
(* Times count simulation commits, temperatures and powers are integers in *)
(* the units the instance picks.                                           *)
(***************************************************************************)
EXTENDS Integers

CONSTANTS
  CommEpoch,      \* COMM_EPOCH_SEC: pause between two requests of a device
  ControlEpoch,   \* CONTROL_EPOCH_SEC: length of an accepted packet
  WHSetpoint,     \* tank_setpoint of a water heater
  WHRange,        \* pem_range of a water heater
  HvacUpp,        \* cooling_setpoint of a house
  HvacLow,        \* heating_setpoint of a house
  HvacRange,      \* pem_range of a house: its thermostat_deadband
  ModeMargin,     \* the literal 2 degF of gldHVAC.turn_on
  Hysteresis      \* the literal 2 degF of exit_off and exit_on

ASSUME DeviceAssumption ==
  /\ CommEpoch \in Nat \ {0} /\ ControlEpoch \in Nat \ {0}
  /\ WHSetpoint \in Int /\ HvacUpp \in Int /\ HvacLow \in Int
  /\ WHRange \in Nat \ {0} /\ HvacRange \in Nat \ {0}
  /\ ModeMargin \in Nat /\ Hysteresis \in Nat

\* A house's deadband is GridLAB-D's default of 2 degF in the example models.
ASSUME DeadbandAssumption == HvacRange <= ModeMargin

Kinds == {"waterheater", "house"}
PemStates == {"PEM_OFF", "PEM_ON", "EXIT_OFF", "EXIT_ON"}

\* A vb_device object: pem_state, state_ends_at, last_power_draw_kw, kw.
DeviceRec == [pem : PemStates, ends : Nat, last : Nat, kw : Nat]
Effects == [kind : {"none", "request", "on", "off"}, kw : Nat]

\* What one commit reads for a device: its temperature, and whether the
\* outdoor temperature puts a house in heating mode.
Readings == [temp : Int, heating : BOOLEAN]

-----------------------------------------------------------------------------
(* check_stat of the two device classes, with hysteresis h.                *)

Near(t, setpoint, width) == setpoint - width < t /\ t < setpoint + width

InRequestRange(kind, t, h) ==
  IF kind = "waterheater"
  THEN Near(t, WHSetpoint, WHRange + h)
  ELSE Near(t, HvacUpp, HvacRange + h) \/ Near(t, HvacLow, HvacRange + h)

ExitOn(kind, t, h) ==
  IF kind = "waterheater"
  THEN t < WHSetpoint - (WHRange + h)
  ELSE t > HvacUpp + (HvacRange + h) \/ t < HvacLow - (HvacRange + h)

\* A house is in its EXIT_OFF range when it is in no other one.
ExitOff(kind, t, h) ==
  IF kind = "waterheater"
  THEN t > WHSetpoint + (WHRange + h)
  ELSE ~InRequestRange(kind, t, h) /\ ~ExitOn(kind, t, h)

\* soc <= 0 and soc >= 1, for the state of charge update_from_gld computes.
Depleted(kind, r) ==
  IF kind = "waterheater" THEN r.temp <= WHSetpoint - WHRange
  ELSE IF r.heating THEN r.temp <= HvacLow - HvacRange
  ELSE r.temp >= HvacUpp + HvacRange

Charged(kind, r) ==
  IF kind = "waterheater" THEN r.temp >= WHSetpoint + WHRange
  ELSE IF r.heating THEN r.temp >= HvacLow + HvacRange
  ELSE r.temp <= HvacUpp - HvacRange

\* REQ_die_roll: certain at the ends of the range, random inside it.
DieRolls(kind, r) ==
  IF Depleted(kind, r) THEN {TRUE} ELSE IF Charged(kind, r) THEN {FALSE} ELSE BOOLEAN

\* check_stat("REQUEST")
RequestRolls(kind, r) ==
  IF InRequestRange(kind, r.temp, 0) THEN DieRolls(kind, r) ELSE {FALSE}

-----------------------------------------------------------------------------
(* Effects and the update() that builds the next device object.            *)

NoEffect == [kind |-> "none", kw |-> 0]
PowerRequest(dev) == [kind |-> "request", kw |-> dev.last]
TurnOn(dev) == [kind |-> "on", kw |-> dev.last]
TurnOff == [kind |-> "off", kw |-> 0]

\* update(): Python's falsy 0 for state_ends_at keeps the old deadline, and
\* the load just read only reaches last_power_draw_kw at the next update.
Update(dev, pem, ends, load) ==
  [pem  |-> pem,
   ends |-> IF ends # 0 THEN ends ELSE dev.ends,
   last |-> IF dev.kw > 0 THEN dev.kw ELSE dev.last,
   kw   |-> load]

-----------------------------------------------------------------------------
(* pem() and the handler of each state.  The load a device shows does not  *)
(* change during a commit, so every update() of one call reads dev.kw      *)
(* again; now is the battery's time_sec.                                   *)

Result(dev, eff) == [dev |-> dev, eff |-> eff]

CheckExits(kind, r, dev) ==
  IF ExitOn(kind, r.temp, 0) THEN Result(Update(dev, "EXIT_ON", 0, dev.kw), TurnOn(dev))
  ELSE IF ExitOff(kind, r.temp, 0) THEN Result(Update(dev, "EXIT_OFF", 0, dev.kw), TurnOff)
  ELSE Result(dev, NoEffect)

\* (mutant) the handler's effect replaces the exit effect.
FinishHandlerFirst(kind, r, res) ==
  LET exit == CheckExits(kind, r, res.dev)
  IN  Result(exit.dev, IF res.eff.kind # "none" THEN res.eff ELSE exit.eff)

\* The tail of pem(): an exit effect replaces the handler's effect.
Finish(kind, r, res) ==
  LET exit == CheckExits(kind, r, res.dev)
  IN  Result(exit.dev, IF exit.eff.kind # "none" THEN exit.eff ELSE res.eff)

PemOff(kind, r, dev, now) ==
  IF now < dev.ends THEN {Result(dev, NoEffect)}
  ELSE {Result(Update(dev, "PEM_OFF", now + CommEpoch, dev.kw),
               IF roll THEN PowerRequest(dev) ELSE TurnOff) : roll \in RequestRolls(kind, r)}

\* update(PEM_OFF, state_ends_at = now).pem(now), the restart three handlers share.
Restart(kind, r, dev, now) ==
  {Finish(kind, r, res) : res \in PemOff(kind, r, Update(dev, "PEM_OFF", now, dev.kw), now)}

\* (mutant) a packet ends one pause early.
PemOnEarly(kind, r, dev, now) ==
  IF now + CommEpoch < dev.ends THEN {Result(dev, TurnOn(dev))} ELSE Restart(kind, r, dev, now)

PemOn(kind, r, dev, now) ==
  IF now < dev.ends THEN {Result(dev, TurnOn(dev))} ELSE Restart(kind, r, dev, now)

OrTurnOff(res) == Result(res.dev, IF res.eff.kind # "none" THEN res.eff ELSE TurnOff)

ExitOffHandler(kind, r, dev, now) ==
  IF ExitOff(kind, r.temp, Hysteresis) THEN {Result(dev, NoEffect)}
  ELSE {OrTurnOff(res) : res \in Restart(kind, r, dev, now)}

ExitOnHandler(kind, r, dev, now) ==
  IF ExitOn(kind, r.temp, Hysteresis) THEN {Result(dev, NoEffect)}
  ELSE {OrTurnOff(res) : res \in Restart(kind, r, dev, now)}

Handler(kind, r, dev, now) ==
  CASE dev.pem = "PEM_OFF"  -> PemOff(kind, r, dev, now)
    [] dev.pem = "PEM_ON"   -> PemOn(kind, r, dev, now)
    [] dev.pem = "EXIT_OFF" -> ExitOffHandler(kind, r, dev, now)
    [] dev.pem = "EXIT_ON"  -> ExitOnHandler(kind, r, dev, now)

Pem(kind, r, dev, now) == {Finish(kind, r, res) : res \in Handler(kind, r, dev, now)}

\* (mutant) the packet is counted from the end of the pause.
RequestAcceptedLate(dev, now) ==
  IF dev.pem # "PEM_OFF" THEN dev ELSE Update(dev, "PEM_ON", dev.ends + ControlEpoch, dev.kw)

\* request_accepted: the packet starts now and lasts ControlEpoch.
RequestAccepted(dev, now) ==
  IF dev.pem # "PEM_OFF" THEN dev ELSE Update(dev, "PEM_ON", now + ControlEpoch, dev.kw)

-----------------------------------------------------------------------------
(* What turn_on() writes to the simulator at temperature t: a tank setpoint *)
(* above the range, a system mode, or no mode at all.                       *)
Drive(kind, t) ==
  IF kind = "waterheater" THEN "on"
  ELSE IF t > HvacUpp - ModeMargin THEN "cool"
  ELSE IF t < HvacLow + ModeMargin THEN "heat"
  ELSE "keep"
=============================================================================
