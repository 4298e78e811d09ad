--------------------------- MODULE VirtualBattery ---------------------------
(***************************************************************************)
(* The virtual battery of one island (packetized/virtual_battery.py),      *)
(* driven at every simulation commit by packetize_island (absorption.py).  *)
(*                                                                         *)
(* A commit is a sequence of steps: BeginCommit takes the setpoint, one    *)
(* PemStep per device in dictionary order runs apply_pem_changes, EndPem   *)
(* installs the new dictionary, one AcceptRequest or RejectRequest per     *)
(* power request in shuffled order runs handle_power_requests, and         *)
(* SendEffects issues the switching orders to the simulator.  The          *)
(* simulator stands still during a commit, so what packetize_island reads  *)
(* from a device before next() is read at the step that first uses it.     *)
(* Before the steps of a commit, TurnOffHouse and TurnOnHouse are what     *)
(* load shedding does to the battery, Rebuild what a change of the islands *)
(* does.                                                                   *)
(***************************************************************************)
EXTENDS VBDevice, FiniteSets

CONSTANTS
  Device,        \* the loads of the island: houses (HVAC) and water heaters
  House,         \* the houses among them
  HeaterOf,      \* the water heater numbered like a house
  Temps,         \* temperatures a commit may read, per class
  Loads,         \* power a commit may read for a running or idle device
  InitialLoad,   \* the load read when the vb_device object was built
  DefaultDraw,   \* last_power_draw_kw = 4.5 of a new vb_device
  MaxDraw,       \* bound on the powers above
  Setpoints,     \* setpoints the island optimization may command
  FirstSetpoint, \* setpoint = 100 of a new battery
  Steps,         \* time from one commit to the next
  MaxTime        \* stop time of the simulation (bounds the model)

ASSUME BatteryAssumption ==
  /\ IsFiniteSet(Device)
  /\ House \subseteq Device
  /\ HeaterOf \in [House -> Device \ House]
  /\ \A g, h \in House : HeaterOf[g] = HeaterOf[h] => g = h
  /\ Temps \in [Kinds -> SUBSET Int]
  /\ MaxDraw \in Nat
  /\ Loads \subseteq 0..MaxDraw
  /\ InitialLoad \in [Device -> Loads]
  /\ DefaultDraw \in 0..MaxDraw
  /\ Setpoints \subseteq Nat /\ FirstSetpoint \in Setpoints
  /\ Steps \subseteq Nat \ {0}
  /\ MaxTime \in Nat

\* #set minimum_timestep=30 of the example model against COMM_EPOCH_SEC = 30:
\* a commit never comes before the pause of the previous one is over.
ASSUME StepAssumption == \A step \in Steps : CommEpoch <= step

VARIABLES
  clock,       \* time of the commit being run or coming next
  phase,       \* where the commit is
  setpoint,    \* VirtualBattery.setpoint
  members,     \* keys of VirtualBattery.devices
  ahead,       \* the order of those keys: the ones before each
  device,      \* the vb_device of each key
  all_devices, \* state_ends_at of the objects the battery is built from
  pending,     \* devices the loop of apply_pem_changes has still to visit
  kept,        \* keys of the new dictionary that loop builds
  totalload,   \* load granted by that loop
  measured,    \* load read from the devices of the new dictionary
  requests,    \* power requests not yet answered
  totalkw,     \* running total of handle_power_requests
  turn_on,     \* Effects.turn_on: devices that will be sent turn_on()
  turn_off,    \* Effects.turn_off
  drive,       \* what turn_on() would write for a device it may be sent to
  ordered,     \* what the simulator was last told to do with each device
  houses_off,  \* houses of this battery disconnected by load shedding
  preempted    \* history: devices whose last visit found the setpoint used up

commitVars == <<pending, kept, totalload, measured, requests, totalkw, turn_on, turn_off, drive>>
batteryVars == <<setpoint, members, ahead, device, all_devices, houses_off, preempted>>
vars == <<clock, phase, batteryVars, commitVars, ordered>>

Kind(d) == IF d \in House THEN "house" ELSE "waterheater"

\* What turn_on() may write, and what a load was last told.
Drives == {"on", "cool", "heat", "keep"}
Running == {"on", "cool", "heat"}
Orders == Running \cup {"free", "off"}
Request == [id : Device, kw : Nat]

-----------------------------------------------------------------------------
Distance(x, y) == IF x <= y THEN y - x ELSE x - y

\* Powers count half kilowatts.  round() goes to the nearest whole kilowatt
\* and from the middle to the even one.
RoundKW(p) ==
  IF p % 2 = 0 THEN p ELSE IF p % 4 = 1 THEN p - 1 ELSE p + 1

\* (mutant) due one pause before it is added.
NewDeviceOverdue(d, ends) ==
  [pem |-> "PEM_OFF", ends |-> ends - CommEpoch, last |-> DefaultDraw, kw |-> InitialLoad[d]]

NewDevice(d, ends) ==
  [pem |-> "PEM_OFF", ends |-> ends, last |-> DefaultDraw, kw |-> InitialLoad[d]]

\* A dictionary order: strict and total.
IsOrder(before) ==
  \A d, e \in Device :
    /\ d # e => (d \in before[e] <=> e \notin before[d])
    /\ d \in before[e] => d # e /\ before[d] \subseteq before[e]

\* update_VB lists a set of heaters, then a set of houses.
NewOrders ==
  {before \in [Device -> SUBSET Device] :
     IsOrder(before) /\ \A h \in House : Device \ House \subseteq before[h]}

-----------------------------------------------------------------------------
Init ==
  /\ clock = 0
  /\ phase = "waiting"
  /\ setpoint = FirstSetpoint
  /\ members = Device
  /\ ahead \in NewOrders
  /\ all_devices = [d \in Device |-> 0]
  /\ device = [d \in Device |-> NewDevice(d, 0)]
  /\ pending = {} /\ kept = {} /\ requests = {} /\ turn_on = {} /\ turn_off = {}
  /\ totalload = 0 /\ measured = 0 /\ totalkw = 0
  /\ drive = [d \in Device |-> "keep"]
  /\ ordered = [d \in Device |-> "free"]
  /\ houses_off = {} /\ preempted = {}

\* packetize_island, up to the loop of apply_pem_changes.
BeginCommit ==
  /\ phase = "waiting"
  /\ clock <= MaxTime
  /\ setpoint' \in Setpoints
  /\ phase' = "pem"
  /\ pending' = members
  /\ UNCHANGED <<clock, members, ahead, device, all_devices, kept, totalload, measured, requests,
                 totalkw, turn_on, turn_off, drive, ordered, houses_off, preempted>>

-----------------------------------------------------------------------------
(* apply_pem_changes: d is the device the loop visits, dev its state after  *)
(* the update of packetize_island, res what pem() returned for it.         *)

\* No effect: the device is not put in the new dictionary.
Forget(res) ==
  /\ res.eff.kind = "none"
  /\ UNCHANGED <<device, kept, totalload, measured, requests, turn_on, turn_off, preempted>>

Keep(d, dev) ==
  /\ device' = [device EXCEPT ![d] = dev]
  /\ kept' = kept \cup {d}
  /\ measured' = measured + dev.kw

\* (mutant) grants when the setpoint is just used up.
GrantOnFull(d, res) ==
  /\ res.eff.kind = "on"
  /\ totalload <= RoundKW(setpoint)
  /\ Keep(d, res.dev)
  /\ totalload' = totalload + res.eff.kw
  /\ turn_on' = turn_on \cup {d}
  /\ preempted' = preempted \ {d}
  /\ UNCHANGED <<requests, turn_off>>

GrantOn(d, res) ==
  /\ res.eff.kind = "on"
  /\ totalload < RoundKW(setpoint)
  /\ Keep(d, res.dev)
  /\ totalload' = totalload + res.eff.kw
  /\ turn_on' = turn_on \cup {d}
  /\ preempted' = preempted \ {d}
  /\ UNCHANGED <<requests, turn_off>>

\* (mutant) the state changes but no order is sent.
PreemptSilently(d, dev, res) ==
  /\ res.eff.kind = "on"
  /\ totalload >= RoundKW(setpoint)
  /\ Keep(d, Update(dev, "PEM_OFF", 0, dev.kw))
  /\ preempted' = preempted \cup {d}
  /\ UNCHANGED <<totalload, requests, turn_on, turn_off>>

\* The load already granted uses up the setpoint.  The new device is built
\* from the one before pem(), whose deadline it inherits.
Preempt(d, dev, res) ==
  /\ res.eff.kind = "on"
  /\ totalload >= RoundKW(setpoint)
  /\ Keep(d, Update(dev, "PEM_OFF", 0, dev.kw))
  /\ turn_off' = turn_off \cup {d}
  /\ preempted' = preempted \cup {d}
  /\ UNCHANGED <<totalload, requests, turn_on>>

\* (mutant) a device that asks for a new packet is switched off first.
QueueRequestOff(d, res) ==
  /\ res.eff.kind = "request"
  /\ Keep(d, res.dev)
  /\ requests' = requests \cup {[id |-> d, kw |-> res.eff.kw]}
  /\ turn_off' = turn_off \cup {d}
  /\ preempted' = preempted \ {d}
  /\ UNCHANGED <<totalload, turn_on>>

QueueRequest(d, res) ==
  /\ res.eff.kind = "request"
  /\ Keep(d, res.dev)
  /\ requests' = requests \cup {[id |-> d, kw |-> res.eff.kw]}
  /\ preempted' = preempted \ {d}
  /\ UNCHANGED <<totalload, turn_on, turn_off>>

SwitchOff(d, res) ==
  /\ res.eff.kind = "off"
  /\ Keep(d, res.dev)
  /\ turn_off' = turn_off \cup {d}
  /\ preempted' = preempted \ {d}
  /\ UNCHANGED <<totalload, requests, turn_on>>

Visit(d, dev, res) ==
  \/ Forget(res)
  \/ GrantOn(d, res)
  \/ Preempt(d, dev, res)
  \/ QueueRequest(d, res)
  \/ SwitchOff(d, res)

PemStep(d) ==
  /\ phase = "pem"
  /\ d \in pending
  /\ ahead[d] \cap pending = {}
  /\ \E t \in Temps[Kind(d)], heating \in BOOLEAN, load \in Loads :
       LET dev == Update(device[d], device[d].pem, 0, load)
       IN  \E res \in Pem(Kind(d), [temp |-> t, heating |-> heating], dev, clock) :
             /\ Visit(d, dev, res)
             /\ drive' = IF res.eff.kind \in {"on", "request"}
                         THEN [drive EXCEPT ![d] = Drive(Kind(d), t)] ELSE drive
  /\ pending' = pending \ {d}
  /\ UNCHANGED <<clock, phase, setpoint, members, ahead, all_devices, totalkw, ordered, houses_off>>

\* self.devices = devices; handle_power_requests starts from the load its
\* members showed when the commit read them.
EndPem ==
  /\ phase = "pem"
  /\ pending = {}
  /\ members' = kept
  /\ phase' = IF requests = {} THEN "sending" ELSE "requests"
  /\ totalkw' = measured
  /\ UNCHANGED <<clock, setpoint, ahead, device, all_devices, pending, kept, totalload, measured,
                 requests, turn_on, turn_off, drive, ordered, houses_off, preempted>>

-----------------------------------------------------------------------------
(* handle_power_requests: the shuffle makes any remaining request the next. *)

\* (mutant) accepts as long as the setpoint is not reached.
AcceptsBelow(q) == totalkw < setpoint

Accepts(q) == Distance(totalkw + q.kw, setpoint) <= Distance(totalkw, setpoint)

AcceptRequest(q) ==
  /\ phase = "requests"
  /\ q \in requests
  /\ Accepts(q)
  /\ q.id \in members
  /\ device' = [device EXCEPT ![q.id] = RequestAccepted(@, clock)]
  /\ totalkw' = totalkw + q.kw
  /\ turn_on' = turn_on \cup {q.id}
  /\ requests' = requests \ {q}
  /\ UNCHANGED <<clock, phase, setpoint, members, ahead, all_devices, pending, kept, totalload,
                 measured, turn_off, drive, ordered, houses_off, preempted>>

RejectRequest(q) ==
  /\ phase = "requests"
  /\ q \in requests
  /\ ~Accepts(q) \/ q.id \notin members
  /\ requests' = requests \ {q}
  /\ UNCHANGED <<clock, phase, batteryVars, pending, kept, totalload, measured, totalkw, turn_on,
                 turn_off, drive, ordered>>

EndRequests ==
  /\ phase = "requests"
  /\ requests = {}
  /\ phase' = "sending"
  /\ UNCHANGED <<clock, batteryVars, commitVars, ordered>>

\* The loop over effects.turn_on + effects.turn_off: a device in both lists
\* would end up switched off.  on_commit returns and the simulator moves on.
SendEffects ==
  /\ phase = "sending"
  /\ ordered' = [d \in Device |->
                   IF d \in turn_off THEN "off"
                   ELSE IF d \in turn_on /\ drive[d] # "keep" THEN drive[d]
                   ELSE ordered[d]]
  /\ phase' = "waiting"
  /\ \E step \in Steps : clock' = clock + step
  /\ kept' = {} /\ turn_on' = {} /\ turn_off' = {}
  /\ totalload' = 0 /\ measured' = 0 /\ totalkw' = 0
  /\ drive' = [d \in Device |-> "keep"]
  /\ UNCHANGED <<batteryVars, pending, requests>>

-----------------------------------------------------------------------------
(* Disconnecting and reconnecting customers during load shedding.          *)

\* turn_off_house: the heater may be missing, then only the house goes.
TurnOffHouse(h) ==
  /\ phase = "waiting"
  /\ h \in members
  /\ LET gone == members \cap {h, HeaterOf[h]}
     IN  /\ members' = members \ gone
         /\ ordered' = [d \in Device |-> IF d \in gone THEN "off" ELSE ordered[d]]
  /\ houses_off' = houses_off \cup {h}
  /\ UNCHANGED <<clock, phase, setpoint, ahead, device, all_devices, commitVars, preempted>>

\* The dictionary when a key is assigned: in its place if it is there, else last.
Inserted(d, keys, before) ==
  IF d \in keys THEN before
  ELSE [e \in Device |-> IF e = d THEN Device \ {d} ELSE before[e] \ {d}]

\* (mutant) the end of the pause that now begins.
DueLate == clock + CommEpoch

\* state_ends_at = t - t_start: due at once.
DueNow == clock

\* turn_on_house: the objects built at the start of the simulation come back.
TurnOnHouse(h) ==
  /\ phase = "waiting"
  /\ h \in houses_off
  /\ LET heater == HeaterOf[h]
         back == {h, heater}
     IN  /\ members' = members \cup back
         /\ all_devices' = [d \in Device |-> IF d \in back THEN DueNow ELSE all_devices[d]]
         /\ device' = [d \in Device |-> IF d \in back THEN NewDevice(d, DueNow) ELSE device[d]]
         /\ ahead' = Inserted(heater, members \cup {h}, Inserted(h, members, ahead))
         /\ preempted' = preempted \ back
  /\ houses_off' = houses_off \ {h}
  /\ UNCHANGED <<clock, phase, setpoint, commitVars, ordered>>

\* update_VB, because the islands changed and this one is among the new ones: the
\* battery is built again from all_devices, which no commit has written to.
\* houses_off stays, and with it the interrupted customers.
Rebuild ==
  /\ phase = "waiting"
  /\ clock <= MaxTime
  /\ setpoint' = FirstSetpoint
  /\ members' = Device
  /\ ahead' \in NewOrders
  /\ device' = [d \in Device |-> NewDevice(d, all_devices[d])]
  /\ preempted' = {}
  /\ UNCHANGED <<clock, phase, all_devices, houses_off, commitVars, ordered>>

\* The stop time is past: no more commits.
SimulationOver ==
  /\ phase = "waiting"
  /\ clock > MaxTime
  /\ UNCHANGED vars

Next ==
  \/ BeginCommit
  \/ \E d \in Device : PemStep(d)
  \/ EndPem
  \/ \E q \in requests : AcceptRequest(q) \/ RejectRequest(q)
  \/ EndRequests
  \/ SendEffects
  \/ \E h \in House : TurnOffHouse(h) \/ TurnOnHouse(h)
  \/ Rebuild
  \/ SimulationOver

Spec == Init /\ [][Next]_vars

-----------------------------------------------------------------------------
(* Properties.                                                             *)

Phases == {"waiting", "pem", "requests", "sending"}

\* Every variable has the type of the Python value it stands for.
TypeOK ==
  /\ clock \in Nat
  /\ phase \in Phases
  /\ setpoint \in Setpoints
  /\ members \subseteq Device
  /\ ahead \in [Device -> SUBSET Device]
  /\ device \in [Device -> DeviceRec]
  /\ all_devices \in [Device -> Nat]
  /\ pending \subseteq Device /\ kept \subseteq Device
  /\ totalload \in Nat /\ measured \in Nat /\ totalkw \in Nat
  /\ requests \subseteq Request
  /\ turn_on \subseteq Device /\ turn_off \subseteq Device
  /\ drive \in [Device -> Drives]
  /\ ordered \in [Device -> Orders]
  /\ houses_off \subseteq House /\ preempted \subseteq Device

\* A device load shedding has disconnected, and one that is missing without it.
Shed(d) == \E h \in houses_off : d \in {h, HeaterOf[h]}
Lost(d) == d \notin members /\ ~Shed(d)

\* apply_pem_changes puts a device in the new dictionary only when pem() has an
\* effect.  Only a device it has itself switched off for want of setpoint can
\* fall out of the battery that way, and only while that is the last thing that
\* happened to it: every other PEM_OFF device is due by the next commit, and
\* every other state always has an effect.
OnlyPreemptedAreLost == phase = "waiting" => \A d \in Device : Lost(d) => d \in preempted

\* A device that is no longer in the battery, which no commit will ever switch
\* again, was left switched off: dropping a device never leaves a load running
\* that nobody counts or controls.
LostDevicesAreOff ==
  phase = "waiting" => \A d \in Device \ members : ordered[d] = "off"

\* The effects of a commit never order a device both on and off: on_commit
\* sends all of turn_on before turn_off, so the off would win over a packet that
\* handle_power_requests has just granted.
OneOrderPerDevice == turn_on \cap turn_off = {}

\* The simulator's order agrees with the packet state when a commit is over: a
\* load in PEM_ON or EXIT_ON was told to run and one in EXIT_OFF to stop.
OrderMatchesState ==
  phase = "waiting" => \A d \in members :
    /\ device[d].pem \in {"PEM_ON", "EXIT_ON"} => ordered[d] \in Running
    /\ device[d].pem = "EXIT_OFF" => ordered[d] = "off"

\* apply_pem_changes grants packets past the setpoint by less than one device:
\* without the last grant, the load it let run was below the rounded setpoint.
BudgetBound == totalload = 0 \/ totalload < RoundKW(setpoint) + MaxDraw

\* handle_power_requests never moves the load further above the setpoint than
\* half of a device's draw, whatever the shuffle: it takes a request only when
\* that brings the total no further from the setpoint.
NoOvershoot ==
  phase \in {"requests", "sending"} =>
    totalkw = measured \/ 2 * (totalkw - setpoint) <= MaxDraw

\* The keys a commit still has or has put into the dictionary.
Present == IF phase = "pem" THEN pending \cup kept ELSE members

\* A device of the battery that runs on a packet it was granted.
InPacket(d) == d \in Present /\ device[d].pem = "PEM_ON"

\* A packet that has time left goes on, with the deadline it was granted, through
\* every step of every commit, but for five ways to end it early: the device is
\* in an exit state (its temperature is beyond a limit), the packets visited
\* before it use up the setpoint, load shedding disconnects its house or
\* reconnects it with new devices, or the islands change and every device of the
\* battery is new.  No request that is answered, no visit of another device and
\* no deadline of another packet ends it, and none forgets its device.
PacketHonoured ==
  [][\A d \in Device : InPacket(d) /\ clock < device[d].ends =>
       \/ InPacket(d)' /\ device'[d].ends = device[d].ends
       \/ phase = "pem" /\ device'[d].pem \in {"EXIT_ON", "EXIT_OFF"}
       \/ phase = "pem" /\ totalload >= RoundKW(setpoint) /\ d \in preempted' \cap turn_off'
       \/ d \notin members' /\ Shed(d)'
       \/ Shed(d) /\ ~Shed(d)'
       \/ members' = Device /\ device' = [e \in Device |-> NewDevice(e, all_devices[e])]]_vars

\* A packet is over within CONTROL_EPOCH_SEC and one commit: a device still in
\* PEM_ON when a commit is over has part of its packet ahead of it, and never
\* more than a whole one.
PacketBounded ==
  phase = "sending" => \A d \in members :
    device[d].pem = "PEM_ON" => device[d].ends \in clock + 1 .. clock + ControlEpoch

\* What the rest of the system sees of the battery: a load leaves it, whether
\* forgotten by apply_pem_changes or shed, only when told to stay off, hears of it
\* only while it is a member, and is never given back to its thermostat.  The
\* battery implements that through all the steps of its commits.
Island == INSTANCE IslandLoads
            WITH Load <- Device, told <- ordered,
                 members <- IF phase = "pem" THEN pending \cup kept ELSE members
ImplementsIsland == Island!Spec

\* vb_device.py:30 calls CONTROL_EPOCH_SEC the "time duration device is on for
\* if power request is accepted": once its packet is over, the load of a device
\* in PEM_OFF is not left running.
PacketExpires ==
  phase = "waiting" => \A d \in members :
    device[d].pem = "PEM_OFF" => ordered[d] \notin Running

\* packetize_island (absorption.py:493) is to cover "all HVAC systems and water
\* heaters in the model for a particular island": only load shedding takes a
\* device out of the battery.
KeepsEveryDevice == phase = "waiting" => \A d \in Device : ~Lost(d)

-----------------------------------------------------------------------------
(* The inductive invariant behind the safety properties.                   *)

\* Which working sets are in use in which phase.
Shape ==
  /\ phase # "pem" => pending = {}
  /\ phase \in {"waiting", "sending"} => requests = {}
  /\ phase = "waiting" => kept = {} /\ turn_on = {} /\ turn_off = {}
  /\ phase \in {"requests", "sending"} => members = kept
  /\ pending \cap kept = {}

\* Orders and requests are for visited devices, one order for each, and the
\* simulator has a mode for every device that may be turned on.
Orderly ==
  /\ turn_on \subseteq kept /\ turn_off \subseteq kept
  /\ turn_on \cap turn_off = {}
  /\ \A q \in requests : q.id \in kept \ turn_off /\ drive[q.id] # "keep"
  /\ \A d \in turn_on : drive[d] # "keep"

\* A device before a commit visits it.
Rested(d) ==
  /\ device[d].pem \in {"PEM_ON", "EXIT_ON"} => ordered[d] \in Running
  /\ device[d].pem = "EXIT_OFF" => ordered[d] = "off"
  /\ device[d].pem = "PEM_OFF" /\ d \notin preempted => device[d].ends <= clock
  /\ clock = 0 => device[d].pem = "PEM_OFF"

\* A device after a commit has visited it.
Visited(d) ==
  /\ device[d].pem \in {"PEM_ON", "EXIT_ON"} => d \in turn_on
  /\ device[d].pem = "EXIT_OFF" => d \in turn_off
  /\ device[d].pem = "PEM_OFF" /\ d \notin preempted => device[d].ends <= clock + CommEpoch

DevicesInv ==
  /\ \A d \in IF phase = "waiting" THEN members ELSE pending : Rested(d)
  /\ \A d \in kept : Visited(d)
  /\ \A d \in Device : all_devices[d] <= clock

\* A device switched off for want of setpoint stays off, or will be.
PreemptedInv ==
  /\ \A d \in preempted : d \notin turn_on /\ (d \in turn_off \/ ordered[d] = "off")
  /\ \A q \in requests : q.id \notin preempted

AbsentInv ==
  \A d \in Device \ Present : ordered[d] = "off" /\ (d \in preempted \/ Shed(d))

\* TypeOK and all of the above hold together after every step.
IInv == TypeOK /\ Shape /\ Orderly /\ DevicesInv /\ PreemptedInv /\ AbsentInv
=============================================================================
