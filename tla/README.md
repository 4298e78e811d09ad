# GRIP absorption: a TLA+ model of the islanding and packetization pipeline

The repository runs a GridLAB-D power-flow simulation with Python callbacks
(`absorption.py`: `on_init`, `on_precommit`, `on_commit`, `on_term`). When supernodes of
the feeder fail, the callbacks split the feeder into islands, give every island a *virtual
battery* made of the houses' HVAC systems and water heaters, ask a Julia optimization server
how each island should be run, shed customers, and hand out *packets* (timed permissions to
run) to the loads. These modules model that control logic, model-check it with TLC on
small instances, and prove its main invariants with TLAPS for every value of the constants.

## 1. Inventory

| Component | State | Operations | Modelled in |
|---|---|---|---|
| Packetized device (`packetized/vb_device.py`) | `pem_state`, `state_ends_at`, `last_power_draw_kw`, `kw` | `update`, `pem` with one handler per state, `check_exits`, `request_accepted`, `check_stat`, `REQ_die_roll`, `turn_on`/`turn_off` | `VBDevice` |
| Virtual battery (`packetized/virtual_battery.py`, `packetize_island`, `turn_off_house`, `turn_on_house`) | the dictionary of devices, the setpoint, the effects of one commit | `next`: `apply_updates`, `apply_pem_changes`, `handle_power_requests`; sending the effects; disconnecting and reconnecting houses; rebuilding the battery | `VirtualBattery`, abstract: `IslandLoads` |
| Julia link (`julia_server.py`, `julia_client.py`, `julia/server.jl`, `on_init`, `on_term`) | the server process, a PAIR socket on each side, `Absorption` | `start`, `stop`, `send`, `send_data`, the server's receive loop | `JuliaLink`, abstract: `RemoteCall` |
| Absorption controller (`on_commit` and what it calls in `absorption.py`) | `islands`, `faulted_nodes`, `Virtual_Battery`, `islanded_devices`, `powerbal`, `houses_off`, the baseline files, switches and meters in the simulator | `new_fault_detected`, `islanding`, `process_islands`, `update_VB`, `get_island_baseline_data`, `island_management`, shedding, the packetize branch; `shutoff_noislanding` with LOAD_CONTROL off | `AbsorptionControl` |
| Generation of an island (`island_management`, `check_power_balance` in `absorption.py`, `manage_island` in `packetized/island_management.jl`) | what the inverters are set to (`P_Out`), `powerbal`, the baseline files | the horizon, the plan, carrying it out, the balance after every commit | `IslandManagement` |
| Islands (`process_islands`, `get_components` in `absorption.py`) | none of its own: the switches, and the islands it returns | `get_connected_group`, the test of each group | `Feeder` (what), `Islanding` (how) |
| Islanding optimization (`julia/islanding.jl`) | none | `isolate_nodes`, `islanding_core` | `Feeder`, `Islanding`: the switches and the loop constraint |
| Graph tools (`julia/graph_tools.jl`) | none | `find_cycles`, `adjacency` | `Islanding` |
| Pipeline (`openfido.sh`, `run_gridlabd_main.py`) | the baseline files, the outputs | baseline run, compilation, simulation, post-processing; the script stops at the first failure | `Pipeline` |
| Time series (`data_post_process.py`) | files | `timeseries_gen`, `timeseries_persupernode` | `TimeSeries`, `Pipeline` |
| Payload parsing, `log_gen`, plots, voltage dumps, test scripts, the older thermostat controller, example model | files | — | not modelled, see section 9 |

**How they interact.** The script makes a baseline run without controls, writes what it recorded
into two baseline files, compiles the model, and makes the simulation proper. There GridLAB-D calls `on_init` once, then `on_commit` at every time step
(30 s in the example model). `on_init` starts the server and waits for its answer to a ping.
`on_commit` reads the faults; on a change it calls the server for new switch states, toggles
the switches, computes the islands, and rebuilds the batteries and baseline files. Then it either
manages the islands (every third minute: one server call per island, shedding, packets, power
balance), hands out packets alone (between managements), or does nothing. The calls are
synchronous, the Python side is single-threaded, and state lives in module globals that survive
between commits. Concurrency is only between the simulation and the server process; the rest of
the difficulty is in *sequences of commits* that leave the globals in combinations no one
tried.

**Which behaviours are hard.**

- A device's deadline is set by one commit and read by later ones; between them the device
  may be preempted, dropped, disconnected, brought back from an old object, or
  asked for again.
- Orders of one commit are collected in two lists and sent `turn_on` first, so a device in both
  lists loses its packet.
- Packets are granted by three different criteria (running packets below the rounded setpoint,
  requests by distance from the setpoint in shuffled order, exits always).
- A fault may come, go, and come again at commits that are not management commits;
  islands, batteries, baseline files and the last power plan are refreshed at different points.
- `houses_off` is one list for all islands and outlives every rebuild.
- Messages to the server carry no number and `recv()` has no timeout.
- `powerbal` keeps the record of an island that is no more, and balances with it when the island
  forms again; the plan carried out is one time step ahead of the commit that asks for it.
- Files of two runs are joined by position, and any of them may be missing or short.

**What makes each component correct.**

- *Device:* a granted packet runs until its deadline unless a temperature limit, the setpoint, load
  shedding or a change of the islands ends it; what the simulator was last told agrees with the packet state.
- *Battery:* no load is both switched on and off in a commit; a load that is in no battery is
  off; the load granted stays within one device of the setpoint; requests never take the
  load past the setpoint by more than half a device.
- *Islands:* the groups found are the connected components whatever the order of the search; the
  random walk records cycles only and stays within its limit; no cycle that was found gets closed.
- *Link:* each call is executed once, and its answer is returned to it and to no other call; a
  simulation that reaches its end leaves no server behind; a failed start is noticed.
- *Generation:* inverters stay within their rates, `powerbal` says what they are set to, the plan
  followed is that of the right time, and after every commit the island is balanced if one battery
  can do it.
- *Pipeline:* the server only runs when the same pipeline has written both baseline files; each row of the
  time series tells of one time.
- *Controller:* one battery per island, islands free of faulted nodes and of the substation and
  not connected to anything, customers interrupted exactly while listed, baseline files there
  before the server needs them, and no exception out of `on_commit` that a look-up or a choice could avoid.

`PROJECT.json` lists the hazards at their lines with the properties that cover them.

## 2. Plan

The order follows the weight of the behaviour: the packets first, because every commit of every
island runs them; then the link; then the controller around both.

| | Module | Composes | Status |
|---|---|---|---|
| 1 | `VBDevice`, `VirtualBattery` | the battery INSTANCEs nothing, it extends the device module | done, proved |
| 2 | `RemoteCall`, `JuliaLink` | the link implements the abstract call | done, proved (safety) |
| 3 | `AbsorptionControl` | summarises a commit of the battery as "keep some, switch some" | done, proved (safety) |
| 4 | `Feeder`, `Islanding`: the random walk of `find_cycles`, the loop constraint, the worklist of `get_components` | ends in the islands `AbsorptionControl` starts from | done, proved (safety) |
| 5 | `shutoff_noislanding`, the branch of `on_commit` with LOAD_CONTROL off | a choice of the initial state of `AbsorptionControl` | done, proved (safety) |
| 6 | `IslandManagement`: the planning horizon, the constraints on the powers, carrying the plan out, `check_power_balance` | refines what `AbsorptionControl` summarises in `powerbal` | done, proved (safety) |
| 7 | rebuilding composed with `VirtualBattery`: `all_devices` gives a rebuilt battery its devices | an action of `VirtualBattery` | done, proved (safety) |
| 8 | `IslandLoads`: what the controller may assume of a battery | `VirtualBattery` implements it | done, proved |
| 9 | `TimeSeries`, `Pipeline` | the pipeline extends the link with everything around the simulation | done, proved (safety) |

What could still be added: `log_gen`, once it is known which values `fault_type` takes; the
energies of the linear program with a discrete state of charge.

## 3. Modules and how they correspond to the code

**`VBDevice`** has no state: `Pem(kind, reading, device, now)` is the set of `<<device, effect>>`
pairs one call of `vb_device.pem()` may return. The four handlers, the shared restart
(`update(PEM_OFF, now).pem(now)`), `check_exits` replacing the handler's effect, Python's falsy
`state_ends_at=0`, the strict and non-strict temperature comparisons of the two classes and the
state of charge at the ends of the range are all there. `REQ_die_roll` is certain at the ends
of the range and a free choice inside it.

**`VirtualBattery`** is one battery over many commits. `BeginCommit` sets the setpoint;
`PemStep(d)` is one turn of the loop of `apply_pem_changes`, in dictionary order, with the five
branches `Forget`, `GrantOn`, `Preempt`, `QueueRequest`, `SwitchOff`; `EndPem` installs the new
dictionary, `AcceptRequest`/`RejectRequest` are turns of `handle_power_requests` in any order
(the list is shuffled); `SendEffects` sends `turn_on` and then `turn_off` and lets time pass.
`TurnOffHouse`/`TurnOnHouse` act between commits, as load shedding does, and `Rebuild` makes the
battery anew from `all_devices`, as a change of the islands does: its devices are those of the first
commit, with the deadlines reconnecting has given some of them, and `houses_off` stays. `ahead` is the
dictionary's order, which reconnecting a house changes. `ordered` is what GridLAB-D was last
told to do with a load, including the case in which `turn_on()` writes no system mode because
no temperature limit is near (`drive = "keep"`). `preempted` is a history variable.

**`IslandLoads`** is what the rest of the system sees of a battery: a set of members and what each
load was last told. A load leaves only when told to stay off, hears something only while it is a
member, and is never given back to its thermostat. `ImplementsIsland` has `VirtualBattery` implement
it through all the steps of its commits; half way, the members are the devices still to be
visited and those already in the new dictionary.

**`RemoteCall`** is the promise of a synchronous remote call: `Call`, `Execute`, `Return`, and
`Break`, after which calls not yet executed never return. **`JuliaLink`** has
the client (`NoLoadControl`, `InitRaises`, `Start`, `StartFails`, `CallServer`, `Receive`, `OnTerm`), the
server (`Listen`, `TakeMessage`, `Reply`) and what may go wrong on either side as a constant set,
`FaultKinds`: an unreadable baseline, no `julia` to start, a client address that cannot be used, a server
that dies while it loads, an optimization that ends in an error, an exception in a callback, a search
that goes round a ring. `CallbackRaises` is an exception in `on_init` after the server was started
(`absorption.py:86`), or in `on_commit`, finding 4 for one; whether GridLAB-D calls `on_term` after it is not
known from this repository, so the model has both. `SearchHangs` is the search of
`shutoff_noislanding` that does not end. `Abandoned` is a `recv()` nobody will answer. Messages are queued on either side. Calls are numbered in the model only,
to state that an answer belongs to a call. The refinement mapping takes the messages sent for
`called` and the answers in the queue or already received for `executed`.

**`AbsorptionControl`** is `on_commit` in phases: `DetectFaults`/`NoNewFaults`, `Rebuild`,
`Dispatch`, then for each island one of `ManageWithoutShed`, `Shed`, `ShedRaises` or
`PacketizeIsland`, and `EndCommit`. Islands are the connected components of the closed switches
that do not contain the substation, kept if the first node is not faulted; the first node of a
Python set is any of them. An island is the list of its nodes in the order the search comes to them,
and the tuple of that list is the key of its battery: `SearchOrder`, any function of the nodes and the
closed branches among them, gives the order, so the same nodes may come back as another list. Files are
named by the sorted nodes (`NodeSets`). A house stands for the house and its heater. `houses_off` counts
how often each house is listed (it is a list in the code and may hold a house twice).
`packetize_island` is the abstraction of `VirtualBattery`: the battery keeps any subset, and any
of those are told to run or stop. An exception ends the simulation (`phase = "failed"`). Those modelled are the
look-up of a plan (`PacketizeIsland`), the random choices of shedding (`ShedRaises`: from the nodes numbered 100
or more, `Residential`, and from the listed houses) and the baseline files of `get_island_baseline_data`
(`RebuildRaises`: a file that cannot be read, or two of different lengths, `~baselines_fit`). What an island
may shed (`Needs`) is nothing where the baseline has no columns for its nodes (`Recorded`): the optimization sheds
no more than the load that is not flexible. With
`Absorption` off, `ShutOff` is `shutoff_noislanding`: `Downstream` is the set of nodes its search comes
to along the declared direction of the branches (`From`). The search has no memory, so closed
branches declared around a ring keep it going (`ShutOffHangs`, `phase = "hung"`).

**`IslandManagement`** is the generation of one island over a simulation. `Form` and `Elsewhere` say
whether the island is there at a commit; its record in `powerbal` and its inverters outlive it. At a
management `Manage` picks any point of the power constraints (`Solutions`), or the zeros of an
unsolved program (`Unsolved`), for the second row of the horizon: the baseline rotated to start
now (`Rotated`) and thinned to every `t_inc`-th row (`EveryTInc`). `ServerEnds` is a horizon without a
second row or a `t0` past the baseline. Between managements `PacketizeOnly` updates the load of
the virtual battery in the record. Then `check_power_balance`: `InBalance`, `TooMuchLoad`,
`TooMuchPower`, in which the first battery of any shuffle that can take the whole difference does
(`CanDischarge`, `CanCharge`, `SetPower`).

**`TimeSeries`** is `timeseries_gen` as operators on files, a file being the times of its rows: what is
written before a column is too short, and whether it raises. `BaselineLoad` goes through the rows of
the baseline run as pandas' boolean index does. **`Pipeline`** is `openfido.sh` with the
driver's three runs; its `Simulate` is any step of `JuliaLink`, which it extends. `Step` is a command
that succeeds or ends the script. `baselines` are the files this pipeline has written, so that one
that came with the inputs does not count.

**`Feeder`** defines the islands of a feeder for any faults and closed branches without saying how
they are found (`Component` is the smallest set no branch leaves). **`Islanding`** computes them:
`StartWalk` and `Walk` are the loop of `find_cycles` with its three outcomes `DeadEnd`,
`CloseCycle`, `GoOn`; `Optimize` picks any result that keeps `br_failures` open and satisfies the
loop constraint as written, with the members of a cycle as branch numbers, or has no optimal solution
(`phase = "unsolved"`, the error of `islanding.jl:216`, which ends the server: the fault "error" of `JuliaLink`); `NextRoot`, `PopNode`
and `EndGroup` are `get_components` and `get_connected_group` with the order of dictionaries and
sets left open; `KeepIslands` is the last loop of `process_islands`. Buses are numbered from 1 as
`get_islanding_data` numbers them. `IslandsAsPromised` ties the two modules: what `Islanding`
returns is what `AbsorptionControl` lets `DetectFaults` take.

The modules starting with `MC` give the instances for TLC. Those ending in `Proofs` hold the
theorems, `SumTheorems` the lemmas about sums over finite sets that `PipelineProofs`, `IslandManagementProofs`
and `AbsorptionControlProofs` share. Definitions marked `(mutant)` are plausible bugs
of the definition below them: replacing the definition by its mutant makes TLC report the
property `PROJECT.json` names, which is how each property is known to be sensitive to the
code.

## 4. Runs

| Run | Result | What it shows |
|---|---|---|
| `vb_core` | passes | A house and its heater over five commits (every combination of temperature around every limit, loads, setpoints, orders, shedding, rebuilding): all safety properties of the battery, and that it implements `IslandLoads` |
| `vb_packet` | `PacketExpires` violated | a load whose packet ends and whose new request is turned down stays on |
| `vb_members` | `KeepsEveryDevice` violated | a device preempted in its packet is dropped from the battery one commit later |
| `pipeline` | passes | over every failure of `FaultKinds` and of the script's commands: answers belong to their calls, the link implements `RemoteCall` with its liveness, every step of a call brings its answer nearer or ends the server, a server outlives its simulation only when an exception came before `on_term`, the server runs on baseline files of this pipeline only, the time series is aligned, and the script ends unless the simulation waits for a dead server or searches a ring |
| `link_start` | `SimulationStarts` violated | a server that dies while loading blocks the simulation for good |
| `control` | passes | batteries, islands, baseline files and disconnected houses stay consistent over any sequence of faults; the look-ups, choices and files of `on_commit` raise for three reasons only; without LOAD_CONTROL what is shut off is shut off all the way down |
| `control_plan` | `BalanceAfterManagement` violated | an island formed between two managements is balanced before it was managed, which raises `KeyError` |
| `control_members` | `BatteryServesIsland` violated | one island's management puts another island's houses into its battery |
| `control_thermostat` | `ThermostatOutsideIslands` violated | houses that leave their island are not put back on their thermostat |
| `management` | passes | over every feasible plan, draw of the virtual battery and shuffle, in an island that comes and goes: rates are kept, the record agrees with the inverters, the plan is that of the right time, and the island is balanced or no battery can do it |
| `islanding` | passes | over every walk, optimization result and search order: cycles are cycles, no walk reaches its limit, every turn leaves less to do, and the islands, where the optimization has a solution, are those promised |
| `islanding_loops` | `LoopsStayOpen` violated | a cycle that was found can be closed |

Deadlock is checked in every run but `link_start`: the end of a simulation, and a `recv()` or a search that
does not end, are stuttering actions of their own. In `link_start` the server that dies while it
loads is the behaviour under study.

**Properties.** Each is stated in words above its definition. The ones worth an argument:
`OnlyPreemptedAreLost` (a device without an effect is dropped from the dictionary, which is
harmless in every case but one), `LostDevicesAreOff` (and that one case never leaves a load
running), `OrderMatchesState` (the case of `turn_on()` writing nothing is unreachable from a
running state because the deadband is no wider than the mode margin), `PacketHonoured` and
`PacketBounded` (a packet keeps its deadline through every step, of commits, shedding and rebuilding
alike, but for five named exits, and runs no longer than that), `NoOvershoot` (the distance criterion bounds the overshoot by half a draw for every
shuffle), `ReplyAnswersCall` (unnumbered messages suffice because at most one is under way),
`IslandsAreIsolated` (testing the first node of a component is enough only because
`isolate_nodes` opens every switch at a faulted node), `InterruptedAreListed` (houses listed twice
do not get lost), `FailsOnly` (baseline files that do not fit, an island without a
plan, a disconnected house back in a battery: no other look-up, choice or file of `on_commit` raises, because
`houses_off` is counted right while each house is in it once, and load is only shed where there is a node to
draw; the exceptions of a malformed model or answer are not modelled), `ServerLeftByException` (a failed start kills
what it has started, and `on_term` what `on_init` has, whichever of them the simulation goes through), `WalkEnds` (a walk that only
remembers the nodes it has been at is stopped by them before its counter is), `EveryTurnCounts` (what
is left of both searches gets less with every turn, although a node may be taken up again before it
is marked), `AnswerComesNearer` (but for the death of the server, no step of either process sets a call back),
`IslandsAsPromised`
(one `already_seen` for all groups never splits a component), `RatesKept` (the power that is tested is
the recorded one, which may be stale, but every write of both keeps the rates), `RecordAgrees` (a new
plan overwrites every battery of a stale record), `PlanIsAhead` (rotation, thinning and index 2 amount
to the row `t_inc` later, also over the end of the baseline), `BalancedOrStuck` (small corrections over
many commits do not add up to an island left unbalanced that a battery could balance),
`DeadEndsStayDead` (opening the branches of faulted nodes and shutting off downstream nodes once is
enough for any later faults), `ServerHasBaseline` (`on_init` looks at one file only; the order of
writing and `set -e` vouch for the other), `SeriesAligned` (a baseline run that starts at another
time is either cut to size or ends in an `IndexError`, never shifted).

## 5. Bounds, and why they are enough

- *Time* counts commits of 30 s, the `minimum_timestep` of the example model. `CommEpoch` is 1
  (30 s, as in the code), `ControlEpoch` is 3 in the instances where the code has 180 s, i.e. 6: a
  packet still has a first commit, one in the middle and a last one. `Steps = {1, 2}` in
  `vb_core` lets commits come late. `MaxTime = 4` gives five commits: a request, a full packet,
  its end, and one commit more.
- *Temperatures* are differences from the lower set point. `AllTemps` takes one value on each side of
  every threshold of both classes, with and without hysteresis, and the points where the state
  of charge is 0 or 1. `MildTemps` (violations only) stays within the request ranges, so that
  the counterexamples need no extreme weather.
- *Powers* count half kilowatts so that rounding has a middle; loads are 0 or 1.5 kW and the
  default draw is 1 kW; setpoints are 0 and 1.5 kW: no packet fits, or one does.
- `FirstSetpoint = 3` stands for the 100 kW of a new battery, more than its devices draw.
- *Devices*: a house and its heater are the two classes and the one pair that is disconnected
  together; the properties relate at most two devices of one battery. The proofs lift the
  main ones to any number.
- `MaxCalls = 8` calls in the pipeline's simulation (24 in `link_start`), far beyond the period of the
  queues (at most one message under way).
- *Recordings*: three rows of the simulation, each recorder's file any beginning of them or missing;
  the baseline run has any interval of times that starts and stops before, with, between or after them,
  or none. Rows of a run are recorded at the same times, which the recorders of the example model do.
- *Feeder*: the substation and three supernodes in a ring behind it, so that islands are split,
  joined, reconnected and lost, and the whole ring is listed in two orders by the branches closed in it; a house at two of
  the supernodes, and one supernode with load and no house. Faults: none, at the substation, at a node with a
  house and at the one without. `ManageEvery = 2` for the code's 6: a commit is a management or not.
  `MaxNeed = 2` is every house there is; `MaxTime = 4` is five commits: two managements with
  others between, before and after them. All supernodes but the substation are in `Residential` and `Recorded`, as
  in the example model (`data_post_process.py:137` lists nine, all from 101 on); the theorems are for any. `Round` declares
  the ring's branches in one direction around, so that the search of `shutoff_noislanding` can go on
  forever, or end because a switch is open.
- *Generation*: two batteries with rates 1 and 2, so that one can take a difference the other cannot;
  baselines of 5, 3 and 2 rows, which end after the simulation, end within it and wrap, or are too short
  for a horizon. `TInc = ManageEvery = 2` for the code's 6, `Err = 1` for 15 kW, a virtual battery
  that draws 0 to 3: below, at and above its setpoint by more than `Err`. `MaxTime = 5` gives three
  managements. `MaxPower = 9` is beyond every difference that can arise.

- *Islanding:* five buses and six branches: the substation feeds two rings that share a branch,
  which gives three cycles, dead ends, and branch numbers that differ from bus numbers. Faults: none, one
  that opens both rings, and two at once with the substation. `n_iter` is the code's, 10.

## 6. Fairness

`Pipeline` and `JuliaLink` claim liveness. In `Pipeline` it is weak fairness of the
next step: commands return, a process that can run does, `recv()` returns when a message is
there, optimizations return with a result or an error, and GridLAB-D reaches its stop time (`MaxCalls` stands
for it) unless a callback does not return: `Waits` names the two that may not, a `recv()` from a dead server
and the search of a ring. As only one process at a time
has anything to do while a call is under way, that is enough for each call to return. `JuliaLink` by
itself, in `link_start`, assumes less: fairness of the server's steps, of `Receive` and of `on_init`,
and nothing about how often the simulation calls or whether it ends. The other modules state safety
only: their code is sequential, and how often it runs is GridLAB-D's affair. That the searches of `Islanding` end is
stated as a step property, `EveryTurnCounts`, which needs no fairness.

## 7. Proofs

TLAPS checks every theorem for every number of devices, houses and nodes, every bound and
every setting of the constants that satisfies the named assumptions:

- `DeviceAssumption` (types), `DeadbandAssumption` (the thermostat deadband is at most the 2 degrees of
  `turn_on()`, GridLAB-D's default), `BatteryAssumption` (types; finitely many devices; a heater belongs to one house),
  `StepAssumption` (a commit does not come within `COMM_EPOCH_SEC` of the one before, which the
  example model's `minimum_timestep=30` guarantees), `LinkAssumption`, `PipelineAssumption` (a recorder's
  rows are of rising times: GridLAB-D writes them as its clock goes on), `ControlAssumption` (types; finitely
  many houses, none of them at the substation; a branch leads from one of its ends; the baseline has columns
  only for nodes numbered 100 or more, as `data_post_process.py:137` lists them),
  `ManagementAssumption` (types; finitely many batteries),
  `RateAssumption` (an inverter can discharge at least as fast as it charges: the plan takes
  `max_charge_rate` for both; the example model has one rate for both), `FeederAssumption` and `IslandingAssumption` (a graph without self
  loops whose buses are numbered from 1).

*Device* (`VBDeviceProofs`): `PemResult` says what every result of `pem()` promises: a device in
`PEM_ON` or `EXIT_ON` comes with an on effect, one in `EXIT_OFF` with an off effect, an on or a
request comes only at a temperature at which `turn_on()` writes a mode, and only a waiting
`PEM_OFF` device has no effect. It rests on `HysteresisKeepsExit`: a house or tank beyond its
widened limit is beyond the limit itself, so the handlers that return nothing are always
overruled by `check_exits`.

*Battery* (`VirtualBatteryProofs`): none of the safety properties is inductive, because they speak
about the time between commits. `IInv` says what a commit knows half way: devices still to be
visited are `Rested` (as the last commit left them, due by now unless preempted), visited ones are
`Visited` (an order is in the list that matches the state, the next deadline is within one pause),
orders are for visited devices and disjoint (`Orderly`), preempted ones are off or will be, and
absent ones are off and were preempted or shed. `PemStepInv` uses `PemResult`; `SendEffectsInv`
uses `StepAssumption` to turn `Visited` into `Rested`. From `Invariance` follow `TypeCorrect`,
`LossesArePreemptions`, `NoLoadOutOfControl`, `OrdersAgree`, `SimulatorFollows` and the action
property `PacketsHonoured`, for which `VisitHonours` goes through the branches of one visit: with time left in
its packet a device is granted the next part with the deadline it has, is preempted, or is in an exit
state. The same invariant gives `BatteryImplementsIsland`: what was told to an
absent load is "off", so leaving is a `Release` or a `Forget`. `LimitInv` bounds every draw
by `MaxDraw` and every running total by the last grant; `BudgetBounded`, `OvershootBounded` and
`PacketsBounded` follow.  `AmpleSetpointsKeepDevices` is what
finding 2 needs: where the setpoints are no less than the draws of all devices (`Ample`), nothing is
preempted (`GrantInv`), and a battery loses no device other than to shedding.

*Sums* (`SumTheorems`): the folds of the community modules are recursive functions, and no installed
prover applies the library's induction theorems to them. The lemmas get by with a least
counterexample instead: `LeastSubset` gives any nonempty set of subsets of a finite set a least
member (by cardinality), on which a recursion or an equation can fail first. That way `SumsExist` and
`SumsAgree` show that the recursion defines the sum, and `SumRemove`, `SumUpdate`, `SumOpposite` and
`SumOfOnes` say how sums change.

*Link and pipeline* (`PipelineProofs`): `LinkInv` says that at most one message exists, in one of four
places (the two queues, the job, or nowhere with the server dead), and only while the
client waits, and that a server is there outside of calls only behind `Absorption` and a handle to stop it
by. It gives `LinkTypes`, `RepliesAreAnswers`, `ServerStopped`, `ServerBehindAbsorption`, and
`LinkImplementsCalls`: every step is a step of `RemoteCall` or leaves its variables unchanged.
`AnswersComeNearer` follows from it as well: `AnswerDistance` is at most 4 while the server lives, and every step of
either process during a call lowers it or is the one in which the server dies. Each step of the script is a step of the link or leaves
it alone (`PNextIsNext`), so all of that holds within the pipeline (`PipelineLinkSound`,
`PipelineImplementsCalls`, `PipelineAnswersComeNearer`). `StageInv` says which of the two files is
written at which command, that no server runs before the simulation, and that none is left when the script goes
on after it; `BaselineBehindServer`
follows. `FinishedSeriesAligned` is about the files: `KeptRows` says that the rows selected
from a rising file are rising and from it, `AllInOrder` and `SelectsAll` that with as many rows as
the simulation wrote they are its rows, one by one; `FinishedAligned` puts the columns together. `CompleteSeriesWritten` is
the other half: with complete recordings and a baseline run that covers them nothing is
raised and no row is missing, so that the theorem before it is not about files there cannot be.

*Islanding* (`IslandingProofs`): `WalkInv` says that a walk has come along branches through
`steps` different nodes, none of them its origin. So there are more nodes than steps
(`WayLength`, by counting), which keeps the error of `find_cycles` out of reach
(`NoWalkTooLong`), and its way closed at the origin is the order `IsCycle` asks for
(`WalkIsCycle`, `CyclesSound`). `GroupsInv` and `RootInv` say that finished groups are components and
the one at work is between its root and the root's component; the key step is `SeenInGroup`: a
neighbour that is already seen is in the same group, because a finished one would contain the
root. `IslandsSound` follows. `WorkEnds` has `WorkLeft` a natural number that every turn lowers: a walk is
no longer than the nodes it has not been at, and nodes once seen stay seen (`Unseen`). So neither search goes
on forever, whatever it draws. `FailsForSolverOnly` is about the confusion of finding 7: the nodes of
a cycle are used as branch numbers, which at least exist where there are as many branches as nodes, so that the only error left to a request
is that there is no optimal solution.

*Controller* (`FeederProofs`, `AbsorptionControlProofs`): `ComponentClosed` and `SameComponent` show
that `get_connected_group`'s result is a component: no closed branch leaves it, and two that meet are
equal. So an island that meets the substation is the substation's, and one that contains a
faulted node is that node alone, because `Isolated` opened all its branches; this is
`IslandsIsolated`. `IInv` adds to the properties the order of the steps of a commit
(`Progress`): rebuilding is due only in phase `rebuild`, and until then the islands of
the last commit have their baseline files. `BatteriesMatch`, `ListMatchesMeters`, `IslandsSound`,
`BaselinesWritten` and `TypeCorrect` follow. `WithoutControl` is the part for LOAD_CONTROL off: no closed
branch leads from a node out of service to one in service. `DownstreamClosed` shows that each
search adds a set no closed branch leaves, so `ShutOffReachesAll` follows on any feeder. `RaisesOnly` is
a count: while no house is `Relisted`, `houses_off` has each house once (`ListedOnce`), and then there
are as many to reconnect as the code takes from its length (`ShortListRelisted`); and a node to draw from,
because an island without one has no load to shed (`NodeToDraw`).

Three theorems say what the violated properties of the controller would need, by a hypothesis on
the behaviour next to `Spec`; they show that findings 4 to 6 have one cause each.
`PlannedUnlessChanged`: if islands only change at commits that manage them, every island that is
balanced was managed before (`Planned`). `ThermostatsUntilChange`: until the first islands
change, every house outside of them is on its thermostat. `LoneIslandServed`: and if there is only one of
them, its battery has no other houses (`FirstIslands` is the invariant of both).

*Generation* (`IslandManagementProofs`): `OutputInRates` carries the limits of the plan over the change
of sign with `RateAssumption`; the inductive invariant keeps both `P_Out` and the recorded powers within
the rates, which is what `CanDischarge` and `CanCharge` need whichever of the two is stale
(`InvertersWithinRates`). `SecondStep` shows that the second element of the thinned, rotated baseline
is the row `TInc` later or, over the end, `TInc` later less the length (`PlansAreAhead`).
`RecordsAgree` and `TypeCorrect` follow from the same invariant. `CommitsBalance` and `PlansBalance` sum over
the batteries: setting one of them changes the total by as much (`TotalUpdate`), so the one that takes
the whole difference ends it, and a plan that balances by its signs balances by
GridLAB-D's (`SolutionBalances`).

*Only model-checked:* everything that needs fairness (`ImplementsCalls` with its liveness,
`PipelineEnds`): the prover has no rule for `WF_` and `ENABLED`. What carries these in the code, that every step
of a call and every turn of a search counts, is proved (`AnswersComeNearer`, `WorkEnds`). The
violated properties are counterexamples and need no proof.

## 8. Findings

1. **A packet may outlast its deadline** (`vb_packet`). When the packet of a device ends, its restart
   may ask for another one. A request is no effect on the load, and a rejected one is
   followed by nothing, so the load runs on in `PEM_OFF` (`vb_device.py:301`).
2. **A preempted device is lost** (`vb_members`). It keeps the deadline of the packet it lost; the
   next commit finds it waiting, without effect, and leaves it out of the dictionary
   (`virtual_battery.py:73`). The load stays off for the rest of the simulation.
3. **A server that dies while loading blocks `on_init`** (`link_start`), although `on_init` means
   to go on without the server (`absorption.py:84`).
4. **Balance before management** (`control_plan`): `powerbal[tuple(island)]` raises `KeyError` for
   an island formed between two managements (`absorption.py:820`).
5. **Houses reconnected into the wrong battery** (`control_members`): `houses_off` is shared by all
   islands (`absorption.py:679`).
6. **Houses stranded without a thermostat** (`control_thermostat`): `islanded_devices` is that of
   the islands before the change (`absorption.py:798`).
7. **The loop constraint is on the wrong branches** (`islanding_loops`). `find_cycles` returns
   nodes, `islanding_core` uses them as branch indices (`islanding.jl:198`), so the result may
   close a cycle.

## 9. What is not modelled

- The mixed-integer and linear programs themselves (`islanding_core`, `manage_island`): real
  arithmetic. Their results are free choices within the switch constraints, so every
  invariant holds for any answer, or there is none (no optimal solution). When that is the case depends on loads and
  generation: a feeder without loads has none (`islanding.jl:152`). That the solvers return is assumed.
- Within `manage_island`, the energies over the horizon and the objective: they narrow the free
  choice `Solutions` makes. Solar inverters, which follow the plan.
- `packetize_baseline`, `test_setpoint` and `vb_data_out`, modes behind constants that are off, and
  `update_flexible_load`, a report at the stop time.
- State of charge as a number: it feeds the optimization only. Its ends, which decide
  `REQ_die_roll`, are in.
- `log_gen`: whether it logs every change depends on the values of `fault_type`, because it takes a
  value for unchanged when it is part of the one before; they are set outside this repository.
- `load_control.py`, an older controller the example model has commented out: one mode per
  reading and no state.
- Payload strings, plots, voltage dumps, the parsing of command lines and the Julia test scripts:
  formatting or I/O without control state.
- Exceptions a malformed model or answer would raise: a property GridLAB-D does not have, an answer that is not
  JSON, a baseline without a timestamp column. In `JuliaLink` any exception may end a callback; `AbsorptionControl`
  only has those named in section 3.
- GridLAB-D: a commit reads any temperature, load and fault of the instance. When a toggled
  switch takes effect is not known from this repository, so the model has it take effect at once; nor whether `on_term` is called
  after an exception, so both are in.
