------------------------ MODULE VirtualBatteryProofs ------------------------
(***************************************************************************)
(* The safety of the virtual battery, for any number of devices and any    *)
(* temperatures, loads, setpoints and commit times                         *)
(* (packetized/virtual_battery.py, absorption.packetize_island).           *)
(*                                                                         *)
(* IInv of VirtualBattery is shown to be inductive, one lemma per action,  *)
(* and the safety properties are read off it; then LimitInv, which bounds  *)
(* the quantities, and the setpoints that keep every device.               *)
(***************************************************************************)
EXTENDS VirtualBattery, VBDeviceProofs, FiniteSetTheorems

\* The powers a commit reads are naturals.
LEMMA LoadType == Loads \subseteq Nat
BY BatteryAssumption

\* initialize_devices builds vb_device objects.
LEMMA NewDeviceType ==
  ASSUME NEW d \in Device, NEW ends \in Nat
  PROVE  NewDevice(d, ends) \in DeviceRec
<1>1. InitialLoad[d] \in Nat
  BY BatteryAssumption, LoadType
<1>2. DefaultDraw \in Nat
  BY BatteryAssumption
<1> QED
  BY <1>1, <1>2 DEF NewDevice, DeviceRec, PemStates

\* The invariant holds before the first commit.
LEMMA InitInv == Init => IInv
<1> SUFFICES ASSUME Init PROVE IInv
  OBVIOUS
<1>1. TypeOK
  <2>1. device \in [Device -> DeviceRec]
    BY NewDeviceType DEF Init
  <2>2. ahead \in [Device -> SUBSET Device] /\ setpoint \in Setpoints
    BY BatteryAssumption DEF Init, NewOrders
  <2> QED
    BY <2>1, <2>2 DEF Init, TypeOK, Phases, Drives, Orders
<1>2. Shape /\ Orderly /\ PreemptedInv /\ AbsentInv
  BY DEF Init, Shape, Orderly, PreemptedInv, AbsentInv, Present
<1>3. DevicesInv
  BY DEF Init, DevicesInv, Rested, NewDevice
<1> QED
  BY <1>1, <1>2, <1>3 DEF IInv

-----------------------------------------------------------------------------
\* The actions that only move the commit on.
LEMMA BeginCommitInv == IInv /\ BeginCommit => IInv'
<1> SUFFICES ASSUME IInv, BeginCommit PROVE IInv'
  OBVIOUS
<1> USE DEF IInv, BeginCommit
<1>1. TypeOK'
  BY DEF TypeOK, Phases
<1>2. Shape' /\ Orderly' /\ PreemptedInv'
  BY DEF Shape, Orderly, PreemptedInv
<1>3. DevicesInv'
  BY DEF Shape, DevicesInv, Rested, Visited
<1>4. AbsentInv'
  BY DEF Shape, AbsentInv, Present, Shed
<1> QED
  BY <1>1, <1>2, <1>3, <1>4

\* Installing the new dictionary: what it does not hold was switched off.
LEMMA EndPemInv == IInv /\ EndPem => IInv'
<1> SUFFICES ASSUME IInv, EndPem PROVE IInv'
  OBVIOUS
<1> USE DEF IInv, EndPem
<1>1. TypeOK'
  BY DEF TypeOK, Phases
<1>2. Shape' /\ Orderly' /\ PreemptedInv'
  BY DEF Shape, Orderly, PreemptedInv
<1>3. DevicesInv'
  BY DEF Shape, DevicesInv, Rested, Visited
<1>4. AbsentInv'
  BY DEF AbsentInv, Present, Shed
<1> QED
  BY <1>1, <1>2, <1>3, <1>4

\* The last request has been answered.
LEMMA EndRequestsInv == IInv /\ EndRequests => IInv'
<1> SUFFICES ASSUME IInv, EndRequests PROVE IInv'
  OBVIOUS
<1> USE DEF IInv, EndRequests, commitVars, batteryVars
<1>1. TypeOK'
  BY DEF TypeOK, Phases
<1>2. Shape' /\ Orderly' /\ PreemptedInv'
  BY DEF Shape, Orderly, PreemptedInv
<1>3. DevicesInv'
  BY DEF DevicesInv, Rested, Visited
<1>4. AbsentInv'
  BY DEF AbsentInv, Present, Shed
<1> QED
  BY <1>1, <1>2, <1>3, <1>4

-----------------------------------------------------------------------------
\* handle_power_requests.
LEMMA RejectRequestInv ==
  ASSUME IInv, NEW q \in requests, RejectRequest(q)
  PROVE  IInv'
<1> USE DEF IInv, RejectRequest, batteryVars
<1>1. TypeOK'
  BY DEF TypeOK
<1>2. Shape' /\ Orderly' /\ PreemptedInv'
  BY DEF Shape, Orderly, PreemptedInv
<1>3. DevicesInv'
  BY DEF DevicesInv, Rested, Visited
<1>4. AbsentInv'
  BY DEF AbsentInv, Present, Shed
<1> QED
  BY <1>1, <1>2, <1>3, <1>4

\* A granted packet is ordered on, and no order of the commit contradicts it.
LEMMA AcceptRequestInv ==
  ASSUME IInv, NEW q \in requests, AcceptRequest(q)
  PROVE  IInv'
<1> USE DEF IInv, AcceptRequest
<1>1. q.id \in Device /\ q.kw \in Nat /\ device[q.id] \in DeviceRec
  BY DEF TypeOK, Request
<1>2. /\ RequestAccepted(device[q.id], clock) \in DeviceRec
      /\ RequestAccepted(device[q.id], clock).pem =
           IF device[q.id].pem = "PEM_OFF" THEN "PEM_ON" ELSE device[q.id].pem
  <2>1. clock + ControlEpoch \in Nat /\ device[q.id].kw \in Nat /\ "PEM_ON" \in PemStates
    BY <1>1, DeviceAssumption DEF TypeOK, DeviceRec, PemStates
  <2> QED
    BY <1>1, <2>1, UpdateType DEF RequestAccepted
<1>3. TypeOK'
  BY <1>1, <1>2 DEF TypeOK
<1>4. Shape' /\ Orderly' /\ PreemptedInv'
  BY <1>1 DEF Shape, Orderly, PreemptedInv
<1>5. DevicesInv'
  <2>1. \A d \in kept : Visited(d)'
    BY <1>1, <1>2 DEF DevicesInv, Visited, TypeOK
  <2>2. pending' = {} /\ phase' # "waiting"
    BY DEF Shape
  <2> QED
    BY <2>1, <2>2 DEF DevicesInv
<1>6. AbsentInv'
  BY DEF AbsentInv, Present, Shed
<1> QED
  BY <1>3, <1>4, <1>5, <1>6

\* The orders of a commit reach the simulator: what was visited is at rest.
LEMMA SendEffectsInv == IInv /\ SendEffects => IInv'
<1> SUFFICES ASSUME IInv, SendEffects PROVE IInv'
  OBVIOUS
<1> USE DEF IInv, batteryVars
<1>1. PICK step \in Steps : clock' = clock + step
  BY DEF SendEffects
<1>2. clock' \in Nat /\ clock' # 0 /\ clock + CommEpoch <= clock'
  BY <1>1, StepAssumption, BatteryAssumption, DeviceAssumption DEF TypeOK
<1>3. /\ \A d \in turn_off : ordered'[d] = "off"
      /\ \A d \in turn_on : ordered'[d] \in Running
      /\ \A d \in Device \ (turn_on \cup turn_off) : ordered'[d] = ordered[d]
  BY DEF SendEffects, TypeOK, Orderly, Drives, Running
<1>4. TypeOK'
  BY <1>2 DEF SendEffects, TypeOK, Phases, Drives, Running, Orders
<1>5. Shape' /\ Orderly'
  BY DEF SendEffects, Shape, Orderly
<1>6. DevicesInv'
  <2>1. ASSUME NEW d \in members PROVE Rested(d)'
    <3>1. Visited(d) /\ device' = device /\ preempted' = preempted
      BY DEF SendEffects, Shape, DevicesInv
    <3>2. device[d].ends \in Nat
      BY DEF TypeOK, DeviceRec
    <3> QED
      BY <1>2, <1>3, <3>1, <3>2, DeviceAssumption DEF Rested, Visited, TypeOK
  <2>2. \A d \in Device : all_devices'[d] <= clock'
    <3>1. clock <= clock'
      BY <1>2, DeviceAssumption DEF TypeOK
    <3> QED
      BY <1>2, <3>1 DEF SendEffects, DevicesInv, TypeOK
  <2> QED
    BY <2>1, <2>2 DEF SendEffects, DevicesInv
<1>7. PreemptedInv'
  BY <1>3 DEF SendEffects, PreemptedInv, Shape, TypeOK
<1>8. AbsentInv'
  BY <1>3 DEF SendEffects, AbsentInv, Present, Shed, Shape, Orderly
<1> QED
  BY <1>4, <1>5, <1>6, <1>7, <1>8

-----------------------------------------------------------------------------
\* Load shedding between commits.
LEMMA TurnOffHouseInv ==
  ASSUME IInv, NEW h \in House, TurnOffHouse(h)
  PROVE  IInv'
<1> USE DEF IInv, TurnOffHouse
<1>1. TypeOK'
  BY DEF TypeOK, Orders, commitVars
<1>2. Shape' /\ Orderly' /\ PreemptedInv'
  BY DEF Shape, Orderly, PreemptedInv, commitVars, TypeOK
<1>3. DevicesInv'
  BY DEF DevicesInv, Rested, Visited, commitVars, Shape, TypeOK
<1>4. AbsentInv'
  <2>1. ASSUME NEW d \in Device, d \notin members' PROVE ordered'[d] = "off" /\ (d \in preempted \/ Shed(d)')
    BY <2>1 DEF AbsentInv, Present, Shed
  <2> QED
    BY <2>1 DEF AbsentInv, Present
<1> QED
  BY <1>1, <1>2, <1>3, <1>4

\* Reconnected devices are due at once, so the next commit keeps them.
LEMMA TurnOnHouseInv ==
  ASSUME IInv, NEW h \in House, TurnOnHouse(h)
  PROVE  IInv'
<1> USE DEF IInv, TurnOnHouse, DueNow
<1> DEFINE back == {h, HeaterOf[h]}
<1>1. back \subseteq Device
  BY BatteryAssumption
<1>2. TypeOK'
  <2>1. device' \in [Device -> DeviceRec]
    BY <1>1, NewDeviceType DEF TypeOK
  <2>2. ahead' \in [Device -> SUBSET Device]
    BY DEF TypeOK, Inserted
  <2> QED
    BY <1>1, <2>1, <2>2 DEF TypeOK, commitVars
<1>3. Shape' /\ Orderly' /\ PreemptedInv'
  BY DEF Shape, Orderly, PreemptedInv, commitVars, TypeOK
<1>4. DevicesInv'
  <2>1. ASSUME NEW d \in members' PROVE Rested(d)'
    <3>1. CASE d \in back
      BY <1>1, <3>1 DEF Rested, NewDevice, TypeOK
    <3>2. CASE d \notin back
      BY <1>1, <3>2 DEF DevicesInv, Rested, TypeOK
    <3> QED
      BY <3>1, <3>2
  <2>2. \A d \in Device : all_devices'[d] <= clock'
    BY DEF DevicesInv, TypeOK
  <2> QED
    BY <2>1, <2>2 DEF DevicesInv, Shape, commitVars
<1>5. AbsentInv'
  <2>1. ASSUME NEW d \in Device, d \notin members' PROVE ordered'[d] = "off" /\ (d \in preempted' \/ Shed(d)')
    <3>1. d \notin back /\ d \notin Present
      BY <2>1 DEF Present
    <3>2. ordered[d] = "off" /\ (d \in preempted \/ Shed(d))
      BY <3>1 DEF AbsentInv
    <3>3. Shed(d) => Shed(d)'
      BY <3>1 DEF Shed
    <3> QED
      BY <3>1, <3>2, <3>3
  <2> QED
    BY <2>1 DEF AbsentInv, Present
<1> QED
  BY <1>2, <1>3, <1>4, <1>5

\* A battery built again holds every device, and none of them has to wait.
LEMMA RebuildInv == IInv /\ Rebuild => IInv'
<1> SUFFICES ASSUME IInv, Rebuild PROVE IInv'
  OBVIOUS
<1> USE DEF IInv, Rebuild, commitVars
<1>1. TypeOK'
  <2>1. device' \in [Device -> DeviceRec]
    BY NewDeviceType DEF TypeOK
  <2> QED
    BY <2>1, BatteryAssumption DEF TypeOK, NewOrders
<1>2. Shape' /\ Orderly' /\ PreemptedInv'
  BY DEF Shape, Orderly, PreemptedInv, TypeOK
<1>3. DevicesInv'
  <2>1. ASSUME NEW d \in Device PROVE Rested(d)'
    BY DEF DevicesInv, Rested, NewDevice, TypeOK
  <2> QED
    BY <2>1 DEF DevicesInv, Shape
<1>4. AbsentInv'
  BY DEF AbsentInv, Present
<1> QED
  BY <1>1, <1>2, <1>3, <1>4

-----------------------------------------------------------------------------
\* apply_pem_changes.  What the loop knows of the device it visits.
LEMMA VisitedDevice ==
  ASSUME IInv, phase = "pem", NEW d \in pending, NEW t \in Temps[Kind(d)],
         NEW heating \in BOOLEAN, NEW load \in Loads,
         NEW dev, dev = Update(device[d], device[d].pem, 0, load),
         NEW res \in Pem(Kind(d), [temp |-> t, heating |-> heating], dev, clock)
  PROVE  /\ dev \in DeviceRec /\ dev.pem = device[d].pem /\ dev.ends = device[d].ends
         /\ PemPromise(Kind(d), t, clock, res)
         /\ res.eff.kind = "none" => dev.pem = "PEM_OFF" /\ clock < dev.ends
         /\ dev.pem = "PEM_ON" /\ clock < dev.ends
              => res.dev = dev \/ res.dev.pem \in {"EXIT_ON", "EXIT_OFF"}
<1> DEFINE r == [temp |-> t, heating |-> heating]
<1>1. Kind(d) \in Kinds /\ t \in Int
  BY BatteryAssumption DEF Kind, Kinds
<1>2. r \in Readings /\ r.temp = t
  BY <1>1 DEF Readings
<1>3. d \in Device /\ device[d] \in DeviceRec /\ clock \in Nat /\ load \in Nat
  BY LoadType DEF IInv, TypeOK
<1>4. device[d].pem \in PemStates
  BY <1>3 DEF DeviceRec
<1>5. dev \in DeviceRec /\ dev.pem = device[d].pem /\ dev.ends = device[d].ends
  BY <1>3, <1>4, UpdateType
<1>6. clock # 0 \/ dev.pem = "PEM_OFF"
  BY <1>5 DEF IInv, DevicesInv, Rested
<1>7. PemPromise(Kind(d), t, clock, res)
  BY <1>1, <1>2, <1>3, <1>5, <1>6, PemResult
<1>8. res.eff.kind = "none" => dev.pem = "PEM_OFF" /\ clock < dev.ends
  BY <1>1, <1>2, <1>3, <1>5, <1>6, PemWaits
<1>9. dev.pem = "PEM_ON" /\ clock < dev.ends
        => res.dev = dev \/ res.dev.pem \in {"EXIT_ON", "EXIT_OFF"}
  BY <1>1, <1>2, <1>3, <1>5, PemOnKeeps
<1> QED
  BY <1>5, <1>7, <1>8, <1>9

\* One iteration of the loop, by the effect pem() returned.
LEMMA PemStepInv ==
  ASSUME IInv, NEW d \in Device, PemStep(d)
  PROVE  IInv'
<1> USE DEF IInv
<1>1. phase = "pem" /\ d \in pending
  BY DEF PemStep
<1>2. PICK t \in Temps[Kind(d)], heating \in BOOLEAN, load \in Loads :
        LET dev == Update(device[d], device[d].pem, 0, load)
        IN  \E res \in Pem(Kind(d), [temp |-> t, heating |-> heating], dev, clock) :
              /\ Visit(d, dev, res)
              /\ drive' = IF res.eff.kind \in {"on", "request"}
                          THEN [drive EXCEPT ![d] = Drive(Kind(d), t)] ELSE drive
  BY DEF PemStep
<1> DEFINE dev == Update(device[d], device[d].pem, 0, load)
<1>3. PICK res \in Pem(Kind(d), [temp |-> t, heating |-> heating], dev, clock) :
        /\ Visit(d, dev, res)
        /\ drive' = IF res.eff.kind \in {"on", "request"}
                    THEN [drive EXCEPT ![d] = Drive(Kind(d), t)] ELSE drive
  BY <1>2
<1> HIDE DEF dev
<1>4. /\ dev \in DeviceRec /\ dev.pem = device[d].pem /\ dev.ends = device[d].ends
      /\ PemPromise(Kind(d), t, clock, res)
      /\ res.eff.kind = "none" => dev.pem = "PEM_OFF" /\ clock < dev.ends
  BY <1>1, <1>3, VisitedDevice DEF dev
<1>5. /\ pending' = pending \ {d}
      /\ UNCHANGED <<clock, phase, setpoint, members, ahead, all_devices, totalkw, ordered, houses_off>>
  BY DEF PemStep
<1>6. \A e \in Device : e # d => drive'[e] = drive[e]
  BY <1>3 DEF TypeOK
<1>7. drive' \in [Device -> Drives]
  <2>1. Drive(Kind(d), t) \in Drives
    BY DEF Drive, Drives
  <2> QED
    BY <1>3, <2>1 DEF TypeOK
<1>8. d \notin kept \cup turn_on \cup turn_off /\ \A q \in requests : q.id # d
  BY <1>1 DEF Shape, Orderly
<1>9. CASE Forget(res)
  <2>1. d \in preempted /\ ordered[d] = "off"
    BY <1>1, <1>4, <1>8, <1>9 DEF Forget, DevicesInv, Rested, PreemptedInv, TypeOK, DeviceRec
  <2>2. TypeOK'
    BY <1>5, <1>7, <1>9 DEF Forget, TypeOK
  <2>3. Shape' /\ Orderly' /\ PreemptedInv'
    <3>1. drive' = drive
      BY <1>3, <1>9 DEF Forget
    <3> QED
      BY <1>1, <1>5, <1>9, <3>1 DEF Forget, Shape, Orderly, PreemptedInv
  <2>4. DevicesInv'
    BY <1>1, <1>5, <1>9 DEF Forget, DevicesInv, Rested, Visited
  <2>5. AbsentInv'
    BY <1>1, <1>5, <1>9, <2>1 DEF Forget, AbsentInv, Present, Shed
  <2> QED
    BY <2>2, <2>3, <2>4, <2>5
<1>10. ASSUME NEW new \in DeviceRec, Keep(d, new), totalload' \in Nat,
              requests' \subseteq Request, turn_on' \subseteq Device, turn_off' \subseteq Device,
              preempted' \subseteq Device
       PROVE  TypeOK'
  <2>1. new.kw \in Nat
    BY DEF DeviceRec
  <2> QED
    BY <1>1, <1>5, <1>7, <1>10, <2>1 DEF Keep, TypeOK
<1>11. ASSUME NEW new \in DeviceRec, Keep(d, new), preempted' \ {d} = preempted \ {d},
              turn_on \subseteq turn_on', turn_off \subseteq turn_off', Visited(d)'
       PROVE  DevicesInv' /\ AbsentInv'
  <2>1. \A e \in Device \ {d} : device'[e] = device[e]
    BY <1>11 DEF Keep, TypeOK
  <2>2. \A e \in pending' : Rested(e)'
    BY <1>1, <1>5, <1>11, <2>1 DEF DevicesInv, Rested, TypeOK
  <2>3. \A e \in kept' : Visited(e)'
    BY <1>1, <1>5, <1>8, <1>11, <2>1 DEF DevicesInv, Visited, TypeOK, Keep
  <2>4. AbsentInv'
    BY <1>1, <1>5, <1>11 DEF Keep, AbsentInv, Present, Shed
  <2> QED
    BY <1>1, <1>5, <2>2, <2>3, <2>4 DEF DevicesInv
<1>12. CASE GrantOn(d, res)
  <2>1. /\ res.dev \in DeviceRec /\ res.dev.pem \in {"PEM_ON", "EXIT_ON"}
        /\ res.eff.kw \in Nat /\ drive'[d] # "keep"
    BY <1>1, <1>3, <1>4, <1>12 DEF GrantOn, PemPromise, Effects, TypeOK
  <2>2. Keep(d, res.dev) /\ turn_on' = turn_on \cup {d} /\ turn_off' = turn_off /\ requests' = requests
        /\ preempted' = preempted \ {d}
    BY <1>12 DEF GrantOn
  <2>3. device'[d] = res.dev /\ kept' = kept \cup {d}
    BY <2>2 DEF Keep, TypeOK
  <2>4. TypeOK'
    BY <1>10, <1>12, <2>1, <2>2 DEF GrantOn, TypeOK
  <2>5. DevicesInv' /\ AbsentInv'
    BY <1>11, <2>1, <2>2, <2>3 DEF Visited
  <2>6. Shape' /\ Orderly' /\ PreemptedInv'
    BY <1>1, <1>5, <1>6, <1>8, <2>1, <2>2, <2>3 DEF Shape, Orderly, PreemptedInv, TypeOK, Request
  <2> QED
    BY <2>4, <2>5, <2>6
<1>13. CASE Preempt(d, dev, res)
  <2> DEFINE new == Update(dev, "PEM_OFF", 0, dev.kw)
  <2>1. new \in DeviceRec /\ new.pem = "PEM_OFF"
    <3>1. dev.kw \in Nat /\ "PEM_OFF" \in PemStates
      BY <1>4 DEF DeviceRec, PemStates
    <3> QED
      BY <1>4, <3>1, UpdateType
  <2> HIDE DEF new
  <2>2. Keep(d, new) /\ turn_off' = turn_off \cup {d} /\ turn_on' = turn_on /\ requests' = requests
        /\ preempted' = preempted \cup {d} /\ totalload' = totalload
    BY <1>13 DEF Preempt, new
  <2>3. device'[d] = new /\ kept' = kept \cup {d}
    BY <2>2 DEF Keep, TypeOK
  <2>4. TypeOK'
    BY <1>10, <2>1, <2>2 DEF TypeOK
  <2>5. DevicesInv' /\ AbsentInv'
    BY <1>11, <2>1, <2>2, <2>3 DEF Visited
  <2>6. Shape' /\ Orderly' /\ PreemptedInv'
    BY <1>1, <1>5, <1>6, <1>8, <2>2, <2>3 DEF Shape, Orderly, PreemptedInv, TypeOK, Request
  <2> QED
    BY <2>4, <2>5, <2>6
<1>14. CASE QueueRequest(d, res)
  <2>1. /\ res.dev \in DeviceRec /\ res.eff.kw \in Nat /\ drive'[d] # "keep"
        /\ res.dev.pem = "PEM_OFF" /\ res.dev.ends = clock + CommEpoch
    BY <1>1, <1>3, <1>4, <1>14 DEF QueueRequest, PemPromise, Effects, TypeOK, DeviceRec, PemStates
  <2>2. Keep(d, res.dev) /\ turn_on' = turn_on /\ turn_off' = turn_off /\ preempted' = preempted \ {d}
        /\ requests' = requests \cup {[id |-> d, kw |-> res.eff.kw]} /\ totalload' = totalload
    BY <1>14 DEF QueueRequest
  <2>3. device'[d] = res.dev /\ kept' = kept \cup {d}
    BY <2>2 DEF Keep, TypeOK
  <2>4. TypeOK'
    BY <1>10, <2>1, <2>2 DEF TypeOK, Request
  <2>5. DevicesInv' /\ AbsentInv'
    BY <1>5, <1>11, <2>1, <2>2, <2>3, DeviceAssumption DEF Visited, TypeOK
  <2>6. Shape' /\ Orderly' /\ PreemptedInv'
    BY <1>1, <1>5, <1>6, <1>8, <2>1, <2>2, <2>3 DEF Shape, Orderly, PreemptedInv, TypeOK, Request
  <2> QED
    BY <2>4, <2>5, <2>6
<1>15. CASE SwitchOff(d, res)
  <2>1. /\ res.dev \in DeviceRec /\ res.dev.pem \in {"PEM_OFF", "EXIT_OFF"}
        /\ res.dev.pem = "PEM_OFF" => res.dev.ends = clock + CommEpoch
    BY <1>4, <1>15 DEF SwitchOff, PemPromise, DeviceRec, PemStates
  <2>2. Keep(d, res.dev) /\ turn_on' = turn_on /\ turn_off' = turn_off \cup {d}
        /\ preempted' = preempted \ {d} /\ requests' = requests /\ totalload' = totalload
    BY <1>15 DEF SwitchOff
  <2>3. device'[d] = res.dev /\ kept' = kept \cup {d}
    BY <2>2 DEF Keep, TypeOK
  <2>4. TypeOK'
    BY <1>10, <2>1, <2>2 DEF TypeOK
  <2>5. DevicesInv' /\ AbsentInv'
    BY <1>5, <1>11, <2>1, <2>2, <2>3, DeviceAssumption DEF Visited, TypeOK
  <2>6. Shape' /\ Orderly' /\ PreemptedInv'
    BY <1>1, <1>5, <1>6, <1>8, <2>2, <2>3 DEF Shape, Orderly, PreemptedInv, TypeOK, Request
  <2> QED
    BY <2>4, <2>5, <2>6
<1> QED
  BY <1>3, <1>9, <1>12, <1>13, <1>14, <1>15 DEF Visit

-----------------------------------------------------------------------------
\* Every step keeps the invariant.
LEMMA NextInv == IInv /\ [Next]_vars => IInv'
<1> SUFFICES ASSUME IInv, [Next]_vars PROVE IInv'
  OBVIOUS
<1>1. CASE UNCHANGED vars
  BY <1>1 DEF vars, batteryVars, commitVars, IInv, TypeOK, Shape, Orderly, DevicesInv, Rested, Visited,
              PreemptedInv, AbsentInv, Present, Shed
<1>2. CASE BeginCommit
  BY <1>2, BeginCommitInv
<1>3. ASSUME NEW d \in Device, PemStep(d) PROVE IInv'
  BY <1>3, PemStepInv
<1>4. CASE EndPem
  BY <1>4, EndPemInv
<1>5. ASSUME NEW q \in requests, AcceptRequest(q) \/ RejectRequest(q) PROVE IInv'
  BY <1>5, AcceptRequestInv, RejectRequestInv
<1>6. CASE EndRequests
  BY <1>6, EndRequestsInv
<1>7. CASE SendEffects
  BY <1>7, SendEffectsInv
<1>8. ASSUME NEW h \in House, TurnOffHouse(h) \/ TurnOnHouse(h) PROVE IInv'
  BY <1>8, TurnOffHouseInv, TurnOnHouseInv
<1>9. CASE Rebuild
  BY <1>9, RebuildInv
<1> QED
  BY <1>1, <1>2, <1>3, <1>4, <1>5, <1>6, <1>7, <1>8, <1>9 DEF Next, SimulationOver

\* The inductive invariant holds in every state of the battery.
THEOREM Invariance == Spec => []IInv
<1>1. Init => IInv
  BY InitInv
<1>2. IInv /\ [Next]_vars => IInv'
  BY NextInv
<1> QED
  BY <1>1, <1>2, PTL DEF Spec

\* Every variable keeps its type.
THEOREM TypeCorrect == Spec => []TypeOK
<1>1. IInv => TypeOK
  BY DEF IInv
<1> QED
  BY <1>1, Invariance, PTL

\* A device falls out of the battery only right after it was switched off for
\* want of setpoint: apply_pem_changes loses no other one.
THEOREM LossesArePreemptions == Spec => []OnlyPreemptedAreLost
<1>1. IInv => OnlyPreemptedAreLost
  BY DEF IInv, AbsentInv, Present, OnlyPreemptedAreLost, Lost
<1> QED
  BY <1>1, Invariance, PTL

\* A device the battery no longer holds was left switched off.
THEOREM NoLoadOutOfControl == Spec => []LostDevicesAreOff
<1>1. IInv => LostDevicesAreOff
  BY DEF IInv, AbsentInv, Present, LostDevicesAreOff
<1> QED
  BY <1>1, Invariance, PTL

\* No commit orders a device both on and off.
THEOREM OrdersAgree == Spec => []OneOrderPerDevice
<1>1. IInv => OneOrderPerDevice
  BY DEF IInv, Orderly, OneOrderPerDevice
<1> QED
  BY <1>1, Invariance, PTL

\* Between commits the simulator runs every device in PEM_ON or EXIT_ON and
\* none in EXIT_OFF.
THEOREM SimulatorFollows == Spec => []OrderMatchesState
<1>1. IInv => OrderMatchesState
  BY DEF IInv, DevicesInv, Rested, OrderMatchesState
<1> QED
  BY <1>1, Invariance, PTL

-----------------------------------------------------------------------------
\* A visit leaves a packet with time left alone, or ends it by an exit state or for
\* want of setpoint.
LEMMA VisitHonours ==
  ASSUME IInv, NEW e \in Device, PemStep(e), NEW d \in Device, InPacket(d), clock < device[d].ends
  PROVE  \/ InPacket(d)' /\ device'[d].ends = device[d].ends
         \/ device'[d].pem \in {"EXIT_ON", "EXIT_OFF"}
         \/ totalload >= RoundKW(setpoint) /\ d \in preempted' \cap turn_off'
<1>1. PICK t \in Temps[Kind(e)], heating \in BOOLEAN, load \in Loads :
        LET dev == Update(device[e], device[e].pem, 0, load)
        IN  \E res \in Pem(Kind(e), [temp |-> t, heating |-> heating], dev, clock) : Visit(e, dev, res)
  BY DEF PemStep
<1> DEFINE dev == Update(device[e], device[e].pem, 0, load)
<1>2. PICK res \in Pem(Kind(e), [temp |-> t, heating |-> heating], dev, clock) : Visit(e, dev, res)
  BY <1>1
<1> HIDE DEF dev
<1>3. /\ phase = "pem" /\ phase' = "pem" /\ e \in pending /\ pending' = pending \ {e}
      /\ d \in pending \cup kept /\ device[d].pem = "PEM_ON"
  BY DEF PemStep, InPacket, Present
<1>4. Present' = pending' \cup kept'
  BY <1>3 DEF Present
<1>5. CASE d # e
  <2>1. device'[d] = device[d] /\ kept \subseteq kept'
    BY <1>2, <1>5 DEF IInv, TypeOK, Visit, Forget, GrantOn, Preempt, QueueRequest, SwitchOff, Keep
  <2> QED
    BY <1>3, <1>4, <1>5, <2>1 DEF InPacket
<1>6. CASE d = e
  <2>1. /\ dev.pem = "PEM_ON" /\ dev.ends = device[d].ends
        /\ res.dev = dev \/ res.dev.pem \in {"EXIT_ON", "EXIT_OFF"}
        /\ res.eff.kind # "none"
    BY <1>2, <1>3, <1>6, VisitedDevice DEF dev
  <2>2. \/ device'[d] = res.dev /\ d \in kept'
        \/ totalload >= RoundKW(setpoint) /\ d \in preempted' \cap turn_off'
    BY <1>2, <1>6, <2>1 DEF IInv, TypeOK, Visit, Forget, GrantOn, Preempt, QueueRequest, SwitchOff, Keep
  <2> QED
    BY <1>4, <2>1, <2>2 DEF InPacket
<1> QED
  BY <1>5, <1>6

\* A packet with time left goes on through every step that is not one of the five
\* that end it: exit, preemption, disconnection, reconnection, new islands.
THEOREM PacketsHonoured == Spec => PacketHonoured
<1> DEFINE Honoured(d) ==
      \/ InPacket(d)' /\ device'[d].ends = device[d].ends
      \/ phase = "pem" /\ device'[d].pem \in {"EXIT_ON", "EXIT_OFF"}
      \/ phase = "pem" /\ totalload >= RoundKW(setpoint) /\ d \in preempted' \cap turn_off'
      \/ d \notin members' /\ Shed(d)'
      \/ Shed(d) /\ ~Shed(d)'
      \/ members' = Device /\ device' = [e \in Device |-> NewDevice(e, all_devices[e])]
<1>1. IInv /\ Next => \A d \in Device : InPacket(d) /\ clock < device[d].ends => Honoured(d)
  <2> SUFFICES ASSUME IInv, Next, NEW d \in Device, InPacket(d), clock < device[d].ends
               PROVE  Honoured(d)
    OBVIOUS
  <2>1. ASSUME NEW e \in Device, PemStep(e) PROVE Honoured(d)
    <3>1. phase = "pem"
      BY <2>1 DEF PemStep
    <3> QED
      BY <2>1, <3>1, VisitHonours
  <2>2. CASE BeginCommit \/ EndPem \/ EndRequests \/ SendEffects \/ SimulationOver
             \/ \E q \in requests : RejectRequest(q)
    <3>1. device' = device /\ Present' = Present
      BY <2>2 DEF BeginCommit, EndPem, EndRequests, SendEffects, SimulationOver, RejectRequest,
                  vars, commitVars, batteryVars, IInv, Shape, Present
    <3> QED
      BY <3>1 DEF InPacket
  <2>3. ASSUME NEW q \in requests, AcceptRequest(q) PROVE Honoured(d)
    <3>1. /\ device' = [device EXCEPT ![q.id] = RequestAccepted(@, clock)]
          /\ phase = "requests" /\ phase' = "requests" /\ members' = members
      BY <2>3 DEF AcceptRequest
    <3>2. device'[d] = device[d]
      BY <3>1 DEF IInv, TypeOK, InPacket, RequestAccepted
    <3> QED
      BY <3>1, <3>2 DEF InPacket, Present
  <2>4. ASSUME NEW h \in House, TurnOffHouse(h) PROVE Honoured(d)
    <3>1. /\ members' = members \ (members \cap {h, HeaterOf[h]}) /\ houses_off' = houses_off \cup {h}
          /\ phase = "waiting" /\ phase' = "waiting" /\ device' = device
      BY <2>4 DEF TurnOffHouse
    <3> QED
      BY <3>1 DEF InPacket, Present, Shed
  <2>5. ASSUME NEW h \in House, TurnOnHouse(h) PROVE Honoured(d)
    <3>1. /\ phase = "waiting" /\ phase' = "waiting" /\ h \in houses_off
          /\ members' = members \cup {h, HeaterOf[h]}
          /\ device' = [e \in Device |-> IF e \in {h, HeaterOf[h]} THEN NewDevice(e, DueNow)
                                        ELSE device[e]]
          /\ houses_off' = houses_off \ {h}
      BY <2>5 DEF TurnOnHouse
    <3>2. CASE d \in {h, HeaterOf[h]}
      <4>1. houses_off \subseteq House /\ HeaterOf \in [House -> Device \ House]
            /\ \A g \in House : HeaterOf[g] = HeaterOf[h] => g = h
        BY BatteryAssumption DEF IInv, TypeOK
      <4>2. Shed(d) /\ ~Shed(d)'
        BY <3>1, <3>2, <4>1 DEF Shed
      <4> QED
        BY <4>2
    <3>3. CASE d \notin {h, HeaterOf[h]}
      BY <3>1, <3>3 DEF InPacket, Present
    <3> QED
      BY <3>2, <3>3
  <2>6. CASE Rebuild
    BY <2>6 DEF Rebuild
  <2> QED
    BY <2>1, <2>2, <2>3, <2>4, <2>5, <2>6 DEF Next
<1>2. IInv /\ [Next]_vars
        => [\A d \in Device : InPacket(d) /\ clock < device[d].ends => Honoured(d)]_vars
  BY <1>1
<1> QED
  BY <1>2, Invariance, PTL DEF Spec, PacketHonoured
-----------------------------------------------------------------------------
\* What a battery does to its loads, forgetting them in the middle of a commit
\* included, is what IslandLoads allows: it lets go of none that runs, orders
\* none it does not hold, and gives none back to its thermostat.
THEOREM BatteryImplementsIsland == Spec => ImplementsIsland
<1> USE DEF Island!Next, Island!vars
<1>1. Init => Island!Init
  BY DEF Init, Island!Init
<1>2. IInv /\ IInv' /\ [Next]_vars => [Island!Next]_(Island!vars)
  <2> SUFFICES ASSUME IInv, IInv', [Next]_vars PROVE [Island!Next]_(Island!vars)
    OBVIOUS
  <2>1. CASE BeginCommit \/ EndPem \/ EndRequests \/ SimulationOver \/ UNCHANGED vars
             \/ \E q \in requests : AcceptRequest(q) \/ RejectRequest(q)
    <3>1. ordered' = ordered /\ Present' = Present
      BY <2>1 DEF BeginCommit, EndPem, EndRequests, AcceptRequest, RejectRequest, SimulationOver,
                  vars, commitVars, batteryVars, IInv, Shape, Present
    <3> QED
      BY <3>1 DEF Present
  <2>2. ASSUME NEW d \in Device, PemStep(d) PROVE [Island!Next]_(Island!vars)
    <3>1. PICK dev, res : Visit(d, dev, res)
      BY <2>2 DEF PemStep
    <3>2. ordered' = ordered /\ phase = "pem" /\ phase' = "pem" /\ pending' = pending \ {d} /\ d \in pending
      BY <2>2 DEF PemStep
    <3>3. kept' = kept \/ kept' = kept \cup {d}
      BY <3>1 DEF Visit, Forget, GrantOn, Preempt, QueueRequest, SwitchOff, Keep
    <3>4. Present' \subseteq Present /\ Present \subseteq Device
      BY <3>2, <3>3 DEF Present, IInv, TypeOK
    <3>5. \A e \in Present \ Present' : ordered[e] = "off"
      BY <3>2, <3>4 DEF IInv, AbsentInv
    <3> QED
      BY <3>2, <3>4, <3>5 DEF Present, Island!Forget
  <2>3. CASE SendEffects
    <3>1. Present = members /\ Present' = members /\ members' = members
      BY <2>3 DEF SendEffects, batteryVars, Present
    <3>2. \A d \in Device : ordered'[d] # ordered[d] => d \in members /\ ordered'[d] # "free"
      BY <2>3 DEF SendEffects, IInv, TypeOK, Shape, Orderly, Drives
    <3>3. ordered' \in [Device -> Island!Words]
      BY DEF IInv, TypeOK, Orders, Running, Island!Words
    <3> QED
      BY <3>1, <3>2, <3>3 DEF Present, Island!Command
  <2>4. ASSUME NEW h \in House, TurnOffHouse(h) PROVE [Island!Next]_(Island!vars)
    <3> DEFINE gone == members \cap {h, HeaterOf[h]}
    <3>1. /\ Present = members /\ Present' = members' /\ members' = members \ gone
          /\ ordered' = [d \in Device |-> IF d \in gone THEN "off" ELSE ordered[d]]
      BY <2>4 DEF TurnOffHouse, Present
    <3>2. members \ members' = gone
      BY <3>1
    <3> QED
      BY <3>1, <3>2 DEF Present, Island!Release
  <2>5. CASE Rebuild \/ \E h \in House : TurnOnHouse(h)
    <3>1. /\ Present = members /\ Present' = members' /\ members \subseteq members'
          /\ members' \subseteq Device /\ ordered' = ordered
      BY <2>5 DEF Rebuild, TurnOnHouse, Present, IInv, TypeOK
    <3> QED
      BY <3>1 DEF Present, Island!Include
  <2> QED
    BY <2>1, <2>2, <2>3, <2>4, <2>5 DEF Next
<1> QED
  BY <1>1, <1>2, Invariance, PTL DEF Spec, ImplementsIsland, Island!Spec

-----------------------------------------------------------------------------
(* The quantities: how far a commit may go past the setpoint, and how long *)
(* a packet lasts.                                                         *)


\* A device whose powers are within the bound.
Limited(dev) == dev.last <= MaxDraw /\ dev.kw <= MaxDraw

\* What a handler, or pem(), makes of a limited device: powers stay within the
\* bound, and a device in PEM_ON is the one that came, in its packet.
KeepsLimits(dev, now, res) ==
  /\ res.dev \in DeviceRec /\ Limited(res.dev)
  /\ res.eff.kw \in Nat /\ res.eff.kw <= MaxDraw
  /\ res.dev.pem = "PEM_ON" => res.dev = dev /\ now < dev.ends

\* update() takes powers over.
LEMMA UpdateLimits ==
  ASSUME NEW dev \in DeviceRec, Limited(dev), NEW pem \in PemStates, NEW ends \in Nat,
         NEW load \in 0..MaxDraw
  PROVE  Limited(Update(dev, pem, ends, load))
BY BatteryAssumption DEF Limited, Update, DeviceRec

\* So does the update() of a handler, which reads the same load again.
LEMMA RenewLimits ==
  ASSUME NEW dev \in DeviceRec, Limited(dev), NEW pem \in PemStates, NEW ends \in Nat
  PROVE  LET new == Update(dev, pem, ends, dev.kw)
         IN  new \in DeviceRec /\ Limited(new) /\ new.pem = pem
<1>1. dev.kw \in Nat /\ dev.kw \in 0..MaxDraw
  BY BatteryAssumption DEF Limited, DeviceRec
<1> QED
  BY <1>1, UpdateType, UpdateLimits

\* The exits at the end of pem().
LEMMA FinishLimits ==
  ASSUME NEW kind \in Kinds, NEW r \in Readings, NEW dev, NEW now \in Nat, NEW res,
         KeepsLimits(dev, now, res)
  PROVE  KeepsLimits(dev, now, Finish(kind, r, res))
<1>1. "EXIT_ON" \in PemStates /\ "EXIT_OFF" \in PemStates /\ 0 \in Nat
  BY DEF PemStates
<1>2. ASSUME NEW pem \in {"EXIT_ON", "EXIT_OFF"}
      PROVE  LET new == Update(res.dev, pem, 0, res.dev.kw)
             IN  new \in DeviceRec /\ Limited(new) /\ new.pem = pem
  BY <1>1, RenewLimits DEF KeepsLimits
<1>3. CASE ExitOn(kind, r.temp, 0)
  <2>1. Finish(kind, r, res) = Result(Update(res.dev, "EXIT_ON", 0, res.dev.kw), TurnOn(res.dev))
    BY <1>3 DEF Finish, CheckExits, Result, TurnOn
  <2> QED
    BY <2>1, <1>2 DEF Result, TurnOn, KeepsLimits, Limited, DeviceRec
<1>4. CASE ~ExitOn(kind, r.temp, 0) /\ ExitOff(kind, r.temp, 0)
  <2>1. Finish(kind, r, res) = Result(Update(res.dev, "EXIT_OFF", 0, res.dev.kw), TurnOff)
    BY <1>4 DEF Finish, CheckExits, Result, TurnOff
  <2> QED
    BY <2>1, <1>2, BatteryAssumption DEF Result, TurnOff, KeepsLimits
<1>5. CASE ~ExitOn(kind, r.temp, 0) /\ ~ExitOff(kind, r.temp, 0)
  <2>1. Finish(kind, r, res) = Result(res.dev, res.eff)
    BY <1>5 DEF Finish, CheckExits, Result, NoEffect
  <2> QED
    BY <2>1 DEF Result, KeepsLimits
<1> QED
  BY <1>3, <1>4, <1>5

\* pem_off() never leaves a device in PEM_ON.
LEMMA PemOffLimits ==
  ASSUME NEW kind \in Kinds, NEW r \in Readings, NEW dev \in DeviceRec, Limited(dev),
         NEW now \in Nat, dev.pem = "PEM_OFF", NEW res \in PemOff(kind, r, dev, now), NEW any
  PROVE  KeepsLimits(any, now, res)
<1> DEFINE next == Update(dev, "PEM_OFF", now + CommEpoch, dev.kw)
<1>1. next \in DeviceRec /\ Limited(next) /\ next.pem = "PEM_OFF"
  <2>1. "PEM_OFF" \in PemStates /\ now + CommEpoch \in Nat
    BY DeviceAssumption DEF PemStates
  <2> QED
    BY <2>1, RenewLimits
<1> HIDE DEF next
<1>2. \/ res = Result(dev, NoEffect)
      \/ res = Result(next, PowerRequest(dev))
      \/ res = Result(next, TurnOff)
  BY DEF PemOff, next
<1>3. dev.last \in Nat
  BY DEF DeviceRec
<1> QED
  BY <1>1, <1>2, <1>3, BatteryAssumption
     DEF Result, NoEffect, PowerRequest, TurnOff, KeepsLimits, Limited

\* The restart of a packet, or after an exit.
LEMMA RestartLimits ==
  ASSUME NEW kind \in Kinds, NEW r \in Readings, NEW dev \in DeviceRec, Limited(dev),
         NEW now \in Nat, NEW res \in Restart(kind, r, dev, now), NEW any
  PROVE  KeepsLimits(any, now, res)
<1> DEFINE off == Update(dev, "PEM_OFF", now, dev.kw)
<1>1. off \in DeviceRec /\ Limited(off) /\ off.pem = "PEM_OFF"
  <2>1. "PEM_OFF" \in PemStates
    BY DEF PemStates
  <2> QED
    BY <2>1, RenewLimits
<1>2. PICK inner \in PemOff(kind, r, off, now) : res = Finish(kind, r, inner)
  BY DEF Restart
<1> HIDE DEF off
<1>3. KeepsLimits(any, now, inner)
  BY <1>1, <1>2, PemOffLimits
<1> QED
  BY <1>2, <1>3, FinishLimits

\* Every handler, and so pem().
LEMMA PemLimits ==
  ASSUME NEW kind \in Kinds, NEW r \in Readings, NEW dev \in DeviceRec, Limited(dev),
         NEW now \in Nat, NEW res \in Pem(kind, r, dev, now)
  PROVE  KeepsLimits(dev, now, res)
<1>1. PICK inner \in Handler(kind, r, dev, now) : res = Finish(kind, r, inner)
  BY DEF Pem
<1>2. dev.pem \in PemStates /\ dev.last \in Nat
  BY DEF DeviceRec
<1>3. KeepsLimits(dev, now, inner)
  <2>1. CASE dev.pem = "PEM_OFF"
    <3>1. inner \in PemOff(kind, r, dev, now)
      BY <1>1, <2>1 DEF Handler
    <3> QED
      BY <2>1, <3>1, PemOffLimits
  <2>2. CASE dev.pem = "PEM_ON"
    <3>1. inner \in PemOn(kind, r, dev, now)
      BY <1>1, <2>2 DEF Handler
    <3>2. CASE now < dev.ends
      BY <1>2, <3>1, <3>2 DEF PemOn, Result, TurnOn, KeepsLimits, Limited
    <3>3. CASE ~(now < dev.ends)
      BY <3>1, <3>3, RestartLimits DEF PemOn
    <3> QED
      BY <3>2, <3>3
  <2>3. CASE dev.pem \in {"EXIT_OFF", "EXIT_ON"}
    <3>1. \/ inner = Result(dev, NoEffect)
          \/ \E restarted \in Restart(kind, r, dev, now) : inner = OrTurnOff(restarted)
      BY <1>1, <2>3 DEF Handler, ExitOffHandler, ExitOnHandler
    <3>2. CASE inner = Result(dev, NoEffect)
      BY <2>3, <3>2, BatteryAssumption DEF Result, NoEffect, KeepsLimits
    <3>3. ASSUME NEW restarted \in Restart(kind, r, dev, now), inner = OrTurnOff(restarted)
          PROVE  KeepsLimits(dev, now, inner)
      <4>1. KeepsLimits(dev, now, restarted)
        BY RestartLimits
      <4> QED
        BY <3>3, <4>1, BatteryAssumption DEF OrTurnOff, Result, TurnOff, KeepsLimits
    <3> QED
      BY <3>1, <3>2, <3>3
  <2> QED
    BY <1>2, <2>1, <2>2, <2>3 DEF PemStates
<1> QED
  BY <1>1, <1>3, FinishLimits
-----------------------------------------------------------------------------
\* No packet ends later than a whole one from now, and none a commit has kept is
\* over.
PacketInv ==
  /\ \A d \in Device : device[d].pem = "PEM_ON" => device[d].ends <= clock + ControlEpoch
  /\ \A d \in kept : device[d].pem = "PEM_ON" => clock < device[d].ends

\* The inductive invariant of the quantities.
LimitInv ==
  /\ \A d \in Device : Limited(device[d])
  /\ \A q \in requests : q.kw <= MaxDraw
  /\ PacketInv
  /\ phase = "waiting" => totalload = 0
  /\ BudgetBound
  /\ NoOvershoot

\* New objects show the powers the simulator starts with.
LEMMA NewDeviceLimits ==
  ASSUME NEW d \in Device, NEW ends \in Nat
  PROVE  Limited(NewDevice(d, ends)) /\ NewDevice(d, ends).pem = "PEM_OFF"
<1>1. InitialLoad[d] \in 0..MaxDraw
  BY BatteryAssumption
<1> QED
  BY <1>1, BatteryAssumption DEF NewDevice, Limited

\* round() of a setpoint is a number.
LEMMA RoundType == ASSUME NEW p \in Nat PROVE RoundKW(p) \in Int
BY DEF RoundKW

\* Before the first commit.
LEMMA InitLimits == Init => LimitInv
<1> SUFFICES ASSUME Init PROVE LimitInv
  OBVIOUS
<1>1. \A d \in Device : Limited(device[d]) /\ device[d].pem = "PEM_OFF"
  BY NewDeviceLimits DEF Init
<1> QED
  BY <1>1 DEF Init, LimitInv, PacketInv, BudgetBound, NoOvershoot

\* What a commit visits a device with, and the result of pem() it takes.
LEMMA VisitLimits ==
  ASSUME IInv, LimitInv, NEW d \in Device, PemStep(d)
  PROVE  \E dev, res :
           /\ Visit(d, dev, res) /\ KeepsLimits(dev, clock, res) /\ dev \in DeviceRec
           /\ dev.pem = device[d].pem /\ dev.ends = device[d].ends /\ Limited(dev)
<1>1. PICK t \in Temps[Kind(d)], heating \in BOOLEAN, load \in Loads :
        LET dev == Update(device[d], device[d].pem, 0, load)
        IN  \E res \in Pem(Kind(d), [temp |-> t, heating |-> heating], dev, clock) : Visit(d, dev, res)
  BY DEF PemStep
<1> DEFINE dev == Update(device[d], device[d].pem, 0, load)
           r == [temp |-> t, heating |-> heating]
<1>2. PICK res \in Pem(Kind(d), r, dev, clock) : Visit(d, dev, res)
  BY <1>1
<1>3. Kind(d) \in Kinds /\ r \in Readings
  BY BatteryAssumption DEF Kind, Kinds, Readings
<1>4. device[d] \in DeviceRec /\ clock \in Nat /\ load \in 0..MaxDraw /\ load \in Nat
  BY BatteryAssumption DEF IInv, TypeOK
<1>5. device[d].pem \in PemStates /\ device[d].ends \in Nat
  BY <1>4 DEF DeviceRec
<1>6. dev \in DeviceRec /\ dev.pem = device[d].pem /\ dev.ends = device[d].ends /\ Limited(dev)
  <2>1. Limited(device[d]) /\ 0 \in Nat
    BY DEF LimitInv
  <2>2. Limited(dev)
    BY <1>4, <1>5, <2>1, UpdateLimits
  <2>3. phase = "pem" /\ d \in pending
    BY DEF PemStep
  <2>4. dev \in DeviceRec /\ dev.pem = device[d].pem /\ dev.ends = device[d].ends
    BY <1>2, <2>3, VisitedDevice DEF r
  <2> QED
    BY <2>2, <2>4
<1> HIDE DEF dev, r
<1>7. KeepsLimits(dev, clock, res)
  BY <1>2, <1>3, <1>4, <1>6, PemLimits
<1> QED
  BY <1>2, <1>6, <1>7

\* Visiting a device grants it power only below the setpoint.
LEMMA PemStepLimits ==
  ASSUME IInv, LimitInv, NEW d \in Device, PemStep(d)
  PROVE  LimitInv'
<1>1. /\ phase = "pem" /\ d \in pending /\ phase' = "pem"
      /\ clock' = clock /\ setpoint' = setpoint
  BY DEF PemStep
<1>2. PICK dev, res :
        /\ Visit(d, dev, res) /\ KeepsLimits(dev, clock, res) /\ dev \in DeviceRec
        /\ dev.pem = device[d].pem /\ dev.ends = device[d].ends /\ Limited(dev)
  BY VisitLimits
<1>3. Visit(d, dev, res)
  BY <1>2
<1>4. dev \in DeviceRec /\ dev.pem = device[d].pem /\ dev.ends = device[d].ends /\ Limited(dev)
  BY <1>2
<1>5. KeepsLimits(dev, clock, res)
  BY <1>2
<1>6. ASSUME NEW new \in DeviceRec, Keep(d, new), Limited(new),
             new.pem = "PEM_ON" => new.ends <= clock + ControlEpoch /\ clock < new.ends
      PROVE  PacketInv' /\ \A e \in Device : Limited(device'[e])
  <2>1. device'[d] = new /\ kept' = kept \cup {d} /\ \A e \in Device \ {d} : device'[e] = device[e]
    BY <1>6 DEF Keep, IInv, TypeOK
  <2>2. kept \subseteq Device
    BY DEF IInv, TypeOK
  <2> QED
    BY <1>1, <1>6, <2>1, <2>2 DEF LimitInv, PacketInv
<1>7. res.dev.pem = "PEM_ON" => res.dev.ends <= clock + ControlEpoch /\ clock < res.dev.ends
  BY <1>4, <1>5 DEF KeepsLimits, LimitInv, PacketInv
<1>8. CASE Forget(res)
  BY <1>1, <1>8 DEF Forget, LimitInv, PacketInv, BudgetBound, NoOvershoot
<1>9. CASE GrantOn(d, res)
  <2>1. PacketInv' /\ \A e \in Device : Limited(device'[e])
    BY <1>5, <1>6, <1>7, <1>9 DEF GrantOn, KeepsLimits
  <2>2. RoundKW(setpoint) \in Int /\ RoundKW(setpoint)' = RoundKW(setpoint)
    BY <1>1, RoundType, BatteryAssumption DEF IInv, TypeOK, RoundKW
  <2>3. BudgetBound'
    BY <1>5, <1>9, <2>2, BatteryAssumption DEF GrantOn, KeepsLimits, BudgetBound, IInv, TypeOK
  <2> QED
    BY <1>1, <1>9, <2>1, <2>3 DEF GrantOn, LimitInv, NoOvershoot
<1>10. CASE Preempt(d, dev, res)
  <2> DEFINE new == Update(dev, "PEM_OFF", 0, dev.kw)
  <2>1. new \in DeviceRec /\ Limited(new) /\ new.pem = "PEM_OFF"
    <3>1. "PEM_OFF" \in PemStates
      BY DEF PemStates
    <3> QED
      BY <1>4, <3>1, RenewLimits
  <2>2. Keep(d, new)
    BY <1>10 DEF Preempt
  <2> HIDE DEF new
  <2>3. PacketInv' /\ \A e \in Device : Limited(device'[e])
    BY <1>6, <2>1, <2>2
  <2> QED
    BY <1>1, <1>10, <2>3 DEF Preempt, LimitInv, BudgetBound, NoOvershoot
<1>11. CASE QueueRequest(d, res) \/ SwitchOff(d, res)
  <2>1. PacketInv' /\ \A e \in Device : Limited(device'[e])
    BY <1>5, <1>6, <1>7, <1>11 DEF QueueRequest, SwitchOff, KeepsLimits
  <2>2. \A q \in requests' : q.kw <= MaxDraw
    BY <1>5, <1>11 DEF QueueRequest, SwitchOff, KeepsLimits, LimitInv
  <2> QED
    BY <1>1, <1>11, <2>1, <2>2 DEF QueueRequest, SwitchOff, LimitInv, BudgetBound, NoOvershoot
<1> QED
  BY <1>3, <1>8, <1>9, <1>10, <1>11 DEF Visit

\* A total that a draw brings no further from the setpoint is at most half of the
\* draw above it.
LEMMA CloserTotal ==
  ASSUME NEW total \in Nat, NEW draw \in Nat, NEW goal \in Nat, NEW most \in Nat, draw <= most,
         Distance(total + draw, goal) <= Distance(total, goal)
  PROVE  total + draw = total \/ 2 * (total + draw - goal) <= most
<1>1. CASE total + draw <= goal
  BY <1>1
<1>2. CASE goal < total + draw /\ total <= goal
  BY <1>2 DEF Distance
<1>3. CASE goal < total
  BY <1>3 DEF Distance
<1> QED
  BY <1>1, <1>2, <1>3

\* A granted request moves the total past the setpoint by at most half of it, and
\* its packet is a whole one.
LEMMA AcceptRequestLimits ==
  ASSUME IInv, LimitInv, NEW q \in requests, AcceptRequest(q)
  PROVE  LimitInv'
<1> USE DEF AcceptRequest
<1>1. q.id \in Device /\ q.kw \in Nat /\ q.kw <= MaxDraw /\ device[q.id] \in DeviceRec
  BY DEF IInv, TypeOK, Request, LimitInv
<1> DEFINE new == RequestAccepted(device[q.id], clock)
<1>2. /\ new \in DeviceRec /\ Limited(new)
      /\ new = device[q.id] \/ new.ends = clock + ControlEpoch
  <2>1. clock + ControlEpoch \in Nat /\ clock + ControlEpoch # 0 /\ "PEM_ON" \in PemStates
    BY DeviceAssumption DEF IInv, TypeOK, PemStates
  <2>2. device[q.id].kw \in Nat /\ Limited(device[q.id])
    BY <1>1 DEF DeviceRec, LimitInv
  <2>3. CASE device[q.id].pem # "PEM_OFF"
    BY <1>1, <2>2, <2>3 DEF RequestAccepted
  <2>4. CASE device[q.id].pem = "PEM_OFF"
    <3>1. new = Update(device[q.id], "PEM_ON", clock + ControlEpoch, device[q.id].kw)
      BY <2>4 DEF RequestAccepted
    <3> HIDE DEF new
    <3>2. new \in DeviceRec /\ Limited(new)
      BY <1>1, <2>1, <2>2, <3>1, RenewLimits
    <3>3. new.ends = clock + ControlEpoch
      BY <3>1, <2>1 DEF Update
    <3> QED
      BY <3>2, <3>3
  <2> QED
    BY <2>3, <2>4
<1> HIDE DEF new
<1>3. device'[q.id] = new /\ \A e \in Device \ {q.id} : device'[e] = device[e]
  BY <1>1 DEF new, IInv, TypeOK
<1>4. PacketInv'
  <2>1. clock \in Nat /\ ControlEpoch \in Nat \ {0} /\ kept \subseteq Device
    BY DeviceAssumption DEF IInv, TypeOK
  <2> QED
    BY <1>2, <1>3, <2>1 DEF LimitInv, PacketInv
<1>5. NoOvershoot'
  <2>1. /\ totalkw \in Nat /\ setpoint \in Nat
        /\ totalkw = measured \/ 2 * (totalkw - setpoint) <= MaxDraw
    BY BatteryAssumption DEF IInv, TypeOK, LimitInv, NoOvershoot
  <2>2. Distance(totalkw + q.kw, setpoint) <= Distance(totalkw, setpoint)
    BY DEF Accepts
  <2>3. totalkw + q.kw = totalkw \/ 2 * (totalkw + q.kw - setpoint) <= MaxDraw
    <3>1. MaxDraw \in Nat
      BY BatteryAssumption
    <3>2. totalkw \in Nat /\ setpoint \in Nat /\ q.kw \in Nat /\ q.kw <= MaxDraw
      BY <1>1, <2>1
    <3> QED
      BY <2>2, <3>1, <3>2, CloserTotal
  <2>4. totalkw' = totalkw + q.kw /\ measured' = measured /\ setpoint' = setpoint
    OBVIOUS
  <2>5. totalkw' = measured' \/ 2 * (totalkw' - setpoint') <= MaxDraw
    <3>1. CASE totalkw + q.kw = totalkw
      BY <1>1, <2>1, <2>4, <3>1
    <3>2. CASE 2 * (totalkw + q.kw - setpoint) <= MaxDraw
      BY <1>1, <2>1, <2>4, <3>2
    <3> QED
      BY <2>3, <3>1, <3>2
  <2> QED
    BY <2>5 DEF NoOvershoot
<1> QED
  BY <1>2, <1>3, <1>4, <1>5 DEF LimitInv, BudgetBound

\* Every step keeps the quantities within their bounds.
LEMMA NextLimits == IInv /\ LimitInv /\ [Next]_vars => LimitInv'
<1> SUFFICES ASSUME IInv, LimitInv, [Next]_vars PROVE LimitInv'
  OBVIOUS
<1> USE DEF LimitInv, PacketInv, BudgetBound, NoOvershoot
<1>1. CASE UNCHANGED vars
  BY <1>1 DEF vars, commitVars, batteryVars, RoundKW
<1>2. CASE BeginCommit
  BY <1>2 DEF BeginCommit
<1>3. ASSUME NEW d \in Device, PemStep(d) PROVE LimitInv'
  BY <1>3, PemStepLimits
<1>4. CASE EndPem
  BY <1>4 DEF EndPem, RoundKW
<1>5. ASSUME NEW q \in requests, AcceptRequest(q) \/ RejectRequest(q) PROVE LimitInv'
  <2>1. CASE RejectRequest(q)
    BY <2>1 DEF RejectRequest, batteryVars, RoundKW
  <2> QED
    BY <1>5, <2>1, AcceptRequestLimits
<1>6. CASE EndRequests
  BY <1>6 DEF EndRequests, commitVars, batteryVars, RoundKW
<1>7. CASE SendEffects
  <2>1. clock \in Nat /\ clock' \in Nat /\ clock <= clock' /\ ControlEpoch \in Nat
    BY <1>7, BatteryAssumption, DeviceAssumption DEF SendEffects, IInv, TypeOK
  <2>2. \A d \in Device : device[d].ends \in Nat
    BY DEF IInv, TypeOK, DeviceRec
  <2> QED
    BY <1>7, <2>1, <2>2 DEF SendEffects, batteryVars, IInv, Shape
<1>8. CASE Rebuild \/ \E h \in House : TurnOnHouse(h)
  <2>1. \A d \in Device : device'[d] = device[d] \/ \E ends \in Nat : device'[d] = NewDevice(d, ends)
    BY <1>8 DEF Rebuild, TurnOnHouse, DueNow, IInv, TypeOK
  <2>2. phase = "waiting" /\ kept = {} /\ UNCHANGED <<clock, phase, commitVars>>
    BY <1>8 DEF Rebuild, TurnOnHouse, IInv, Shape
  <2>3. \A d \in Device : Limited(device'[d]) /\ (device'[d].pem = "PEM_ON" => device'[d] = device[d])
    BY <2>1, NewDeviceLimits
  <2> QED
    BY <2>2, <2>3 DEF commitVars
<1>9. ASSUME NEW h \in House, TurnOffHouse(h) PROVE LimitInv'
  BY <1>9 DEF TurnOffHouse, commitVars
<1> QED
  BY <1>1, <1>2, <1>3, <1>4, <1>5, <1>6, <1>7, <1>8, <1>9 DEF Next, SimulationOver

\* The bounds hold in every state of the battery.
LEMMA LimitInvariance == Spec => []LimitInv
BY InitLimits, NextLimits, Invariance, PTL DEF Spec

-----------------------------------------------------------------------------
\* Packets of running devices exceed the rounded setpoint by less than the draw
\* of one device, whatever their number.
THEOREM BudgetBounded == Spec => []BudgetBound
<1>1. LimitInv => BudgetBound
  BY DEF LimitInv
<1> QED
  BY <1>1, LimitInvariance, PTL

\* Requests never move the load further above the setpoint than half a device.
THEOREM OvershootBounded == Spec => []NoOvershoot
<1>1. LimitInv => NoOvershoot
  BY DEF LimitInv
<1> QED
  BY <1>1, LimitInvariance, PTL

\* A packet that is still running when a commit is over ends in the future, and
\* within the length of a packet.
THEOREM PacketsBounded == Spec => []PacketBounded
<1>1. IInv /\ LimitInv => PacketBounded
  BY DeviceAssumption DEF IInv, TypeOK, Shape, DeviceRec, LimitInv, PacketInv, PacketBounded
<1> QED
  BY <1>1, Invariance, LimitInvariance, PTL

-----------------------------------------------------------------------------
(* What it takes for a battery to lose no device.                          *)

\* A setpoint all devices together cannot use up.
Ample == \A s \in Setpoints : Cardinality(Device) * MaxDraw <= RoundKW(s)

\* Every device in the new dictionary was granted one draw at most, and none was
\* preempted.
GrantInv == totalload <= Cardinality(kept) * MaxDraw /\ preempted = {}

\* A device not yet visited is not counted: below an ample setpoint there is room
\* for it, and with it for one draw more.
LEMMA RoomForOne ==
  ASSUME IInv, Ample, MaxDraw > 0, NEW d \in pending
  PROVE  /\ Cardinality(kept) \in Nat
         /\ Cardinality(kept \cup {d}) = Cardinality(kept) + 1
         /\ Cardinality(kept) * MaxDraw + MaxDraw <= RoundKW(setpoint)
<1>1. kept \cup {d} \subseteq Device /\ d \notin kept /\ IsFiniteSet(Device)
  BY BatteryAssumption DEF IInv, TypeOK, Shape
<1>2. IsFiniteSet(kept) /\ IsFiniteSet(kept \cup {d})
  BY <1>1, FS_Subset
<1>3. Cardinality(kept) \in Nat /\ Cardinality(kept \cup {d}) = Cardinality(kept) + 1
  BY <1>1, <1>2, FS_CardinalityType, FS_AddElement
<1>4. Cardinality(kept \cup {d}) <= Cardinality(Device) /\ Cardinality(Device) \in Nat
  BY <1>1, FS_Subset, FS_CardinalityType
<1>5. ASSUME NEW m \in Nat, NEW n \in Nat, m + 1 <= n, NEW most \in Nat
      PROVE  m * most + most <= n * most
  BY <1>5
<1>6. Cardinality(kept) * MaxDraw + MaxDraw <= Cardinality(Device) * MaxDraw
  BY <1>3, <1>4, <1>5, BatteryAssumption
<1>7. Cardinality(Device) * MaxDraw <= RoundKW(setpoint) /\ RoundKW(setpoint) \in Int
  BY RoundType, BatteryAssumption DEF Ample, IInv, TypeOK
<1> QED
  BY <1>3, <1>4, <1>6, <1>7, BatteryAssumption

\* No step preempts a device.
LEMMA NextGrants ==
  ASSUME IInv, LimitInv, GrantInv, Ample, MaxDraw > 0, [Next]_vars
  PROVE  GrantInv'
<1>1. ASSUME NEW d \in Device, PemStep(d) PROVE GrantInv'
  <2>1. PICK dev, res : Visit(d, dev, res) /\ KeepsLimits(dev, clock, res)
    BY <1>1, VisitLimits
  <2>2. d \in pending
    BY <1>1 DEF PemStep
  <2>3. /\ Cardinality(kept) \in Nat
        /\ Cardinality(kept \cup {d}) = Cardinality(kept) + 1
        /\ Cardinality(kept) * MaxDraw + MaxDraw <= RoundKW(setpoint)
    BY <2>2, RoomForOne
  <2> DEFINE room == Cardinality(kept) * MaxDraw
  <2>4. (Cardinality(kept) + 1) * MaxDraw = room + MaxDraw /\ room \in Nat
    BY <2>3, BatteryAssumption
  <2>5. totalload \in Nat /\ totalload <= room /\ MaxDraw \in Nat /\ RoundKW(setpoint) \in Int
    BY RoundType, BatteryAssumption DEF IInv, TypeOK, GrantInv
  <2> HIDE DEF room
  <2>6. totalload < RoundKW(setpoint)
    BY <2>3, <2>4, <2>5 DEF room
  <2>7. CASE Forget(res)
    BY <2>7 DEF Forget, GrantInv
  <2>8. CASE GrantOn(d, res)
    <3>1. /\ kept' = kept \cup {d} /\ totalload' = totalload + res.eff.kw
          /\ preempted' = preempted \ {d} /\ res.eff.kw \in 0..MaxDraw
      BY <2>1, <2>8 DEF GrantOn, Keep, KeepsLimits
    <3>2. totalload' <= room + MaxDraw
      BY <2>4, <2>5, <3>1
    <3> QED
      BY <2>3, <2>4, <3>1, <3>2 DEF GrantInv
  <2>9. CASE Preempt(d, dev, res)
    BY <2>5, <2>6, <2>9 DEF Preempt
  <2>10. CASE QueueRequest(d, res) \/ SwitchOff(d, res)
    <3>1. kept' = kept \cup {d} /\ totalload' = totalload /\ preempted' = preempted \ {d}
      BY <2>10 DEF QueueRequest, SwitchOff, Keep
    <3>2. totalload' <= room + MaxDraw
      BY <2>4, <2>5, <3>1
    <3> QED
      BY <2>3, <2>4, <3>1, <3>2 DEF GrantInv
  <2> QED
    BY <2>1, <2>7, <2>8, <2>9, <2>10 DEF Visit
<1>2. CASE SendEffects
  BY <1>2, FS_EmptySet, BatteryAssumption DEF SendEffects, batteryVars, GrantInv
<1>3. CASE \/ BeginCommit \/ EndPem \/ EndRequests \/ Rebuild \/ SimulationOver \/ UNCHANGED vars
           \/ \E q \in requests : AcceptRequest(q) \/ RejectRequest(q)
           \/ \E h \in House : TurnOffHouse(h) \/ TurnOnHouse(h)
  <2>1. UNCHANGED <<totalload, kept>> /\ preempted' \subseteq preempted
    BY <1>3 DEF BeginCommit, EndPem, EndRequests, Rebuild, SimulationOver, AcceptRequest, RejectRequest,
                TurnOffHouse, TurnOnHouse, vars, commitVars, batteryVars, GrantInv
  <2> QED
    BY <2>1 DEF GrantInv
<1> QED
  BY <1>1, <1>2, <1>3 DEF Next

\* Preemption is all that loses devices: a battery whose setpoints are never used up
\* by its devices keeps every one of them that is not shed, over any sequence of
\* commits, rebuilds and reconnections.
THEOREM AmpleSetpointsKeepDevices ==
  ASSUME Ample, MaxDraw > 0
  PROVE  Spec => []KeepsEveryDevice
<1>1. Init => GrantInv
  BY FS_EmptySet, BatteryAssumption DEF Init, GrantInv
<1>2. IInv /\ LimitInv /\ GrantInv /\ [Next]_vars => GrantInv'
  BY NextGrants
<1>3. OnlyPreemptedAreLost /\ GrantInv => KeepsEveryDevice
  BY DEF OnlyPreemptedAreLost, GrantInv, KeepsEveryDevice
<1> QED
  BY <1>1, <1>2, <1>3, Invariance, LimitInvariance, LossesArePreemptions, PTL DEF Spec
=============================================================================
