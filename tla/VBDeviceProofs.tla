--------------------------- MODULE VBDeviceProofs ---------------------------
(***************************************************************************)
(* What one call of vb_device.pem() can return, for every device, reading  *)
(* and time (packetized/vb_device.py).  VirtualBatteryProofs builds on     *)
(* PemResult and PemOnKeeps.                                               *)
(***************************************************************************)
EXTENDS VBDevice, TLAPS

\* What pem() returns at the least: the states that run have an on effect and
\* no other state has one, EXIT_OFF switches off, a request or an on effect
\* comes with a mode turn_on() can write, and only a device that waits in
\* PEM_OFF has no effect at all.
PemPromise(kind, t, now, res) ==
  /\ res.dev \in DeviceRec
  /\ res.eff \in Effects
  /\ res.dev.pem \in {"PEM_ON", "EXIT_ON"} <=> res.eff.kind = "on"
  /\ res.dev.pem = "EXIT_ON" => ExitOn(kind, t, 0)
  /\ res.dev.pem = "EXIT_OFF" => res.eff.kind = "off" /\ ExitOff(kind, t, 0)
  /\ res.eff.kind = "none" => res.dev.pem = "PEM_OFF" /\ now < res.dev.ends
  /\ res.dev.pem = "PEM_OFF" /\ res.eff.kind # "none" => res.dev.ends = now + CommEpoch
  /\ res.eff.kind \in {"on", "request"} => Drive(kind, t) # "keep"

\* What a handler returns before the exit check of pem(): an exit state without
\* the effect it needs is one that check is going to renew.
HandlerPromise(kind, t, now, res) ==
  /\ res.dev \in DeviceRec
  /\ res.eff \in Effects
  /\ res.dev.pem = "PEM_ON" => res.eff.kind = "on"
  /\ res.eff.kind = "on" => res.dev.pem \in {"PEM_ON", "EXIT_ON"}
  /\ res.dev.pem = "EXIT_ON" => ExitOn(kind, t, 0)
  /\ res.dev.pem = "EXIT_OFF" => ExitOn(kind, t, 0) \/ ExitOff(kind, t, 0)
  /\ res.dev.pem = "PEM_OFF" =>
       IF res.eff.kind = "none" THEN now < res.dev.ends ELSE res.dev.ends = now + CommEpoch

-----------------------------------------------------------------------------
\* update() builds a device of the right type from one.
LEMMA UpdateType ==
  ASSUME NEW dev \in DeviceRec, NEW pem \in PemStates, NEW ends \in Nat, NEW load \in Nat
  PROVE  /\ Update(dev, pem, ends, load) \in DeviceRec
         /\ Update(dev, pem, ends, load).pem = pem
         /\ Update(dev, pem, ends, load).kw = load
         /\ ends # 0 => Update(dev, pem, ends, load).ends = ends
         /\ ends = 0 => Update(dev, pem, ends, load).ends = dev.ends
BY DEF Update, DeviceRec

\* check_stat: a device still in an exit range with hysteresis is in an exit
\* range without it, so the exit handlers' "no effect" is always replaced.
LEMMA HysteresisKeepsExit ==
  ASSUME NEW kind \in Kinds, NEW t \in Int
  PROVE  /\ ExitOn(kind, t, Hysteresis) => ExitOn(kind, t, 0)
         /\ ExitOff(kind, t, Hysteresis) => ExitOn(kind, t, 0) \/ ExitOff(kind, t, 0)
BY DeviceAssumption DEF Kinds, ExitOn, ExitOff, InRequestRange, Near

\* turn_on() knows a mode for every temperature outside the EXIT_OFF range.
LEMMA DriveKnown ==
  ASSUME NEW kind \in Kinds, NEW t \in Int,
         InRequestRange(kind, t, 0) \/ ExitOn(kind, t, 0)
  PROVE  Drive(kind, t) # "keep"
BY DeviceAssumption, DeadbandAssumption DEF Kinds, ExitOn, InRequestRange, Near, Drive

\* turn_on() writes something to every load that is not told to stay off.
LEMMA DriveUnlessExitOff ==
  ASSUME NEW kind \in Kinds, NEW t \in Int, ~ExitOff(kind, t, 0)
  PROVE  Drive(kind, t) # "keep"
BY DriveKnown DEF Kinds, ExitOff, Drive

\* The effects handlers build are effects.
LEMMA EffectTypes ==
  ASSUME NEW dev \in DeviceRec
  PROVE  NoEffect \in Effects /\ PowerRequest(dev) \in Effects /\ TurnOn(dev) \in Effects
         /\ TurnOff \in Effects
BY DEF DeviceRec, Effects, NoEffect, PowerRequest, TurnOn, TurnOff

-----------------------------------------------------------------------------
\* check_exits(): in an exit range the device is put in that exit state with
\* the effect of it, otherwise nothing changes.
LEMMA CheckExitsResult ==
  ASSUME NEW kind \in Kinds, NEW r \in Readings, NEW dev \in DeviceRec
  PROVE  LET res == CheckExits(kind, r, dev)
         IN  /\ res.dev \in DeviceRec /\ res.eff \in Effects
             /\ ExitOn(kind, r.temp, 0) => res.dev.pem = "EXIT_ON" /\ res.eff.kind = "on"
             /\ ~ExitOn(kind, r.temp, 0) /\ ExitOff(kind, r.temp, 0)
                  => res.dev.pem = "EXIT_OFF" /\ res.eff.kind = "off"
             /\ ~ExitOn(kind, r.temp, 0) /\ ~ExitOff(kind, r.temp, 0)
                  => res.dev = dev /\ res.eff.kind = "none"
<1>1. dev.kw \in Nat /\ {"EXIT_ON", "EXIT_OFF"} \subseteq PemStates
  BY DEF DeviceRec, PemStates
<1>2. /\ Update(dev, "EXIT_ON", 0, dev.kw) \in DeviceRec
      /\ Update(dev, "EXIT_ON", 0, dev.kw).pem = "EXIT_ON"
      /\ Update(dev, "EXIT_OFF", 0, dev.kw) \in DeviceRec
      /\ Update(dev, "EXIT_OFF", 0, dev.kw).pem = "EXIT_OFF"
  BY <1>1, UpdateType
<1> QED
  BY <1>2, EffectTypes DEF CheckExits, Result, TurnOn, TurnOff, NoEffect

\* The exit check at the end of pem() turns a handler's promise into pem()'s.
LEMMA FinishPromise ==
  ASSUME NEW kind \in Kinds, NEW r \in Readings, NEW now \in Nat, NEW res,
         HandlerPromise(kind, r.temp, now, res)
  PROVE  PemPromise(kind, r.temp, now, Finish(kind, r, res))
<1> DEFINE exit == CheckExits(kind, r, res.dev)
           fin == Finish(kind, r, res)
<1>1. res.dev \in DeviceRec /\ r.temp \in Int
  BY DEF HandlerPromise, Readings
<1>2. /\ fin.dev = exit.dev
      /\ fin.eff = IF exit.eff.kind # "none" THEN exit.eff ELSE res.eff
  BY DEF Finish, Result
<1>3. CASE ExitOn(kind, r.temp, 0)
  <2>1. exit.dev \in DeviceRec /\ exit.eff \in Effects /\ exit.dev.pem = "EXIT_ON" /\ exit.eff.kind = "on"
    BY <1>1, <1>3, CheckExitsResult
  <2>2. Drive(kind, r.temp) # "keep"
    BY <1>1, <1>3, DriveKnown
  <2> QED
    BY <1>2, <1>3, <2>1, <2>2 DEF PemPromise
<1>4. CASE ~ExitOn(kind, r.temp, 0) /\ ExitOff(kind, r.temp, 0)
  <2>1. exit.dev \in DeviceRec /\ exit.eff \in Effects /\ exit.dev.pem = "EXIT_OFF" /\ exit.eff.kind = "off"
    BY <1>1, <1>4, CheckExitsResult
  <2> QED
    BY <1>2, <1>4, <2>1 DEF PemPromise
<1>5. CASE ~ExitOn(kind, r.temp, 0) /\ ~ExitOff(kind, r.temp, 0)
  <2>1. exit.dev = res.dev /\ exit.eff.kind = "none"
    BY <1>1, <1>5, CheckExitsResult
  <2>2. Drive(kind, r.temp) # "keep"
    BY <1>1, <1>5, DriveUnlessExitOff
  <2>3. res.dev.pem \in PemStates
    BY <1>1 DEF DeviceRec
  <2> QED
    BY <1>2, <1>5, <2>1, <2>2, <2>3 DEF PemPromise, HandlerPromise, PemStates
<1> QED
  BY <1>3, <1>4, <1>5

-----------------------------------------------------------------------------
\* pem_off(): waits, or asks or gives up and pauses until now + CommEpoch.
LEMMA PemOffPromise ==
  ASSUME NEW kind \in Kinds, NEW r \in Readings, NEW dev \in DeviceRec, NEW now \in Nat,
         dev.pem = "PEM_OFF", NEW res \in PemOff(kind, r, dev, now)
  PROVE  /\ HandlerPromise(kind, r.temp, now, res)
         /\ now >= dev.ends => res.eff.kind # "none"
<1>1. CASE now < dev.ends
  <2>1. res = Result(dev, NoEffect)
    BY <1>1 DEF PemOff
  <2> QED
    BY <1>1, <2>1, EffectTypes DEF HandlerPromise, Result, NoEffect, DeviceRec
<1>2. CASE ~(now < dev.ends)
  <2> DEFINE next == Update(dev, "PEM_OFF", now + CommEpoch, dev.kw)
  <2>1. res.dev = next /\ res.eff \in {PowerRequest(dev), TurnOff}
    BY <1>2 DEF PemOff, Result
  <2>2. next \in DeviceRec /\ next.pem = "PEM_OFF" /\ next.ends = now + CommEpoch
    <3>1. dev.kw \in Nat /\ "PEM_OFF" \in PemStates /\ now + CommEpoch \in Nat /\ now + CommEpoch # 0
      BY DeviceAssumption DEF DeviceRec, PemStates
    <3> QED
      BY <3>1, UpdateType
  <2>3. res.eff \in Effects
    BY <2>1, EffectTypes
  <2>4. res.eff.kind \in {"request", "off"}
    BY <2>1 DEF PowerRequest, TurnOff
  <2> HIDE DEF next
  <2> QED
    BY <2>1, <2>2, <2>3, <2>4 DEF HandlerPromise
<1> QED
  BY <1>1, <1>2

\* The restart three handlers share has an effect at once.  At time 0 Python's
\* update() would keep the old deadline instead of now, hence the condition.
LEMMA RestartPromise ==
  ASSUME NEW kind \in Kinds, NEW r \in Readings, NEW dev \in DeviceRec, NEW now \in Nat,
         now # 0, NEW res \in Restart(kind, r, dev, now)
  PROVE  PemPromise(kind, r.temp, now, res) /\ res.eff.kind # "none"
<1> DEFINE off == Update(dev, "PEM_OFF", now, dev.kw)
<1>1. off \in DeviceRec /\ off.pem = "PEM_OFF" /\ off.ends = now
  <2>1. dev.kw \in Nat /\ "PEM_OFF" \in PemStates
    BY DEF DeviceRec, PemStates
  <2> QED
    BY <2>1, UpdateType
<1>2. PICK inner \in PemOff(kind, r, off, now) : res = Finish(kind, r, inner)
  BY DEF Restart
<1>3. HandlerPromise(kind, r.temp, now, inner) /\ inner.eff.kind # "none"
  BY <1>1, PemOffPromise
<1>4. PemPromise(kind, r.temp, now, res)
  BY <1>2, <1>3, FinishPromise
<1>5. res.eff.kind # "none"
  BY <1>2, <1>3 DEF Finish, Result
<1> QED
  BY <1>4, <1>5

\* A restarted device keeps a handler's promise.
LEMMA PemIsHandlerPromise ==
  ASSUME NEW kind, NEW t, NEW now, NEW res,
         PemPromise(kind, t, now, res), res.eff.kind # "none"
  PROVE  HandlerPromise(kind, t, now, res) /\ OrTurnOff(res) = Result(res.dev, res.eff)
BY DEF PemPromise, HandlerPromise, OrTurnOff

\* Each of the four handlers keeps the handlers' promise.
LEMMA HandlerKeepsPromise ==
  ASSUME NEW kind \in Kinds, NEW r \in Readings, NEW dev \in DeviceRec, NEW now \in Nat,
         now # 0 \/ dev.pem = "PEM_OFF", NEW res \in Handler(kind, r, dev, now)
  PROVE  HandlerPromise(kind, r.temp, now, res)
<1>0. r.temp \in Int /\ dev.pem \in PemStates
  BY DEF Readings, DeviceRec
<1>1. CASE dev.pem = "PEM_OFF"
  BY <1>1, PemOffPromise DEF Handler
<1>2. CASE dev.pem = "PEM_ON"
  <2>1. res \in PemOn(kind, r, dev, now)
    BY <1>2 DEF Handler
  <2>2. CASE now < dev.ends
    <3>1. res = Result(dev, TurnOn(dev))
      BY <2>1, <2>2 DEF PemOn
    <3> QED
      BY <1>2, <3>1, EffectTypes DEF HandlerPromise, Result, TurnOn
  <2>3. CASE ~(now < dev.ends)
    BY <1>2, <2>1, <2>3, RestartPromise, PemIsHandlerPromise DEF PemOn
  <2> QED
    BY <2>2, <2>3
<1>3. CASE dev.pem = "EXIT_OFF"
  <2>1. res \in ExitOffHandler(kind, r, dev, now)
    BY <1>3 DEF Handler
  <2>2. CASE ExitOff(kind, r.temp, Hysteresis)
    <3>1. res = Result(dev, NoEffect)
      BY <2>1, <2>2 DEF ExitOffHandler
    <3> QED
      BY <1>0, <1>3, <2>2, <3>1, HysteresisKeepsExit, EffectTypes DEF HandlerPromise, Result, NoEffect
  <2>3. CASE ~ExitOff(kind, r.temp, Hysteresis)
    <3>1. PICK inner \in Restart(kind, r, dev, now) : res = OrTurnOff(inner)
      BY <2>1, <2>3 DEF ExitOffHandler
    <3>2. PemPromise(kind, r.temp, now, inner) /\ inner.eff.kind # "none"
      BY <1>3, RestartPromise
    <3> QED
      BY <3>1, <3>2, PemIsHandlerPromise DEF Result, HandlerPromise
  <2> QED
    BY <2>2, <2>3
<1>4. CASE dev.pem = "EXIT_ON"
  <2>1. res \in ExitOnHandler(kind, r, dev, now)
    BY <1>4 DEF Handler
  <2>2. CASE ExitOn(kind, r.temp, Hysteresis)
    <3>1. res = Result(dev, NoEffect)
      BY <2>1, <2>2 DEF ExitOnHandler
    <3> QED
      BY <1>0, <1>4, <2>2, <3>1, HysteresisKeepsExit, EffectTypes DEF HandlerPromise, Result, NoEffect
  <2>3. CASE ~ExitOn(kind, r.temp, Hysteresis)
    <3>1. PICK inner \in Restart(kind, r, dev, now) : res = OrTurnOff(inner)
      BY <2>1, <2>3 DEF ExitOnHandler
    <3>2. PemPromise(kind, r.temp, now, inner) /\ inner.eff.kind # "none"
      BY <1>4, RestartPromise
    <3> QED
      BY <3>1, <3>2, PemIsHandlerPromise DEF Result, HandlerPromise
  <2> QED
    BY <2>2, <2>3
<1> QED
  BY <1>0, <1>1, <1>2, <1>3, <1>4 DEF PemStates

-----------------------------------------------------------------------------
\* Whatever the device, the reading and the die roll, pem() keeps its promise;
\* in particular only a waiting PEM_OFF device gets no effect, which is what
\* apply_pem_changes relies on when it keeps only devices with one.
THEOREM PemResult ==
  ASSUME NEW kind \in Kinds, NEW r \in Readings, NEW dev \in DeviceRec, NEW now \in Nat,
         now # 0 \/ dev.pem = "PEM_OFF", NEW res \in Pem(kind, r, dev, now)
  PROVE  PemPromise(kind, r.temp, now, res)
<1>1. PICK inner \in Handler(kind, r, dev, now) : res = Finish(kind, r, inner)
  BY DEF Pem
<1> QED
  BY <1>1, HandlerKeepsPromise, FinishPromise

\* pem() has no effect only on a PEM_OFF device that still waits.
LEMMA PemWaits ==
  ASSUME NEW kind \in Kinds, NEW r \in Readings, NEW dev \in DeviceRec, NEW now \in Nat,
         now # 0 \/ dev.pem = "PEM_OFF", NEW res \in Pem(kind, r, dev, now),
         res.eff.kind = "none"
  PROVE  dev.pem = "PEM_OFF" /\ now < dev.ends
<1>1. PICK inner \in Handler(kind, r, dev, now) : res = Finish(kind, r, inner)
  BY DEF Pem
<1>2. inner.eff.kind = "none" /\ inner.dev \in DeviceRec
  BY <1>1, HandlerKeepsPromise DEF Finish, Result, HandlerPromise
<1>3. CheckExits(kind, r, inner.dev).eff.kind = "none"
  BY <1>1 DEF Finish, Result
<1>4. res.dev.pem = "PEM_OFF"
  BY PemResult DEF PemPromise
<1>5. inner.dev.pem = "PEM_OFF"
  BY <1>1, <1>2, <1>3, <1>4, CheckExitsResult DEF Finish, Result
<1>6. CASE dev.pem = "PEM_OFF"
  BY <1>2, <1>6, PemOffPromise DEF Handler, DeviceRec
<1>7. CASE dev.pem = "PEM_ON"
  <2>1. inner \in PemOn(kind, r, dev, now)
    BY <1>7 DEF Handler
  <2> QED
    BY <1>2, <1>7, <2>1, RestartPromise DEF PemOn, Result, TurnOn
<1>8. CASE dev.pem = "EXIT_OFF"
  <2>1. inner \in ExitOffHandler(kind, r, dev, now)
    BY <1>8 DEF Handler
  <2>2. inner.eff.kind = "none" => inner.dev = dev
    BY <2>1 DEF ExitOffHandler, OrTurnOff, Result, TurnOff
  <2> QED
    BY <1>2, <1>5, <1>8, <2>2
<1>9. CASE dev.pem = "EXIT_ON"
  <2>1. inner \in ExitOnHandler(kind, r, dev, now)
    BY <1>9 DEF Handler
  <2>2. inner.eff.kind = "none" => inner.dev = dev
    BY <2>1 DEF ExitOnHandler, OrTurnOff, Result, TurnOff
  <2> QED
    BY <1>2, <1>5, <1>9, <2>2
<1> QED
  BY <1>6, <1>7, <1>8, <1>9 DEF DeviceRec, PemStates

\* A packet that is not over is left alone, unless the temperature exits.
LEMMA PemOnKeeps ==
  ASSUME NEW kind \in Kinds, NEW r \in Readings, NEW dev \in DeviceRec, NEW now \in Nat,
         dev.pem = "PEM_ON", now < dev.ends, NEW res \in Pem(kind, r, dev, now)
  PROVE  res.dev = dev \/ res.dev.pem \in {"EXIT_ON", "EXIT_OFF"}
<1>1. res = Finish(kind, r, Result(dev, TurnOn(dev)))
  BY DEF Pem, Handler, PemOn
<1> QED
  BY <1>1, CheckExitsResult DEF Finish, Result
=============================================================================
