----------------------------- MODULE TimeKeeping -----------------------------
(****************************************************************************)
(* Time keeping of the kernel (arch/x86_64/time.c) and the kernel's way of  *)
(* waiting (arch/x86_64/archKernelBlock.c).                                 *)
(*                                                                          *)
(* The hypervisor publishes a time record in the shared page.  Its version  *)
(* is odd while the record is rewritten; the kernel copies the record into  *)
(* `shadow' and extrapolates it with the processor's counter.  The main     *)
(* thread may be interrupted, between any two steps, by the timer handler,  *)
(* which reads the time with the same code and the same shadow.             *)
(****************************************************************************)
EXTENDS Integers, Sequences

CONSTANTS
  HalfWord,      \* half the bits of a word: 32 in the code
  Rates,         \* the rates a calibration may have: records [mul, shift]
  Walls,         \* the wall clocks the hypervisor may set: [sec, nsec]
  SecNsec,       \* nanoseconds in a second
  Delta,         \* how far ahead archKernelBlock sets the timer
  MaxTsc,        \* bound: the processor's counter
  MaxUpdates,    \* bound: recalibrations after the first
  MaxWalls,      \* bound: settings of the wall clock after the first
  MaxTicks,      \* bound: periodic timer events
  MaxCalls       \* bound: calls of the main thread

ASSUME SizesAssumption ==
  /\ HalfWord \in Nat \ {0} /\ SecNsec \in Nat \ {0} /\ Delta \in Nat
  /\ MaxTsc \in Nat /\ MaxUpdates \in Nat /\ MaxWalls \in Nat
  /\ MaxTicks \in Nat /\ MaxCalls \in Nat
  /\ Rates \subseteq [mul : 0..(2^HalfWord - 1), shift : Int]
  /\ Walls # {} /\ Walls \subseteq [sec : Nat, nsec : 0..(SecNsec - 1)]

VARIABLES
  tsc,       \* the processor's time stamp counter
  cals,      \* the calibrations so far, the current one last
  walls,     \* the wall clocks so far, the current one last
  src,       \* the time record in the shared page
  wsrc,      \* the wall clock in the shared page
  writing,   \* the field the hypervisor writes next, of each record
  shadow,    \* the kernel's copy of the time record
  shadowTs,  \* the kernel's copy of the wall clock
  th,        \* the frame of each thread of control
  armed,     \* `pointer' is not NULL
  timeout,   \* op.timeout_abs_ns
  deadline,  \* the one-shot timer of the hypervisor, or None
  pending,   \* the timer event is pending
  ticks,     \* periodic events so far
  calls      \* calls so far

vars == <<tsc, cals, walls, src, wsrc, writing, shadow, shadowTs, th,
          armed, timeout, deadline, pending, ticks, calls>>
shared == <<tsc, cals, walls, src, wsrc, writing>>
timer == <<armed, timeout, deadline, pending, ticks, calls>>

None == -1
Threads == {"main", "handler"}
Last(s) == s[Len(s)]

(****************************************************************************)
(* Arithmetic.                                                              *)
(****************************************************************************)
Word(n) == n % 2^(2 * HalfWord)
Shift(n, k) == IF k < 0 THEN n \div 2^(-k) ELSE Word(n * 2^k)

\* _scaleDelta: the low word of the product shifted right by half a word
ScaleDelta(delta, mul, shift) ==
  Word((Shift(delta, shift) * mul) \div 2^HalfWord)

\* _nanosecondsSinceLastUpdate, on the record c
SinceLastUpdate(c, now) == ScaleDelta(Word(now - c.tsc), c.mul, c.shift)

TimeOf(c, now) == c.sys + SinceLastUpdate(c, now)
TrueTime == TimeOf(Last(cals), tsc)

(****************************************************************************)
(* The hypervisor.                                                          *)
(****************************************************************************)
Tick ==
  /\ tsc < MaxTsc
  /\ tsc' = tsc + 1
  /\ UNCHANGED <<cals, walls, src, wsrc, writing, shadow, shadowTs, th, timer>>

\* A new calibration continues the old one from the present counter, at
\* another rate: two records of one rate would be harder to tell apart.
Recalibrate ==
  /\ writing.time = "idle"
  /\ Len(cals) <= MaxUpdates
  /\ \E r \in {q \in Rates : q.mul # Last(cals).mul \/ q.shift # Last(cals).shift} :
       cals' = Append(cals, [tsc |-> tsc, sys |-> TrueTime,
                             mul |-> r.mul, shift |-> r.shift])
  /\ src' = [src EXCEPT !.version = @ + 1]
  /\ writing' = [writing EXCEPT !.time = "tsc"]
  /\ UNCHANGED <<tsc, walls, wsrc, shadow, shadowTs, th, timer>>

\* The fields of the record, one after the other, and the even version.
PublishTime ==
  LET c == Last(cals) IN
  /\ \/ /\ writing.time = "tsc"
        /\ src' = [src EXCEPT !.tsc = c.tsc]
        /\ writing' = [writing EXCEPT !.time = "sys"]
     \/ /\ writing.time = "sys"
        /\ src' = [src EXCEPT !.sys = c.sys]
        /\ writing' = [writing EXCEPT !.time = "scale"]
     \/ /\ writing.time = "scale"
        /\ src' = [src EXCEPT !.mul = c.mul, !.shift = c.shift]
        /\ writing' = [writing EXCEPT !.time = "version"]
     \/ /\ writing.time = "version"
        /\ src' = [src EXCEPT !.version = @ + 1]
        /\ writing' = [writing EXCEPT !.time = "idle"]
  /\ UNCHANGED <<tsc, cals, walls, wsrc, shadow, shadowTs, th, timer>>

SetWallclock ==
  /\ writing.wall = "idle"
  /\ Len(walls) <= MaxWalls
  /\ \E w \in Walls \ {Last(walls)} : walls' = Append(walls, w)
  /\ wsrc' = [wsrc EXCEPT !.version = @ + 1]
  /\ writing' = [writing EXCEPT !.wall = "sec"]
  /\ UNCHANGED <<tsc, cals, src, shadow, shadowTs, th, timer>>

PublishWallclock ==
  LET w == Last(walls) IN
  /\ \/ /\ writing.wall = "sec"
        /\ wsrc' = [wsrc EXCEPT !.sec = w.sec]
        /\ writing' = [writing EXCEPT !.wall = "nsec"]
     \/ /\ writing.wall = "nsec"
        /\ wsrc' = [wsrc EXCEPT !.nsec = w.nsec, !.version = @ + 1]
        /\ writing' = [writing EXCEPT !.wall = "idle"]
  /\ UNCHANGED <<tsc, cals, walls, src, shadow, shadowTs, th, timer>>

PeriodicTick ==
  /\ ticks < MaxTicks
  /\ ticks' = ticks + 1
  /\ pending' = TRUE
  /\ UNCHANGED <<shared, shadow, shadowTs, th, armed, timeout, deadline, calls>>

\* At the bound of the counter the later ticks are taken to have passed.
Expire ==
  /\ deadline # None
  /\ TrueTime >= deadline \/ tsc = MaxTsc
  /\ deadline' = None
  /\ pending' = TRUE
  /\ UNCHANGED <<shared, shadow, shadowTs, th, armed, timeout, ticks, calls>>

(****************************************************************************)
(* Reading the time.  `from' is a history value of the frame: what was      *)
(* published, and the counter, when the read began.                         *)
(****************************************************************************)
Runs(t) == t = "main" => th["handler"].pc = "idle"
At(t, pc) == Runs(t) /\ th[t].pc = pc
Go(t, pc) == th' = [th EXCEPT ![t].pc = pc]

Published == IF writing.time = "idle" THEN Len(cals) ELSE Len(cals) - 1
Frame(pc, op) == [pc |-> pc, op |-> op, local |-> 0, sys |-> 0, time |-> 0, sec |-> 0,
                  from |-> [cal |-> Published, tsc |-> tsc]]

\* local_time_version = shadow.version
ReadLocal(t) ==
  /\ At(t, "local")
  /\ th' = [th EXCEPT ![t].local = shadow.version, ![t].time = 0, ![t].pc = "stamp"]
  /\ UNCHANGED <<shared, shadow, shadowTs, timer>>

ReadStamp(t) ==
  /\ At(t, "stamp")
  /\ th' = [th EXCEPT ![t].sys = shadow.sys, ![t].pc = "scale"]
  /\ UNCHANGED <<shared, shadow, shadowTs, timer>>

ReadScaled(t) ==
  /\ At(t, "scale")
  /\ th' = [th EXCEPT ![t].time = th[t].sys + SinceLastUpdate(shadow, tsc),
                      ![t].sys = 0,
                      ![t].pc = "update"]
  /\ UNCHANGED <<shared, shadow, shadowTs, timer>>

\* _timeUpdate: is the copy of the time record out of date?
TimeUpdate(t) ==
  /\ At(t, "update")
  /\ Go(t, IF shadow.version # src.version THEN "copy" ELSE "wall")
  /\ UNCHANGED <<shared, shadow, shadowTs, timer>>

(****************************************************************************)
(* _updateTimeFromXen                                                       *)
(****************************************************************************)
\* Mutant: the version is read once, before the loop.
CopyVersion_Once(t) ==
  /\ At(t, "copy")
  /\ shadow' = [shadow EXCEPT !.version = IF @ = 0 THEN src.version ELSE @]
  /\ Go(t, "copy_tsc")
  /\ UNCHANGED <<shared, shadowTs, timer>>

CopyVersion(t) ==
  /\ At(t, "copy")
  /\ shadow' = [shadow EXCEPT !.version = src.version]
  /\ Go(t, "copy_tsc")
  /\ UNCHANGED <<shared, shadowTs, timer>>

CopyFields(t) ==
  /\ \/ /\ At(t, "copy_tsc")
        /\ shadow' = [shadow EXCEPT !.tsc = src.tsc]
        /\ Go(t, "copy_sys")
     \/ /\ At(t, "copy_sys")
        /\ shadow' = [shadow EXCEPT !.sys = src.sys]
        /\ Go(t, "copy_scale")
     \/ /\ At(t, "copy_scale")
        /\ shadow' = [shadow EXCEPT !.mul = src.mul, !.shift = src.shift]
        /\ Go(t, "copy_check")
  /\ UNCHANGED <<shared, shadowTs, timer>>

\* Mutant: the lowest bit of the version is not looked at.
CopyGood_WhileWritten(version, now) == version = now

\* The copy is good when the record was not being written and is the one
\* whose version was read first.
CopyGood(version, now) == now % 2 = 0 /\ version = now

CopyCheck(t) ==
  /\ At(t, "copy_check")
  /\ Go(t, IF CopyGood(shadow.version, src.version) THEN "wall" ELSE "copy")
  /\ UNCHANGED <<shared, shadow, shadowTs, timer>>

(****************************************************************************)
(* The wall clock: the second test of _timeUpdate, and _updateWallclock.    *)
(****************************************************************************)
WallUpdate(t) ==
  /\ At(t, "wall")
  /\ Go(t, IF shadowTs.version # wsrc.version THEN "wcopy" ELSE "again")
  /\ UNCHANGED <<shared, shadow, shadowTs, timer>>

UpdateWallclock(t) ==
  /\ \/ /\ At(t, "wcopy")
        /\ shadowTs' = [shadowTs EXCEPT !.version = wsrc.version]
        /\ Go(t, "wcopy_sec")
     \/ /\ At(t, "wcopy_sec")
        /\ shadowTs' = [shadowTs EXCEPT !.sec = wsrc.sec]
        /\ Go(t, "wcopy_nsec")
     \/ /\ At(t, "wcopy_nsec")
        /\ shadowTs' = [shadowTs EXCEPT !.nsec = wsrc.nsec]
        /\ Go(t, "wcopy_check")
     \/ /\ At(t, "wcopy_check")
        /\ Go(t, IF CopyGood(shadowTs.version, wsrc.version) THEN "again" ELSE "wcopy")
        /\ UNCHANGED shadowTs
  /\ UNCHANGED <<shared, shadow, timer>>

\* Mutant: a time computed before the update is returned.
Again_NoRetry(t) ==
  /\ At(t, "again")
  /\ Go(t, "return")
  /\ UNCHANGED <<shared, shadow, shadowTs, timer>>

\* while (local_time_version != shadow.version)
Again(t) ==
  /\ At(t, "again")
  /\ Go(t, IF th[t].local # shadow.version THEN "local" ELSE "return")
  /\ UNCHANGED <<shared, shadow, shadowTs, timer>>

TimeMonotonic(t) ==
  \/ ReadLocal(t) \/ ReadStamp(t) \/ ReadScaled(t) \/ TimeUpdate(t)
  \/ CopyVersion(t) \/ CopyFields(t) \/ CopyCheck(t)
  \/ WallUpdate(t) \/ UpdateWallclock(t) \/ Again(t)

(****************************************************************************)
(* The main thread: timeOfDay, and archKernelBlock with timeOneShotSet.     *)
(****************************************************************************)
Resting == [pc |-> "idle", op |-> "none", local |-> 0, sys |-> 0, time |-> 0, sec |-> 0,
            from |-> [cal |-> 1, tsc |-> 0]]
Finish(t) == th' = [th EXCEPT ![t] = Resting]

Call(op) ==
  /\ At("main", "idle")
  /\ calls < MaxCalls
  /\ calls' = calls + 1
  /\ th' = [th EXCEPT !["main"] = Frame("local", op)]
  /\ UNCHANGED <<shared, shadow, shadowTs, armed, timeout, deadline, pending, ticks>>

TimeOfDay == Call("day")
ArchKernelBlock == Call("block")

\* timeOfDay after timeMonotonic: the two parts of the wall clock are read
\* one after the other.
DayNsec ==
  /\ At("main", "return") /\ th["main"].op = "day"
  /\ th' = [th EXCEPT !["main"].time = @ + shadowTs.nsec, !["main"].pc = "day_sec"]
  /\ UNCHANGED <<shared, shadow, shadowTs, timer>>

DaySec ==
  /\ At("main", "day_sec")
  /\ th' = [th EXCEPT !["main"].sec = shadowTs.sec + (th["main"].time \div SecNsec),
                      !["main"].time = @ % SecNsec,
                      !["main"].pc = "day"]
  /\ UNCHANGED <<shared, shadow, shadowTs, timer>>

DayReturn ==
  /\ At("main", "day")
  /\ Finish("main")
  /\ UNCHANGED <<shared, shadow, shadowTs, timer>>

\* timeOneShotSet: op.timeout_abs_ns = NOW() + delta
SetTimeout ==
  /\ At("main", "return") /\ th["main"].op = "block"
  /\ timeout' = th["main"].time + Delta
  /\ th' = [th EXCEPT !["main"] = [Resting EXCEPT !.pc = "pointer"]]
  /\ UNCHANGED <<shared, shadow, shadowTs, armed, deadline, pending, ticks, calls>>

SetPointer ==
  /\ At("main", "pointer")
  /\ armed' = TRUE
  /\ Go("main", "log")
  /\ UNCHANGED <<shared, shadow, shadowTs, timeout, deadline, pending, ticks, calls>>

\* The log line reads pointer->timeout_abs_ns, through NULL when the handler
\* has run since.
LogTimeout ==
  /\ At("main", "log")
  /\ Go("main", IF armed THEN "set" ELSE "faulted")
  /\ UNCHANGED <<shared, shadow, shadowTs, timer>>

\* VCPUOP_set_singleshot_timer refuses a time that has passed, and the loop
\* of timeOneShotSet takes another.
SetSingleshotTimer ==
  /\ At("main", "set")
  /\ IF timeout < TrueTime
       THEN /\ th' = [th EXCEPT !["main"] = Frame("local", "block")]
            /\ UNCHANGED deadline
       ELSE /\ deadline' = timeout
            /\ Go("main", "block")
  /\ UNCHANGED <<shared, shadow, shadowTs, armed, timeout, pending, ticks, calls>>

\* xenScheduleBlock: the kernel sleeps until an event arrives.
ScheduleBlock ==
  /\ At("main", "block")
  /\ Go("main", "blocked")
  /\ UNCHANGED <<shared, shadow, shadowTs, timer>>

(****************************************************************************)
(* timeHandler.  It interrupts the main thread anywhere, once: events are   *)
(* masked while it runs.                                                    *)
(****************************************************************************)
Interrupt ==
  /\ pending
  /\ th["handler"].pc = "idle"
  /\ pending' = FALSE
  /\ th' = [th EXCEPT !["handler"] = Frame(IF armed THEN "local" ELSE "done", "announce")]
  /\ UNCHANGED <<shared, shadow, shadowTs, armed, timeout, deadline, ticks, calls>>

\* The timer is announced when it has passed, and forgotten in any case.
Announce ==
  /\ At("handler", "return")
  /\ armed' = FALSE
  /\ th' = [th EXCEPT !["handler"].pc = "done",
                      !["handler"].sec = IF timeout < th["handler"].time THEN 1 ELSE 0]
  /\ UNCHANGED <<shared, shadow, shadowTs, timeout, deadline, pending, ticks, calls>>

\* Return from the interrupt; a kernel that slept goes on.
HandlerReturn ==
  /\ At("handler", "done")
  /\ th' = [th EXCEPT !["handler"] = Resting,
                      !["main"] = IF @.pc = "blocked" THEN Resting ELSE @]
  /\ UNCHANGED <<shared, shadow, shadowTs, timer>>

(****************************************************************************)
(* The specification.                                                       *)
(****************************************************************************)
FirstCal == [tsc |-> 0, sys |-> 0, mul |-> (CHOOSE r \in Rates : TRUE).mul,
             shift |-> (CHOOSE r \in Rates : TRUE).shift]
FirstWall == CHOOSE w \in Walls : TRUE

\* The hypervisor published its records before the kernel started, whose
\* copies are zero.
Init ==
  /\ tsc = 0
  /\ cals = <<FirstCal>> /\ walls = <<FirstWall>>
  /\ src = [version |-> 2, tsc |-> 0, sys |-> 0, mul |-> FirstCal.mul, shift |-> FirstCal.shift]
  /\ wsrc = [version |-> 2, sec |-> FirstWall.sec, nsec |-> FirstWall.nsec]
  /\ writing = [time |-> "idle", wall |-> "idle"]
  /\ shadow = [version |-> 0, tsc |-> 0, sys |-> 0, mul |-> 0, shift |-> 0]
  /\ shadowTs = [version |-> 0, sec |-> 0, nsec |-> 0]
  /\ th = [t \in Threads |-> Resting]
  /\ armed = FALSE /\ timeout = 0 /\ deadline = None
  /\ pending = FALSE /\ ticks = 0 /\ calls = 0

Hypervisor ==
  \/ Tick \/ Recalibrate \/ PublishTime \/ SetWallclock \/ PublishWallclock
  \/ PeriodicTick \/ Expire

MainSteps ==
  \/ DayNsec \/ DaySec \/ DayReturn
  \/ SetTimeout \/ SetPointer \/ LogTimeout \/ SetSingleshotTimer \/ ScheduleBlock

Handler == Interrupt \/ Announce \/ HandlerReturn

Next ==
  \/ Hypervisor \/ TimeOfDay \/ ArchKernelBlock \/ MainSteps \/ Handler
  \/ \E t \in Threads : TimeMonotonic(t)

\* The processor executes the kernel, delivers what is pending, and the
\* hypervisor finishes the record it has begun to write.
Fairness ==
  /\ \A t \in Threads : WF_vars(TimeMonotonic(t))
  /\ WF_vars(MainSteps) /\ WF_vars(Handler)
  /\ WF_vars(PublishTime) /\ WF_vars(PublishWallclock)

Spec == Init /\ [][Next]_vars /\ Fairness

(****************************************************************************)
(* Properties.                                                              *)
(****************************************************************************)
Updating(t) == th[t].pc \in {"copy", "copy_tsc", "copy_sys", "copy_scale", "copy_check"}
UpdatingWall(t) == th[t].pc \in {"wcopy", "wcopy_sec", "wcopy_nsec", "wcopy_check"}

Accurate(t) ==
  th[t].pc = "return" =>
    \E c \in th[t].from.cal..Len(cals), now \in th[t].from.tsc..tsc :
      th[t].time = TimeOf(cals[c], now)

\* A time timeMonotonic returns to the main thread was extrapolated from one
\* published record, no older than the one in force when the call began,
\* whatever the hypervisor and the timer handler did in between
\* (time.c:191-193: it is "required to return accurate time").
MainTimeAccurate == Accurate("main")

\* The same of the time the handler reads; the code does not keep it, see the
\* README.
HandlerTimeAccurate == Accurate("handler")

\* Outside _updateTimeFromXen and _updateWallclock the kernel's copies are
\* whole: no mixture of two records survives, although both threads copy into
\* the same variables.
SnapshotWhole ==
  /\ (\A t \in Threads : ~Updating(t)) /\ shadow.version # 0 =>
       \E i \in DOMAIN cals : \A f \in DOMAIN cals[i] : shadow[f] = cals[i][f]
  /\ (\A t \in Threads : ~UpdatingWall(t)) /\ shadowTs.version # 0 =>
       \E i \in DOMAIN walls : \A f \in DOMAIN walls[i] : shadowTs[f] = walls[i][f]

\* A read of the time ends, in the handler too, which may have interrupted the
\* copying of the record it waits for.
ReadReturns ==
  \A t \in Threads : th[t].pc = "local" ~> th[t].pc = "return"
=============================================================================
