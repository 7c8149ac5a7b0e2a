-------------------------- MODULE TimeKeepingProofs --------------------------
(****************************************************************************)
(* Proof that no torn copy of a record of the hypervisor survives the        *)
(* version protocol of arch/x86_64/time.c, for any number of recalibrations, *)
(* settings of the wall clock, ticks and calls, although two threads of      *)
(* control copy into the same variables.                                     *)
(****************************************************************************)
EXTENDS TimeKeeping, TLAPS

FrameFields == {"pc", "op", "local", "sys", "time", "sec", "from"}
TimeFields  == {"tsc", "sys", "mul", "shift"}
WallFields  == {"sec", "nsec"}
CopyPcs     == {"copy", "copy_tsc", "copy_sys", "copy_scale", "copy_check"}
WcopyPcs    == {"wcopy", "wcopy_sec", "wcopy_nsec", "wcopy_check"}

\* The fields the hypervisor has already written, when it writes field w next.
WrittenTime(w) == {f \in TimeFields : \/ w \in {"idle", "version"}
                                      \/ f = "tsc" /\ w \in {"sys", "scale"}
                                      \/ f = "sys" /\ w = "scale"}
WrittenWall(w) == {f \in WallFields : w = "idle" \/ (f = "sec" /\ w = "nsec")}

\* The fields a thread at pc has copied since it read the version.
CopiedTime(pc) == {f \in TimeFields : \/ pc = "copy_check"
                                      \/ f = "tsc" /\ pc \in {"copy_sys", "copy_scale"}
                                      \/ f = "sys" /\ pc = "copy_scale"}
CopiedWall(pc) == {f \in WallFields : pc = "wcopy_check" \/ (f = "sec" /\ pc = "wcopy_nsec")}

\* Both threads have frames, and the hypervisor one of the positions.
Frames == /\ DOMAIN th = Threads
          /\ \A t \in Threads : DOMAIN th[t] = FrameFields
          /\ DOMAIN writing = {"time", "wall"}
          /\ writing.time \in {"idle", "tsc", "sys", "scale", "version"}
          /\ writing.wall \in {"idle", "sec", "nsec"}

----------------------------------------------------------------------------
\* The inductive invariant for the time record.  The version counts the records
\* twice and is odd while one is written, so the kernel's version is never
\* ahead of it; and a thread that still has the current version has copied
\* current fields.  When the handler copies in the middle of a copy of the main
\* thread it leaves all fields current, so the main thread's are.
TimeShape ==
  /\ \E S : cals \in Seq(S)
  /\ Len(cals) >= 1
  /\ \A i \in 1 .. Len(cals) : DOMAIN cals[i] = TimeFields
  /\ DOMAIN src = TimeFields \cup {"version"} /\ src.version \in Nat
  /\ DOMAIN shadow = TimeFields \cup {"version"} /\ shadow.version \in Nat

TimeVersion ==
  /\ src.version = IF writing.time = "idle" THEN 2 * Len(cals) ELSE 2 * Len(cals) - 1
  /\ shadow.version <= src.version

TimeWritten == \A f \in WrittenTime(writing.time) : src[f] = cals[Len(cals)][f]

TimeCurrent(pc) ==
  writing.time = "idle" /\ shadow.version = src.version =>
    \A f \in CopiedTime(pc) : shadow[f] = cals[Len(cals)][f]
TimeCopied == /\ TimeCurrent(th["handler"].pc)
              /\ th["handler"].pc \notin CopyPcs => TimeCurrent(th["main"].pc)

TimeWhole ==
  (\A t \in Threads : ~Updating(t)) /\ shadow.version # 0 =>
    \E i \in DOMAIN cals : \A f \in DOMAIN cals[i] : shadow[f] = cals[i][f]

TimeInv == Frames /\ TimeShape /\ TimeVersion /\ TimeWritten /\ TimeCopied /\ TimeWhole

\* A step that touches neither the records nor a thread that copies.
TimeQuiet == /\ UNCHANGED <<cals, src, shadow>> /\ writing'.time = writing.time
             /\ \A t \in Threads : \/ th'[t].pc = th[t].pc
                                   \/ th'[t].pc \notin CopyPcs /\ th[t].pc \notin CopyPcs

\* The same for the wall clock.
WallShape ==
  /\ \E S : walls \in Seq(S)
  /\ Len(walls) >= 1
  /\ \A i \in 1 .. Len(walls) : DOMAIN walls[i] = WallFields
  /\ DOMAIN wsrc = WallFields \cup {"version"} /\ wsrc.version \in Nat
  /\ DOMAIN shadowTs = WallFields \cup {"version"} /\ shadowTs.version \in Nat

WallVersion ==
  /\ wsrc.version = IF writing.wall = "idle" THEN 2 * Len(walls) ELSE 2 * Len(walls) - 1
  /\ shadowTs.version <= wsrc.version

WallWritten == \A f \in WrittenWall(writing.wall) : wsrc[f] = walls[Len(walls)][f]

WallCurrent(pc) ==
  writing.wall = "idle" /\ shadowTs.version = wsrc.version =>
    \A f \in CopiedWall(pc) : shadowTs[f] = walls[Len(walls)][f]
WallCopied == /\ WallCurrent(th["handler"].pc)
              /\ th["handler"].pc \notin WcopyPcs => WallCurrent(th["main"].pc)

WallWhole ==
  (\A t \in Threads : ~UpdatingWall(t)) /\ shadowTs.version # 0 =>
    \E i \in DOMAIN walls : \A f \in DOMAIN walls[i] : shadowTs[f] = walls[i][f]

WallInv == Frames /\ WallShape /\ WallVersion /\ WallWritten /\ WallCopied /\ WallWhole

WallQuiet == /\ UNCHANGED <<walls, wsrc, shadowTs>> /\ writing'.wall = writing.wall
             /\ \A t \in Threads : \/ th'[t].pc = th[t].pc
                                   \/ th'[t].pc \notin WcopyPcs /\ th[t].pc \notin WcopyPcs

----------------------------------------------------------------------------
LEMMA Appended ==
  ASSUME NEW s, NEW S, s \in Seq(S), NEW e
  PROVE  /\ Append(s, e) \in Seq(S \cup {e}) /\ Len(s) \in Nat
         /\ Len(Append(s, e)) = Len(s) + 1
         /\ \A i \in 1 .. Len(s) : Append(s, e)[i] = s[i]
         /\ Append(s, e)[Len(s) + 1] = e
<1>1. s \in Seq(S \cup {e}) /\ e \in S \cup {e}
  OBVIOUS
<1> QED BY <1>1

LEMMA FramesKeep ==
  ASSUME Frames, [Next]_vars
  PROVE  Frames'
<1> USE DEF Frames, FrameFields, Threads
<1>1. CASE Hypervisor
  <2>1. CASE Tick \/ PeriodicTick \/ Expire
    BY <2>1 DEF Tick, PeriodicTick, Expire, shared
  <2>2. CASE Recalibrate \/ SetWallclock
    BY <2>2 DEF Recalibrate, SetWallclock
  <2>3. CASE PublishTime
    BY <2>3 DEF PublishTime
  <2>4. CASE PublishWallclock
    BY <2>4 DEF PublishWallclock
  <2> QED BY <1>1, <2>1, <2>2, <2>3, <2>4 DEF Hypervisor
<1>2. CASE TimeOfDay \/ ArchKernelBlock \/ MainSteps
  BY <1>2 DEF TimeOfDay, ArchKernelBlock, Call, Frame, Go, Finish, Resting, MainSteps, DayNsec,
             DaySec, DayReturn, SetTimeout, SetPointer, LogTimeout, SetSingleshotTimer,
             ScheduleBlock, shared
<1>3. CASE Handler
  BY <1>3 DEF Handler, Interrupt, Announce, HandlerReturn, Frame, Resting, shared
<1>4. ASSUME NEW t \in Threads, TimeMonotonic(t) PROVE Frames'
  <2>1. writing' = writing
    BY <1>4 DEF TimeMonotonic, ReadLocal, ReadStamp, ReadScaled, TimeUpdate, CopyVersion,
               CopyFields, CopyCheck, WallUpdate, UpdateWallclock, Again, shared
  <2>2. \/ \E pc : Go(t, pc)
        \/ ReadLocal(t) \/ ReadStamp(t) \/ ReadScaled(t)
    BY <1>4 DEF TimeMonotonic, TimeUpdate, CopyVersion, CopyFields, CopyCheck, WallUpdate,
               UpdateWallclock, Again
  <2> QED BY <2>1, <2>2 DEF Go, ReadLocal, ReadStamp, ReadScaled
<1>5. CASE UNCHANGED vars
  BY <1>5 DEF vars
<1> QED BY <1>1, <1>2, <1>3, <1>4, <1>5 DEF Next

LEMMA FirstFrames == Init => Frames
BY DEF Init, Frames, Resting, FrameFields

----------------------------------------------------------------------------
LEMMA TimeQuietKeeps ==
  ASSUME TimeInv, Frames', TimeQuiet
  PROVE  TimeInv'
<1> USE DEF TimeInv, TimeQuiet
<1>1. TimeShape' /\ TimeVersion' /\ TimeWritten'
  BY DEF TimeShape, TimeVersion, TimeWritten
<1>2. TimeCopied'
  <2>1. \A t \in Threads : \/ th'[t].pc = th[t].pc
                           \/ CopiedTime(th'[t].pc) = {} /\ th'[t].pc \notin CopyPcs /\ th[t].pc \notin CopyPcs
    BY DEF CopiedTime, CopyPcs
  <2> QED BY <2>1 DEF TimeCopied, TimeCurrent, Threads
<1>3. TimeWhole'
  BY DEF TimeWhole, Updating, CopyPcs
<1> QED BY <1>1, <1>2, <1>3

LEMMA RecalibrateKeeps ==
  ASSUME TimeInv, Recalibrate
  PROVE  TimeInv'
<1> USE DEF TimeInv
<1>1. Frames'
  BY FramesKeep DEF Next, Hypervisor
<1>2. PICK e : cals' = Append(cals, e) /\ DOMAIN e = TimeFields
  BY SizesAssumption, SMTT(40) DEF Recalibrate, TimeFields
<1>3. PICK S : cals \in Seq(S)
  BY DEF TimeShape
<1>4. /\ cals' \in Seq(S \cup {e}) /\ Len(cals) \in Nat /\ Len(cals') = Len(cals) + 1
      /\ \A i \in 1 .. Len(cals) : cals'[i] = cals[i]
      /\ cals'[Len(cals')] = e
      /\ DOMAIN cals = 1 .. Len(cals) /\ DOMAIN cals' = 1 .. Len(cals')
  BY <1>2, <1>3, Appended
<1>5. /\ src' = [src EXCEPT !.version = @ + 1] /\ UNCHANGED <<shadow, th>>
      /\ writing.time = "idle" /\ writing'.time # "idle" /\ WrittenTime(writing'.time) = {}
  BY DEF Recalibrate, Frames, WrittenTime
<1>6. TimeShape'
  BY <1>2, <1>4, <1>5 DEF TimeShape, TimeFields
<1>7. TimeVersion' /\ TimeWritten' /\ TimeCopied'
  BY <1>4, <1>5 DEF TimeShape, TimeVersion, TimeWritten, TimeCopied, TimeCurrent
<1>8. TimeWhole'
  <2>1. ASSUME NEW i \in DOMAIN cals
        PROVE  i \in DOMAIN cals' /\ cals'[i] = cals[i]
    BY <1>4
  <2> QED BY <1>5, <2>1 DEF TimeWhole, Updating
<1> QED BY <1>1, <1>6, <1>7, <1>8

LEMMA PublishTimeKeeps ==
  ASSUME TimeInv, PublishTime
  PROVE  TimeInv'
<1> USE DEF TimeInv
<1>1. Frames'
  BY FramesKeep DEF Next, Hypervisor
<1>2. UNCHANGED <<cals, shadow, th>> /\ Len(cals) \in Nat
  BY DEF PublishTime, TimeShape
<1> DEFINE c == cals[Len(cals)]
<1>3. \/ writing.time = "tsc" /\ writing'.time = "sys" /\ src' = [src EXCEPT !.tsc = c.tsc]
      \/ writing.time = "sys" /\ writing'.time = "scale" /\ src' = [src EXCEPT !.sys = c.sys]
      \/ /\ writing.time = "scale" /\ writing'.time = "version"
         /\ src' = [src EXCEPT !.mul = c.mul, !.shift = c.shift]
      \/ /\ writing.time = "version" /\ writing'.time = "idle"
         /\ src' = [src EXCEPT !.version = @ + 1]
  BY DEF PublishTime, Last, Frames
<1>4. TimeShape' /\ TimeVersion' /\ (writing'.time = "idle" => src'.version # shadow.version)
  <2>1. /\ DOMAIN src' = DOMAIN src
        /\ \/ src'.version = src.version /\ writing'.time # "idle"
           \/ src'.version = src.version + 1 /\ writing'.time = "idle"
    BY <1>3 DEF TimeShape, TimeFields
  <2>2. writing.time # "idle"
    BY <1>3
  <2>3. TimeVersion' /\ src'.version \in Nat /\ (writing'.time = "idle" => src'.version # shadow.version)
    BY <1>2, <2>1, <2>2 DEF TimeShape, TimeVersion
  <2> QED BY <1>2, <2>1, <2>3 DEF TimeShape
<1>5. TimeWritten'
  BY <1>2, <1>3 DEF TimeShape, TimeWritten, WrittenTime, TimeFields
<1>6. TimeCopied'
  BY <1>2, <1>4 DEF TimeCopied, TimeCurrent, TimeShape
<1>7. TimeWhole'
  BY <1>2 DEF TimeWhole, Updating
<1> QED BY <1>1, <1>4, <1>5, <1>6, <1>7

\* Steps of a thread that reads the time record.  The main thread runs only
\* while the handler does not.
LEMMA TimeUpdateKeeps ==
  ASSUME TimeInv, NEW t \in Threads, TimeUpdate(t)
  PROVE  TimeInv'
<1> USE DEF TimeInv, TimeUpdate, At, Go, shared
<1>1. Frames'
  BY FramesKeep DEF Next, TimeMonotonic
<1>2. /\ UNCHANGED <<cals, src, shadow, writing>>
      /\ \A u \in Threads \ {t} : th'[u] = th[u]
      /\ th'[t].pc \in {"copy", "wall"} /\ th[t].pc = "update"
  BY DEF Frames, FrameFields
<1>3. TimeShape' /\ TimeVersion' /\ TimeWritten'
  BY <1>2 DEF TimeShape, TimeVersion, TimeWritten
<1>4. TimeCopied'
  <2>1. CopiedTime("copy") = {} /\ CopiedTime("wall") = {}
    BY DEF CopiedTime
  <2> QED BY <1>2, <2>1 DEF TimeCopied, TimeCurrent, Threads, CopyPcs
<1>5. TimeWhole'
  BY <1>2 DEF TimeWhole, Updating, Threads
<1> QED BY <1>1, <1>3, <1>4, <1>5

LEMMA CopyVersionKeeps ==
  ASSUME TimeInv, NEW t \in Threads, CopyVersion(t)
  PROVE  TimeInv'
<1> USE DEF TimeInv, CopyVersion, At, Go, shared
<1>1. Frames'
  BY FramesKeep DEF Next, TimeMonotonic
<1>2. /\ UNCHANGED <<cals, src, writing>> /\ shadow' = [shadow EXCEPT !.version = src.version]
      /\ \A u \in Threads \ {t} : th'[u] = th[u]
      /\ th'[t].pc = "copy_tsc" /\ (t = "main" => th["handler"].pc = "idle")
  BY DEF Frames, FrameFields, Runs
<1>3. TimeShape' /\ TimeVersion' /\ TimeWritten'
  BY <1>2 DEF TimeShape, TimeVersion, TimeWritten
<1>4. TimeCopied'
  <2>1. CopiedTime("copy_tsc") = {} /\ CopiedTime("idle") = {}
    BY DEF CopiedTime
  <2> QED BY <1>2, <2>1 DEF TimeCopied, TimeCurrent, Threads, CopyPcs
<1>5. TimeWhole'
  BY <1>2 DEF TimeWhole, Updating
<1> QED BY <1>1, <1>3, <1>4, <1>5

LEMMA CopyFieldsKeeps ==
  ASSUME TimeInv, NEW t \in Threads, CopyFields(t)
  PROVE  TimeInv'
<1> USE DEF TimeInv
<1>1. Frames'
  BY FramesKeep DEF Next, TimeMonotonic
<1>2. /\ UNCHANGED <<cals, src, writing>>
      /\ \A u \in Threads \ {t} : th'[u] = th[u]
      /\ t = "main" => th["handler"].pc = "idle"
  BY DEF CopyFields, At, Go, Runs, shared, Frames
<1>3. \/ /\ th[t].pc = "copy_tsc" /\ th'[t].pc = "copy_sys"
         /\ shadow' = [shadow EXCEPT !.tsc = src.tsc]
      \/ /\ th[t].pc = "copy_sys" /\ th'[t].pc = "copy_scale"
         /\ shadow' = [shadow EXCEPT !.sys = src.sys]
      \/ /\ th[t].pc = "copy_scale" /\ th'[t].pc = "copy_check"
         /\ shadow' = [shadow EXCEPT !.mul = src.mul, !.shift = src.shift]
  BY DEF CopyFields, At, Go, Frames, FrameFields
<1>4. shadow'.version = shadow.version /\ DOMAIN shadow' = DOMAIN shadow
  BY <1>3 DEF TimeShape, TimeFields
<1>5. TimeShape' /\ TimeVersion' /\ TimeWritten'
  BY <1>2, <1>4 DEF TimeShape, TimeVersion, TimeWritten
<1>6. TimeCurrent(th[t].pc) /\ th'[t].pc \in CopyPcs
  BY <1>2, <1>3 DEF TimeCopied, Threads, CopyPcs
<1>7. (TimeCurrent(th[t].pc))'
  <2> SUFFICES ASSUME writing.time = "idle", shadow.version = src.version,
                      NEW f \in CopiedTime(th'[t].pc)
               PROVE  shadow'[f] = cals[Len(cals)][f]
    BY <1>2, <1>4 DEF TimeCurrent
  <2>1. f \in TimeFields /\ src[f] = cals[Len(cals)][f]
    BY DEF TimeWritten, WrittenTime, CopiedTime
  <2>2. (f \in CopiedTime(th[t].pc) /\ shadow'[f] = shadow[f]) \/ shadow'[f] = src[f]
    BY <1>3 DEF CopiedTime, TimeShape, TimeFields
  <2> QED BY <1>6, <2>1, <2>2 DEF TimeCurrent
<1>8. TimeCopied'
  <2>1. CopiedTime("idle") = {}
    BY DEF CopiedTime
  <2>2. CASE t = "main"
    BY <1>2, <1>7, <2>1, <2>2 DEF TimeCopied, TimeCurrent, Threads
  <2>3. CASE t = "handler"
    BY <1>2, <1>6, <1>7, <2>3 DEF TimeCopied, CopyPcs
  <2> QED BY <2>2, <2>3 DEF Threads
<1>9. TimeWhole'
  BY <1>6 DEF TimeWhole, Updating, CopyPcs
<1> QED BY <1>1, <1>5, <1>8, <1>9

LEMMA CopyCheckKeeps ==
  ASSUME TimeInv, NEW t \in Threads, CopyCheck(t)
  PROVE  TimeInv'
<1> USE DEF TimeInv
<1>1. Frames'
  BY FramesKeep DEF Next, TimeMonotonic
<1>2. /\ UNCHANGED <<cals, src, writing, shadow>>
      /\ \A u \in Threads \ {t} : th'[u] = th[u]
      /\ th[t].pc = "copy_check" /\ (t = "main" => th["handler"].pc = "idle")
      /\ \/ th'[t].pc = "copy"
         \/ th'[t].pc = "wall" /\ CopyGood(shadow.version, src.version)
  BY DEF CopyCheck, At, Go, Runs, shared, Frames, FrameFields
<1>3. TimeShape' /\ TimeVersion' /\ TimeWritten'
  BY <1>2 DEF TimeShape, TimeVersion, TimeWritten
<1>4. TimeCurrent("copy_check")
  BY <1>2 DEF TimeCopied, Threads, CopyPcs
<1>5. CASE th'[t].pc = "copy"
  <2>1. CopiedTime("copy") = {} /\ CopiedTime("idle") = {}
    BY DEF CopiedTime
  <2>2. TimeCopied'
    BY <1>2, <1>5, <2>1 DEF TimeCopied, TimeCurrent, Threads, CopyPcs
  <2>3. TimeWhole'
    BY <1>5 DEF TimeWhole, Updating
  <2> QED BY <1>1, <1>3, <2>2, <2>3
<1>6. CASE th'[t].pc = "wall" /\ CopyGood(shadow.version, src.version)
  <2>1. writing.time = "idle" /\ shadow.version = src.version
    <3>1. Len(cals) \in Nat
      BY DEF TimeShape
    <3>2. (2 * Len(cals) - 1) % 2 = 1
      BY <3>1
    <3>3. src.version % 2 = 0 /\ shadow.version = src.version
      BY <1>6 DEF CopyGood
    <3>4. writing.time # "idle" => src.version = 2 * Len(cals) - 1
      BY DEF TimeVersion
    <3> QED BY <3>2, <3>3, <3>4
  <2>2. \A f \in TimeFields : shadow[f] = cals[Len(cals)][f]
    BY <1>4, <2>1 DEF TimeCurrent, CopiedTime
  <2>3. TimeCopied'
    BY <1>2, <2>2 DEF TimeCopied, TimeCurrent, CopiedTime
  <2>4. TimeWhole'
    <3>1. Len(cals) \in DOMAIN cals /\ DOMAIN cals[Len(cals)] = TimeFields
      BY DEF TimeShape
    <3> QED BY <1>2, <2>2, <3>1 DEF TimeWhole
  <2> QED BY <1>1, <1>3, <2>3, <2>4
<1> QED BY <1>2, <1>5, <1>6

----------------------------------------------------------------------------
LEMMA WallQuietKeeps ==
  ASSUME WallInv, Frames', WallQuiet
  PROVE  WallInv'
<1> USE DEF WallInv, WallQuiet
<1>1. WallShape' /\ WallVersion' /\ WallWritten'
  BY DEF WallShape, WallVersion, WallWritten
<1>2. WallCopied'
  <2>1. \A t \in Threads : \/ th'[t].pc = th[t].pc
                           \/ CopiedWall(th'[t].pc) = {} /\ th'[t].pc \notin WcopyPcs /\ th[t].pc \notin WcopyPcs
    BY DEF CopiedWall, WcopyPcs
  <2> QED BY <2>1 DEF WallCopied, WallCurrent, Threads
<1>3. WallWhole'
  BY DEF WallWhole, UpdatingWall, WcopyPcs
<1> QED BY <1>1, <1>2, <1>3

LEMMA SetWallclockKeeps ==
  ASSUME WallInv, SetWallclock
  PROVE  WallInv'
<1> USE DEF WallInv
<1>1. Frames'
  BY FramesKeep DEF Next, Hypervisor
<1>2. PICK e : walls' = Append(walls, e) /\ DOMAIN e = WallFields
  BY SizesAssumption DEF SetWallclock, WallFields
<1>3. PICK S : walls \in Seq(S)
  BY DEF WallShape
<1>4. /\ walls' \in Seq(S \cup {e}) /\ Len(walls) \in Nat /\ Len(walls') = Len(walls) + 1
      /\ \A i \in 1 .. Len(walls) : walls'[i] = walls[i]
      /\ walls'[Len(walls')] = e
      /\ DOMAIN walls = 1 .. Len(walls) /\ DOMAIN walls' = 1 .. Len(walls')
  BY <1>2, <1>3, Appended
<1>5. /\ wsrc' = [wsrc EXCEPT !.version = @ + 1] /\ UNCHANGED <<shadowTs, th>>
      /\ writing.wall = "idle" /\ writing'.wall # "idle" /\ WrittenWall(writing'.wall) = {}
  BY DEF SetWallclock, Frames, WrittenWall
<1>6. WallShape'
  BY <1>2, <1>4, <1>5 DEF WallShape, WallFields
<1>7. WallVersion' /\ WallWritten' /\ WallCopied'
  BY <1>4, <1>5 DEF WallShape, WallVersion, WallWritten, WallCopied, WallCurrent
<1>8. WallWhole'
  <2>1. ASSUME NEW i \in DOMAIN walls
        PROVE  i \in DOMAIN walls' /\ walls'[i] = walls[i]
    BY <1>4
  <2> QED BY <1>5, <2>1 DEF WallWhole, UpdatingWall
<1> QED BY <1>1, <1>6, <1>7, <1>8

LEMMA PublishWallclockKeeps ==
  ASSUME WallInv, PublishWallclock
  PROVE  WallInv'
<1> USE DEF WallInv
<1>1. Frames'
  BY FramesKeep DEF Next, Hypervisor
<1>2. UNCHANGED <<walls, shadowTs, th>> /\ Len(walls) \in Nat
  BY DEF PublishWallclock, WallShape
<1> DEFINE c == walls[Len(walls)]
<1>3. \/ writing.wall = "sec" /\ writing'.wall = "nsec" /\ wsrc' = [wsrc EXCEPT !.sec = c.sec]
      \/ /\ writing.wall = "nsec" /\ writing'.wall = "idle"
         /\ wsrc' = [wsrc EXCEPT !.nsec = c.nsec, !.version = @ + 1]
  BY DEF PublishWallclock, Last, Frames
<1>4. WallShape' /\ WallVersion' /\ (writing'.wall = "idle" => wsrc'.version # shadowTs.version)
  <2>1. /\ DOMAIN wsrc' = DOMAIN wsrc
        /\ \/ wsrc'.version = wsrc.version /\ writing'.wall # "idle"
           \/ wsrc'.version = wsrc.version + 1 /\ writing'.wall = "idle"
    BY <1>3 DEF WallShape, WallFields
  <2>2. writing.wall # "idle"
    BY <1>3
  <2>3. WallVersion' /\ wsrc'.version \in Nat /\ (writing'.wall = "idle" => wsrc'.version # shadowTs.version)
    BY <1>2, <2>1, <2>2 DEF WallShape, WallVersion
  <2> QED BY <1>2, <2>1, <2>3 DEF WallShape
<1>5. WallWritten'
  BY <1>2, <1>3 DEF WallShape, WallWritten, WrittenWall, WallFields
<1>6. WallCopied'
  BY <1>2, <1>4 DEF WallCopied, WallCurrent, WallShape
<1>7. WallWhole'
  BY <1>2 DEF WallWhole, UpdatingWall
<1> QED BY <1>1, <1>4, <1>5, <1>6, <1>7

LEMMA WallUpdateKeeps ==
  ASSUME WallInv, NEW t \in Threads, WallUpdate(t)
  PROVE  WallInv'
<1> USE DEF WallInv, WallUpdate, At, Go, shared
<1>1. Frames'
  BY FramesKeep DEF Next, TimeMonotonic
<1>2. /\ UNCHANGED <<walls, wsrc, shadowTs, writing>>
      /\ \A u \in Threads \ {t} : th'[u] = th[u]
      /\ th'[t].pc \in {"wcopy", "again"} /\ th[t].pc = "wall"
  BY DEF Frames, FrameFields
<1>3. WallShape' /\ WallVersion' /\ WallWritten'
  BY <1>2 DEF WallShape, WallVersion, WallWritten
<1>4. WallCopied'
  <2>1. CopiedWall("wcopy") = {} /\ CopiedWall("again") = {}
    BY DEF CopiedWall
  <2> QED BY <1>2, <2>1 DEF WallCopied, WallCurrent, Threads, WcopyPcs
<1>5. WallWhole'
  BY <1>2 DEF WallWhole, UpdatingWall, Threads
<1> QED BY <1>1, <1>3, <1>4, <1>5

LEMMA UpdateWallclockKeeps ==
  ASSUME WallInv, NEW t \in Threads, UpdateWallclock(t)
  PROVE  WallInv'
<1> USE DEF WallInv
<1>1. Frames'
  BY FramesKeep DEF Next, TimeMonotonic
<1>2. /\ UNCHANGED <<walls, wsrc, writing>>
      /\ \A u \in Threads \ {t} : th'[u] = th[u]
      /\ t = "main" => th["handler"].pc = "idle"
  BY DEF UpdateWallclock, At, Go, Runs, shared, Frames
<1>3. \/ /\ th[t].pc = "wcopy" /\ th'[t].pc = "wcopy_sec"
         /\ shadowTs' = [shadowTs EXCEPT !.version = wsrc.version]
      \/ /\ th[t].pc = "wcopy_sec" /\ th'[t].pc = "wcopy_nsec"
         /\ shadowTs' = [shadowTs EXCEPT !.sec = wsrc.sec]
      \/ /\ th[t].pc = "wcopy_nsec" /\ th'[t].pc = "wcopy_check"
         /\ shadowTs' = [shadowTs EXCEPT !.nsec = wsrc.nsec]
      \/ /\ th[t].pc = "wcopy_check" /\ shadowTs' = shadowTs
         /\ \/ th'[t].pc = "wcopy"
            \/ th'[t].pc = "again" /\ CopyGood(shadowTs.version, wsrc.version)
  BY DEF UpdateWallclock, At, Go, Frames, FrameFields
<1>4. /\ DOMAIN shadowTs' = DOMAIN shadowTs
      /\ shadowTs'.version \in {shadowTs.version, wsrc.version}
  BY <1>3 DEF WallShape, WallFields
<1>5. WallShape' /\ WallVersion' /\ WallWritten'
  BY <1>2, <1>4 DEF WallShape, WallVersion, WallWritten
<1>6. WallCurrent(th[t].pc)
  BY <1>2, <1>3 DEF WallCopied, Threads, WcopyPcs
<1>7. CASE th'[t].pc # "again"
  <2>1. (WallCurrent(th[t].pc))'
    <3> SUFFICES ASSUME writing.wall = "idle", shadowTs'.version = wsrc.version,
                        NEW f \in CopiedWall(th'[t].pc)
                 PROVE  shadowTs'[f] = walls[Len(walls)][f]
      BY <1>2 DEF WallCurrent
    <3>0. f \in WrittenWall(writing.wall)
      BY DEF WrittenWall, CopiedWall
    <3>1. wsrc[f] = walls[Len(walls)][f]
      BY <3>0 DEF WallWritten
    <3>2. \/ /\ f \in CopiedWall(th[t].pc) /\ shadowTs'[f] = shadowTs[f]
             /\ shadowTs'.version = shadowTs.version
          \/ shadowTs'[f] = wsrc[f]
      BY <1>3, <1>7 DEF CopiedWall, WallShape, WallFields
    <3> QED BY <1>6, <3>1, <3>2 DEF WallCurrent
  <2>2. CopiedWall("idle") = {} /\ th'[t].pc \in WcopyPcs
    BY <1>3, <1>7 DEF CopiedWall, WcopyPcs
  <2>3. WallCopied'
    BY <1>2, <2>1, <2>2 DEF WallCopied, WallCurrent, Threads
  <2>4. WallWhole'
    BY <2>2 DEF WallWhole, UpdatingWall, WcopyPcs
  <2> QED BY <1>1, <1>5, <2>3, <2>4
<1>8. CASE th'[t].pc = "again"
  <2>0. th[t].pc = "wcopy_check" /\ shadowTs' = shadowTs /\ CopyGood(shadowTs.version, wsrc.version)
    BY <1>3, <1>8
  <2>1. writing.wall = "idle" /\ shadowTs.version = wsrc.version
    <3>1. Len(walls) \in Nat
      BY DEF WallShape
    <3>2. (2 * Len(walls) - 1) % 2 = 1
      BY <3>1
    <3>3. wsrc.version % 2 = 0 /\ shadowTs.version = wsrc.version
      BY <2>0 DEF CopyGood
    <3>4. writing.wall # "idle" => wsrc.version = 2 * Len(walls) - 1
      BY DEF WallVersion
    <3> QED BY <3>2, <3>3, <3>4
  <2>2. \A f \in WallFields : shadowTs[f] = walls[Len(walls)][f]
    <3>1. CopiedWall("wcopy_check") = WallFields
      BY DEF CopiedWall
    <3> QED BY <1>6, <2>0, <2>1, <3>1 DEF WallCurrent
  <2>3. WallCopied'
    BY <1>2, <2>0, <2>2 DEF WallCopied, WallCurrent, CopiedWall
  <2>4. WallWhole'
    <3>1. Len(walls) \in DOMAIN walls /\ DOMAIN walls[Len(walls)] = WallFields
      BY DEF WallShape
    <3> QED BY <1>2, <2>0, <2>2, <3>1 DEF WallWhole
  <2> QED BY <1>1, <1>5, <2>3, <2>4
<1> QED BY <1>7, <1>8

----------------------------------------------------------------------------
\* The steps that touch neither the records nor a thread that copies.
LEMMA OthersQuiet ==
  ASSUME Frames, Next
  PROVE  /\ TimeQuiet \/ Recalibrate \/ PublishTime
            \/ \E t \in Threads : TimeUpdate(t) \/ CopyVersion(t) \/ CopyFields(t) \/ CopyCheck(t)
         /\ WallQuiet \/ SetWallclock \/ PublishWallclock
            \/ \E t \in Threads : WallUpdate(t) \/ UpdateWallclock(t)
<1> USE DEF Frames, FrameFields, Threads, TimeQuiet, WallQuiet, CopyPcs, WcopyPcs, shared
<1>1. CASE Hypervisor
  <2>1. CASE Tick \/ PeriodicTick \/ Expire
    BY <2>1 DEF Tick, PeriodicTick, Expire
  <2>2. CASE Recalibrate \/ PublishTime
    BY <2>2 DEF Recalibrate, PublishTime
  <2>3. CASE SetWallclock \/ PublishWallclock
    BY <2>3 DEF SetWallclock, PublishWallclock
  <2> QED BY <1>1, <2>1, <2>2, <2>3 DEF Hypervisor
<1>2. CASE TimeOfDay \/ ArchKernelBlock
  BY <1>2 DEF TimeOfDay, ArchKernelBlock, Call, Frame, At
<1>3. CASE MainSteps
  BY <1>3 DEF MainSteps, DayNsec, DaySec, DayReturn, SetTimeout, SetPointer, LogTimeout,
             SetSingleshotTimer, ScheduleBlock, Frame, Go, Finish, Resting, At
<1>4. CASE Handler
  BY <1>4 DEF Handler, Interrupt, Announce, HandlerReturn, Frame, Resting, At
<1>5. ASSUME NEW t \in Threads, TimeMonotonic(t)
      PROVE  /\ TimeQuiet \/ TimeUpdate(t) \/ CopyVersion(t) \/ CopyFields(t) \/ CopyCheck(t)
             /\ WallQuiet \/ WallUpdate(t) \/ UpdateWallclock(t)
  <2>1. CASE ReadLocal(t) \/ ReadStamp(t) \/ ReadScaled(t) \/ Again(t)
    BY <2>1 DEF ReadLocal, ReadStamp, ReadScaled, Again, At, Go
  <2>2. CASE TimeUpdate(t) \/ CopyVersion(t) \/ CopyFields(t) \/ CopyCheck(t)
    BY <2>2 DEF TimeUpdate, CopyVersion, CopyFields, CopyCheck, At, Go
  <2>3. CASE WallUpdate(t) \/ UpdateWallclock(t)
    BY <2>3 DEF WallUpdate, UpdateWallclock, At, Go
  <2> QED BY <1>5, <2>1, <2>2, <2>3 DEF TimeMonotonic
<1> QED BY <1>1, <1>2, <1>3, <1>4, <1>5 DEF Next

LEMMA InitWhole == Init => TimeInv /\ WallInv
<1> SUFFICES ASSUME Init PROVE TimeInv /\ WallInv
  OBVIOUS
<1> USE DEF Init
<1>1. cals \in Seq({FirstCal}) /\ Len(cals) = 1 /\ cals[1] = FirstCal /\ DOMAIN FirstCal = TimeFields
  BY DEF FirstCal, TimeFields
<1>2. walls \in Seq({FirstWall}) /\ Len(walls) = 1 /\ walls[1] = FirstWall
  OBVIOUS
<1>3. DOMAIN FirstWall = WallFields
  BY SizesAssumption DEF FirstWall, WallFields
<1>4. th["handler"].pc = "idle" /\ th["main"].pc = "idle"
  BY DEF Threads, Resting
<1>5. TimeShape /\ TimeVersion /\ TimeWritten /\ TimeCopied /\ TimeWhole
  <2>1. \E S : cals \in Seq(S)
    BY <1>1
  <2>2. TimeShape
    BY <1>1, <2>1 DEF TimeShape, TimeFields
  <2>3. TimeVersion
    BY <1>1 DEF TimeVersion
  <2>4. TimeWritten
    BY <1>1 DEF TimeWritten, WrittenTime, TimeFields, FirstCal
  <2>5. TimeCopied /\ TimeWhole
    BY <1>4 DEF TimeCopied, TimeCurrent, CopiedTime, TimeWhole
  <2> QED BY <2>2, <2>3, <2>4, <2>5
<1>6. WallShape /\ WallVersion /\ WallWritten /\ WallCopied /\ WallWhole
  <2>1. \E S : walls \in Seq(S)
    BY <1>2
  <2>2. WallShape
    BY <1>2, <1>3, <2>1 DEF WallShape, WallFields
  <2>3. WallVersion
    BY <1>2 DEF WallVersion
  <2>4. WallWritten
    BY <1>2 DEF WallWritten, WrittenWall, WallFields
  <2>5. WallCopied /\ WallWhole
    BY <1>4 DEF WallCopied, WallCurrent, CopiedWall, WallWhole
  <2> QED BY <2>2, <2>3, <2>4, <2>5
<1> QED BY <1>5, <1>6, FirstFrames DEF TimeInv, WallInv

LEMMA NextWhole == TimeInv /\ WallInv /\ [Next]_vars => TimeInv' /\ WallInv'
<1> SUFFICES ASSUME TimeInv, WallInv, [Next]_vars PROVE TimeInv' /\ WallInv'
  OBVIOUS
<1>1. Frames'
  BY FramesKeep DEF TimeInv
<1>2. CASE UNCHANGED vars
  BY <1>1, <1>2, TimeQuietKeeps, WallQuietKeeps DEF vars, TimeQuiet, WallQuiet
<1>3. CASE Next
  <2>1. TimeInv'
    BY <1>1, <1>3, OthersQuiet, TimeQuietKeeps, RecalibrateKeeps, PublishTimeKeeps, TimeUpdateKeeps,
       CopyVersionKeeps, CopyFieldsKeeps, CopyCheckKeeps DEF TimeInv
  <2>2. WallInv'
    BY <1>1, <1>3, OthersQuiet, WallQuietKeeps, SetWallclockKeeps, PublishWallclockKeeps,
       WallUpdateKeeps, UpdateWallclockKeeps DEF WallInv
  <2> QED BY <2>1, <2>2
<1> QED BY <1>2, <1>3

\* Outside _updateTimeFromXen and _updateWallclock the kernel's copies of the
\* two records are whole, whatever the hypervisor writes meanwhile and wherever
\* the timer handler interrupts.
THEOREM CopiesStayWhole == Spec => []SnapshotWhole
<1>1. TimeInv /\ WallInv => SnapshotWhole
  BY DEF TimeInv, WallInv, TimeWhole, WallWhole, SnapshotWhole
<1> QED BY <1>1, InitWhole, NextWhole, PTL DEF Spec
----------------------------------------------------------------------------
\* The time that timeMonotonic returns to the main thread.

Touched  == {"copy_tsc", "copy_sys", "copy_scale", "copy_check"}
Compared == {"wall", "again"} \cup WcopyPcs
Computed == {"update"} \cup CopyPcs \cup Compared
Reading  == {"stamp", "scale"} \cup Computed
Calling  == {"local", "return"} \cup Reading

\* The kernel's copy is the whole record whose version it has, or none yet.
CopyOf(i) == i \in DOMAIN cals /\ \A f \in TimeFields : shadow[f] = cals[i][f]
Settled   == \E i \in 0 .. Len(cals) : shadow.version = 2 * i /\ (i # 0 => CopyOf(i))
VersionWhole == (\A t \in Threads : th[t].pc \notin CopyPcs) => Settled

\* What the call found when it began is not in the future.
CallBegun == LET from == th["main"].from IN
             th["main"].pc \in Calling => /\ from.tsc \in Int /\ from.tsc <= tsc
                                          /\ from.cal \in Int /\ 2 * from.cal <= src.version

\* The kernel's version only grows, and every copy makes it grow: while it is
\* still the one read first neither thread has touched the copy since, and
\* what the call computed so far it computed from that copy.
TimeComputed == \E now \in th["main"].from.tsc .. tsc : th["main"].time = TimeOf(shadow, now)
Untouched == LET m == th["main"] IN
  m.pc \in Reading /\ m.local = shadow.version =>
    /\ \A t \in Threads : /\ th[t].pc \notin Touched
                          /\ th[t].pc = "copy" => m.local < src.version
    /\ Settled
    /\ m.pc = "scale" => m.sys = shadow.sys
    /\ m.pc \in Computed => TimeComputed
    /\ m.pc \in Compared => 0 < m.local /\ 2 * m.from.cal <= m.local
LocalBehind == th["main"].pc \in Reading =>
  th["main"].local \in Nat /\ th["main"].local <= shadow.version

Returned == LET m == th["main"] IN
  m.pc = "return" => \E c \in DOMAIN cals, now \in m.from.tsc .. tsc :
                       m.from.cal <= c /\ m.time = TimeOf(cals[c], now)

MainInv == tsc \in Nat /\ VersionWhole /\ CallBegun /\ LocalBehind /\ Untouched /\ Returned

----------------------------------------------------------------------------
\* Versions of the two records: the kernel's copy has settled whenever neither
\* thread is copying.
LEMMA SettledKeep ==
  ASSUME TimeInv, TimeInv', Settled, UNCHANGED <<cals, shadow>>
  PROVE  Settled'
BY DEF Settled, CopyOf

LEMMA SettledAppend ==
  ASSUME TimeInv, Settled, Recalibrate
  PROVE  Settled'
<1>1. PICK e : cals' = Append(cals, e)
  BY DEF Recalibrate
<1>2. PICK S : cals \in Seq(S)
  BY DEF TimeInv, TimeShape
<1>3. /\ Len(cals) \in Nat /\ Len(cals') = Len(cals) + 1
      /\ \A i \in 1 .. Len(cals) : cals'[i] = cals[i]
      /\ DOMAIN cals = 1 .. Len(cals) /\ DOMAIN cals' = 1 .. Len(cals')
  BY <1>1, <1>2, Appended
<1>4. shadow' = shadow
  BY DEF Recalibrate
<1> QED BY <1>3, <1>4 DEF Settled, CopyOf

\* A copy that passed the check is the last record.
LEMMA CheckedSettled ==
  ASSUME TimeInv, NEW t \in Threads, CopyCheck(t), th'[t].pc = "wall"
  PROVE  Settled'
<1> USE DEF TimeInv
<1>1. /\ UNCHANGED <<cals, src, shadow>>
      /\ th[t].pc = "copy_check" /\ (t = "main" => th["handler"].pc = "idle")
      /\ CopyGood(shadow.version, src.version)
  BY DEF CopyCheck, At, Go, Runs, shared, Frames, FrameFields
<1>2. Len(cals) \in Nat
  BY DEF TimeShape
<1>3. writing.time = "idle" /\ shadow.version = src.version
  <2>1. (2 * Len(cals) - 1) % 2 = 1
    BY <1>2
  <2>2. src.version % 2 = 0 /\ shadow.version = src.version
    BY <1>1 DEF CopyGood
  <2>3. writing.time # "idle" => src.version = 2 * Len(cals) - 1
    BY DEF TimeVersion
  <2> QED BY <2>1, <2>2, <2>3
<1>4. TimeCurrent("copy_check")
  BY <1>1 DEF TimeCopied, Threads, CopyPcs
<1>5. \A f \in TimeFields : shadow[f] = cals[Len(cals)][f]
  BY <1>3, <1>4 DEF TimeCurrent, CopiedTime
<1>6. shadow.version = 2 * Len(cals) /\ Len(cals) \in 0 .. Len(cals) /\ Len(cals) \in DOMAIN cals
  BY <1>2, <1>3 DEF TimeVersion, TimeShape
<1> QED BY <1>1, <1>5, <1>6 DEF Settled, CopyOf

LEMMA VersionWholeKeeps ==
  ASSUME TimeInv, VersionWhole, [Next]_vars
  PROVE  VersionWhole'
<1> SUFFICES ASSUME \A t \in Threads : th'[t].pc \notin CopyPcs
             PROVE  Settled'
  BY DEF VersionWhole
<1>0. Frames /\ Frames'
  BY FramesKeep DEF TimeInv
<1>1. CASE TimeQuiet \/ PublishTime \/ UNCHANGED vars
  <2>1. UNCHANGED <<cals, shadow>> /\ \A t \in Threads : th[t].pc \notin CopyPcs
    BY <1>1 DEF TimeQuiet, PublishTime, vars
  <2> QED BY <2>1 DEF VersionWhole, Settled, CopyOf
<1>2. CASE Recalibrate
  <2>1. th' = th
    BY <1>2 DEF Recalibrate
  <2> QED BY <1>2, <2>1, SettledAppend DEF VersionWhole
<1>3. ASSUME NEW t \in Threads, TimeUpdate(t) PROVE Settled'
  <2>1. /\ UNCHANGED <<cals, shadow>> /\ th[t].pc = "update"
        /\ \A u \in Threads \ {t} : th'[u] = th[u]
    BY <1>0, <1>3 DEF TimeUpdate, At, Go, shared, Frames
  <2>2. \A u \in Threads : th[u].pc \notin CopyPcs
    BY <2>1 DEF CopyPcs
  <2> QED BY <2>1, <2>2 DEF VersionWhole, Settled, CopyOf
<1>4. ASSUME NEW t \in Threads, CopyVersion(t) \/ CopyFields(t) PROVE FALSE
  BY <1>0, <1>4 DEF CopyVersion, CopyFields, At, Go, Frames, FrameFields, CopyPcs
<1>5. ASSUME NEW t \in Threads, CopyCheck(t) PROVE Settled'
  <2>1. th'[t].pc = "wall"
    BY <1>0, <1>5 DEF CopyCheck, At, Go, Frames, FrameFields, CopyPcs
  <2> QED BY <1>5, <2>1, CheckedSettled
<1> QED BY <1>0, <1>1, <1>2, <1>3, <1>4, <1>5, OthersQuiet

----------------------------------------------------------------------------
\* Steps that leave alone what the call of the main thread depends on.
MainQuiet ==
  /\ UNCHANGED <<cals, src, shadow>> /\ th'["main"] = th["main"]
  /\ tsc' \in Nat /\ tsc <= tsc'
  /\ \/ th'["handler"].pc = th["handler"].pc
     \/ th'["handler"].pc \notin CopyPcs

LEMMA Later ==
  ASSUME NEW a \in Int, NEW b \in Int, NEW c \in Int, b <= c
  PROVE  \A n \in a .. b : n \in a .. c
OBVIOUS

LEMMA MainQuietKeeps ==
  ASSUME TimeInv, MainInv, VersionWhole', MainQuiet
  PROVE  MainInv'
<1> USE DEF MainInv, MainQuiet
<1>1. CallBegun' /\ LocalBehind'
  BY DEF CallBegun, LocalBehind
<1>2. ASSUME th["main"].pc \in Calling
      PROVE  \A now \in th["main"].from.tsc .. tsc : now \in th["main"].from.tsc .. tsc'
  BY <1>2 DEF CallBegun
<1>3. Returned'
  BY <1>2 DEF Returned, Calling
<1>4. Untouched'
  <2> SUFFICES ASSUME th["main"].pc \in Reading, th["main"].local = shadow.version
               PROVE  Untouched'
    BY DEF Untouched
  <2>1. Settled'
    BY DEF Untouched, Settled, CopyOf
  <2>2. th["main"].pc \in Computed => TimeComputed'
    BY <1>2 DEF Untouched, TimeComputed, Calling
  <2>3. \A t \in Threads : /\ th'[t].pc \notin Touched
                           /\ th'[t].pc = "copy" => th["main"].local < src.version
    <3>1. "copy" \in CopyPcs /\ Touched \subseteq CopyPcs
      BY DEF CopyPcs, Touched
    <3> QED BY <3>1 DEF Untouched, Threads
  <2> QED BY <2>1, <2>2, <2>3 DEF Untouched
<1> QED BY <1>1, <1>3, <1>4

\* A call of the main thread begins, or the main thread does something else.
LEMMA MainAwayKeeps ==
  ASSUME MainInv, VersionWhole', tsc' = tsc, UNCHANGED <<cals, src, shadow>>,
         th'["main"].pc \notin Calling
  PROVE  MainInv'
BY DEF MainInv, CallBegun, LocalBehind, Untouched, Returned, Calling

LEMMA CallKeeps ==
  ASSUME TimeInv, MainInv, VersionWhole', UNCHANGED <<tsc, cals, src, shadow>>,
         NEW op, th'["main"] = Frame("local", op)
  PROVE  MainInv'
<1>1. Len(cals) \in Nat
  BY DEF TimeInv, TimeShape
<1>2. Published \in Int /\ 2 * Published <= src.version
  BY <1>1 DEF Published, TimeInv, TimeVersion
<1>3. /\ th'["main"].pc = "local" /\ th'["main"].from.tsc = tsc
      /\ th'["main"].from.cal = Published
  BY DEF Frame
<1>4. CallBegun'
  BY <1>2, <1>3 DEF CallBegun, MainInv
<1> QED BY <1>3, <1>4 DEF MainInv, LocalBehind, Untouched, Returned, Reading, Computed, Compared,
                        CopyPcs, WcopyPcs

\* The hypervisor begins or goes on with a record.
LEMMA RecordKeeps ==
  ASSUME TimeInv, TimeInv', MainInv, VersionWhole', Recalibrate \/ PublishTime
  PROVE  MainInv'
<1> USE DEF MainInv
<1>1. UNCHANGED <<tsc, shadow, th>>
  BY DEF Recalibrate, PublishTime
<1>2. src.version \in Nat /\ src'.version \in Nat /\ src.version <= src'.version
  <2>1. src'.version \in {src.version, src.version + 1}
    BY DEF Recalibrate, PublishTime, TimeInv, TimeShape, TimeFields
  <2> QED BY <2>1 DEF TimeInv, TimeShape
<1>3. \A i \in DOMAIN cals : i \in DOMAIN cals' /\ cals'[i] = cals[i]
  <2>1. CASE Recalibrate
    <3>1. PICK e : cals' = Append(cals, e)
      BY <2>1 DEF Recalibrate
    <3>2. PICK S : cals \in Seq(S)
      BY DEF TimeInv, TimeShape
    <3> QED BY <3>1, <3>2, Appended
  <2>2. CASE PublishTime
    BY <2>2 DEF PublishTime
  <2> QED BY <2>1, <2>2
<1>4. Settled => Settled'
  BY <1>1, SettledAppend DEF PublishTime, Settled, CopyOf
<1>5. CallBegun'
  BY <1>1, <1>2 DEF CallBegun
<1>6. LocalBehind'
  BY <1>1 DEF LocalBehind
<1>7. Returned'
  BY <1>1, <1>3 DEF Returned
<1>8. Untouched'
  <2> SUFFICES ASSUME th["main"].pc \in Reading, th["main"].local = shadow.version
               PROVE  Untouched'
    BY <1>1 DEF Untouched
  <2>1. \A t \in Threads : th[t].pc = "copy" => th["main"].local < src'.version
    BY <1>2 DEF Untouched, LocalBehind
  <2>2. TimeComputed => TimeComputed'
    BY <1>1 DEF TimeComputed
  <2> QED BY <1>1, <1>4, <2>1, <2>2 DEF Untouched
<1> QED BY <1>1, <1>5, <1>6, <1>7, <1>8

----------------------------------------------------------------------------
\* The main thread reads the kernel's copy: the handler is idle, and the copy
\* has settled.
LEMMA ReadLocalKeeps ==
  ASSUME TimeInv, MainInv, VersionWhole', ReadLocal("main")
  PROVE  MainInv'
<1>1. /\ UNCHANGED <<tsc, cals, src, shadow>> /\ th["main"].pc = "local"
      /\ th["handler"].pc = "idle" /\ th'["handler"] = th["handler"]
      /\ th'["main"].pc = "stamp" /\ th'["main"].local = shadow.version
      /\ th'["main"].from = th["main"].from
  BY DEF ReadLocal, At, Runs, shared, TimeInv, Frames, FrameFields, Threads
<1> USE DEF MainInv
<1>2. CallBegun'
  BY <1>1 DEF CallBegun, Calling, Reading
<1>3. LocalBehind'
  BY <1>1 DEF LocalBehind, TimeInv, TimeShape
<1>4. Settled'
  BY <1>1 DEF VersionWhole, CopyPcs, Threads
<1>5. Untouched'
  BY <1>1, <1>4 DEF Untouched, Touched, Computed, Compared, CopyPcs, WcopyPcs, Threads
<1> QED BY <1>1, <1>2, <1>3, <1>5 DEF Returned

LEMMA ReadStampKeeps ==
  ASSUME TimeInv, MainInv, VersionWhole', ReadStamp("main")
  PROVE  MainInv'
<1>1. /\ UNCHANGED <<tsc, cals, src, shadow>> /\ th["main"].pc = "stamp"
      /\ th["handler"].pc = "idle" /\ th'["handler"] = th["handler"]
      /\ th'["main"].pc = "scale" /\ th'["main"].local = th["main"].local
      /\ th'["main"].sys = shadow.sys
      /\ th'["main"].from = th["main"].from
  BY DEF ReadStamp, At, Runs, shared, TimeInv, Frames, FrameFields, Threads
<1> USE DEF MainInv
<1>2. CallBegun'
  BY <1>1 DEF CallBegun, Calling, Reading
<1>3. LocalBehind'
  BY <1>1 DEF LocalBehind, Reading
<1>4. Settled => Settled'
  BY <1>1 DEF Settled, CopyOf
<1>5. Untouched'
  BY <1>1, <1>4 DEF Untouched, Touched, Reading, Computed, Compared, CopyPcs, WcopyPcs, Threads
<1> QED BY <1>1, <1>2, <1>3, <1>5 DEF Returned

\* The time is computed from the copy, at the present counter.
LEMMA ReadScaledKeeps ==
  ASSUME TimeInv, MainInv, VersionWhole', ReadScaled("main")
  PROVE  MainInv'
<1>1. /\ UNCHANGED <<tsc, cals, src, shadow>> /\ th["main"].pc = "scale"
      /\ th["handler"].pc = "idle" /\ th'["handler"] = th["handler"]
      /\ th'["main"].pc = "update" /\ th'["main"].local = th["main"].local
      /\ th'["main"].time = th["main"].sys + SinceLastUpdate(shadow, tsc)
      /\ th'["main"].from = th["main"].from
  BY DEF ReadScaled, At, Runs, shared, TimeInv, Frames, FrameFields, Threads
<1> USE DEF MainInv
<1>2. CallBegun'
  BY <1>1 DEF CallBegun, Calling, Reading, Computed
<1>3. LocalBehind'
  BY <1>1 DEF LocalBehind, Reading
<1>4. Settled => Settled'
  BY <1>1 DEF Settled, CopyOf
<1>5. th["main"].sys = shadow.sys => TimeComputed'
  <2> SUFFICES ASSUME th["main"].sys = shadow.sys PROVE TimeComputed'
    OBVIOUS
  <2>1. th'["main"].time = TimeOf(shadow, tsc)
    BY <1>1 DEF TimeOf
  <2>2. tsc \in th["main"].from.tsc .. tsc
    BY <1>1 DEF CallBegun, Calling, Reading
  <2> QED BY <1>1, <2>1, <2>2 DEF TimeComputed
<1>6. Untouched'
  BY <1>1, <1>4, <1>5 DEF Untouched, Touched, Reading, Compared, CopyPcs, WcopyPcs, Threads
<1> QED BY <1>1, <1>2, <1>3, <1>6 DEF Returned

\* The frame of the main thread but for the pc, and what it reads, stay.
OnlyPc == /\ UNCHANGED <<tsc, cals, src>> /\ th'["main"].from = th["main"].from
          /\ th'["main"].local = th["main"].local /\ th'["main"].time = th["main"].time
          /\ th["handler"].pc = "idle" /\ th'["handler"] = th["handler"]

LEMMA MainTimeUpdateKeeps ==
  ASSUME TimeInv, MainInv, VersionWhole', TimeUpdate("main")
  PROVE  MainInv'
<1>1. OnlyPc /\ shadow' = shadow /\ th["main"].pc = "update"
  BY DEF OnlyPc, TimeUpdate, At, Go, Runs, shared, TimeInv, Frames, FrameFields, Threads
<1>2. \/ th'["main"].pc = "copy" /\ shadow.version # src.version
      \/ th'["main"].pc = "wall" /\ shadow.version = src.version
  BY DEF TimeUpdate, At, Go, TimeInv, Frames, FrameFields, Threads
<1> USE DEF MainInv, OnlyPc
<1>3. CallBegun'
  BY <1>1, <1>2 DEF CallBegun, Calling, Reading, Computed, Compared, CopyPcs
<1>4. LocalBehind'
  BY <1>1 DEF LocalBehind, Reading, Computed
<1>5. Settled => Settled'
  BY <1>1 DEF Settled, CopyOf
<1>6. TimeComputed => TimeComputed'
  BY <1>1 DEF TimeComputed
<1>7. shadow.version # src.version => shadow.version < src.version
  BY DEF TimeInv, TimeShape, TimeVersion
<1>8. shadow.version = src.version =>
        0 < shadow.version /\ 2 * th["main"].from.cal <= shadow.version
  <2>1. 0 < src.version
    BY DEF TimeInv, TimeShape, TimeVersion
  <2> QED BY <1>1, <2>1 DEF CallBegun, Calling, Reading, Computed
<1>9. Untouched'
  <2> SUFFICES ASSUME th["main"].local = shadow.version PROVE Untouched'
    BY <1>1 DEF Untouched
  <2>1. Settled' /\ TimeComputed'
    BY <1>1, <1>5, <1>6 DEF Untouched, Reading, Computed
  <2>2. CASE th'["main"].pc = "copy" /\ shadow.version # src.version
    BY <1>1, <1>7, <2>1, <2>2 DEF Untouched, Touched, Compared, WcopyPcs, Threads
  <2>3. CASE th'["main"].pc = "wall" /\ shadow.version = src.version
    BY <1>1, <1>8, <2>1, <2>3 DEF Untouched, Touched, Threads
  <2> QED BY <1>2, <2>2, <2>3
<1> QED BY <1>1, <1>2, <1>3, <1>4, <1>9 DEF Returned

\* A copy makes the version grow, so the call will compute its time again.
LEMMA MainCopyKeeps ==
  ASSUME TimeInv, MainInv, VersionWhole',
         CopyVersion("main") \/ CopyFields("main") \/ CopyCheck("main")
  PROVE  MainInv'
<1>1. OnlyPc /\ th["main"].pc \in CopyPcs
  BY DEF OnlyPc, CopyVersion, CopyFields, CopyCheck, CopyPcs, At, Go, Runs, shared, TimeInv,
         Frames, FrameFields, Threads
<1>2. \/ th["main"].pc = "copy" /\ shadow'.version = src.version
      \/ th["main"].pc \in Touched /\ shadow'.version = shadow.version
  BY DEF CopyVersion, CopyFields, CopyCheck, Touched, At, Go, TimeInv, TimeShape, TimeFields
<1>3. th'["main"].pc \in Reading
  BY DEF CopyVersion, CopyFields, CopyCheck, At, Go, TimeInv, Frames, FrameFields, Threads,
         Reading, Computed, CopyPcs, Compared
<1> USE DEF MainInv, OnlyPc
<1>4. CallBegun'
  BY <1>1, <1>3 DEF CallBegun, Calling, Reading, Computed
<1>5. th'["main"].local \in Nat /\ th'["main"].local < shadow'.version
  <2>1. /\ th["main"].local \in Nat /\ th["main"].local <= shadow.version
        /\ shadow.version \in Nat /\ src.version \in Nat /\ shadow.version <= src.version
    BY <1>1 DEF LocalBehind, Reading, Computed, TimeInv, TimeShape, TimeVersion
  <2>2. CASE th["main"].pc = "copy" /\ shadow'.version = src.version
    <3>1. th["main"].local = shadow.version => th["main"].local < src.version
      BY <2>2 DEF Untouched, Reading, Computed, CopyPcs, Threads
    <3> QED BY <1>1, <2>1, <2>2, <3>1
  <2>3. CASE th["main"].pc \in Touched /\ shadow'.version = shadow.version
    <3>1. th["main"].local # shadow.version
      BY <1>1, <2>3 DEF Untouched, Reading, Computed, Threads
    <3> QED BY <1>1, <2>1, <2>3, <3>1
  <2> QED BY <1>2, <2>2, <2>3
<1>6. LocalBehind'
  <2>1. shadow'.version \in Nat
    BY <1>2 DEF TimeInv, TimeShape
  <2> QED BY <1>5, <2>1 DEF LocalBehind
<1>7. Untouched'
  <2>1. th'["main"].local # shadow'.version
    <3>1. shadow'.version \in Nat
      BY <1>2 DEF TimeInv, TimeShape
    <3> QED BY <1>5, <3>1
  <2> QED BY <2>1 DEF Untouched
<1>8. th'["main"].pc # "return"
  BY <1>3 DEF Reading, Computed, CopyPcs, Compared, WcopyPcs
<1> QED BY <1>1, <1>4, <1>6, <1>7, <1>8 DEF Returned

LEMMA MainWallKeeps ==
  ASSUME TimeInv, MainInv, VersionWhole', WallUpdate("main") \/ UpdateWallclock("main")
  PROVE  MainInv'
<1>1. OnlyPc /\ shadow' = shadow /\ th["main"].pc \in Compared /\ th'["main"].pc \in Compared
  BY DEF OnlyPc, WallUpdate, UpdateWallclock, Compared, WcopyPcs, At, Go, Runs, shared, TimeInv,
         Frames, FrameFields, Threads
<1> USE DEF MainInv, OnlyPc
<1>2. CallBegun' /\ LocalBehind'
  BY <1>1 DEF CallBegun, LocalBehind, Calling, Reading, Computed
<1>3. Settled => Settled'
  BY <1>1 DEF Settled, CopyOf
<1>4. TimeComputed => TimeComputed'
  BY <1>1 DEF TimeComputed
<1>5. \A pc \in Compared : pc \notin Touched /\ pc # "copy" /\ pc # "scale" /\ pc # "return"
  BY DEF Compared, WcopyPcs, Touched
<1>6. Untouched'
  BY <1>1, <1>3, <1>4, <1>5 DEF Untouched, Reading, Computed, Threads
<1> QED BY <1>1, <1>2, <1>5, <1>6 DEF Returned

\* The version is the one read first: the time is returned.
LEMMA AgainKeeps ==
  ASSUME TimeInv, MainInv, VersionWhole', Again("main")
  PROVE  MainInv'
<1>1. OnlyPc /\ shadow' = shadow /\ th["main"].pc = "again"
  BY DEF OnlyPc, Again, At, Go, Runs, shared, TimeInv, Frames, FrameFields, Threads
<1>2. \/ th'["main"].pc = "local"
      \/ th'["main"].pc = "return" /\ th["main"].local = shadow.version
  BY DEF Again, At, Go, TimeInv, Frames, FrameFields, Threads
<1> USE DEF MainInv, OnlyPc
<1>3. CallBegun'
  BY <1>1, <1>2 DEF CallBegun, Calling, Reading, Computed, Compared
<1>4. th'["main"].pc \notin Reading
  BY <1>2 DEF Reading, Computed, Compared, CopyPcs, WcopyPcs
<1>5. LocalBehind' /\ Untouched'
  BY <1>4 DEF LocalBehind, Untouched
<1>6. ASSUME th'["main"].pc = "return" PROVE Returned'
  <2>1. /\ Settled /\ TimeComputed
        /\ 0 < shadow.version /\ 2 * th["main"].from.cal <= shadow.version
    BY <1>1, <1>2, <1>6 DEF Untouched, Reading, Computed, Compared
  <2>2. PICK i \in 0 .. Len(cals) : shadow.version = 2 * i /\ (i # 0 => CopyOf(i))
    BY <2>1 DEF Settled
  <2>3. CopyOf(i) /\ th["main"].from.cal <= i
    <3>1. i \in Int /\ th["main"].from.cal \in Int
      BY <1>1 DEF CallBegun, Calling, Reading, Computed, Compared, TimeInv, TimeShape
    <3> QED BY <2>1, <2>2, <3>1
  <2>4. PICK now \in th["main"].from.tsc .. tsc : th["main"].time = TimeOf(shadow, now)
    BY <2>1 DEF TimeComputed
  <2>5. TimeOf(shadow, now) = TimeOf(cals[i], now)
    BY <2>3 DEF CopyOf, TimeFields, TimeOf, SinceLastUpdate
  <2> QED BY <1>1, <2>3, <2>4, <2>5 DEF Returned, CopyOf
<1> QED BY <1>1, <1>2, <1>3, <1>5, <1>6 DEF Returned

----------------------------------------------------------------------------
\* The handler copies in the middle of a call of the main thread.
LEMMA HandlerCopyKeeps ==
  ASSUME TimeInv, MainInv, VersionWhole',
         \/ TimeUpdate("handler") \/ CopyVersion("handler")
         \/ CopyFields("handler") \/ CopyCheck("handler")
  PROVE  MainInv'
<1>1. UNCHANGED <<tsc, cals, src>> /\ th'["main"] = th["main"]
  BY DEF TimeUpdate, CopyVersion, CopyFields, CopyCheck, At, Go, shared, TimeInv, Frames, Threads
<1>2. \/ /\ th["handler"].pc = "update" /\ shadow' = shadow
         /\ \/ th'["handler"].pc = "copy" /\ shadow.version # src.version
            \/ th'["handler"].pc = "wall"
      \/ th["handler"].pc = "copy" /\ shadow'.version = src.version
      \/ th["handler"].pc \in Touched /\ shadow'.version = shadow.version
  <2> USE DEF At, Go, TimeInv, TimeShape, TimeFields, Frames, FrameFields, Threads
  <2>1. CASE TimeUpdate("handler")
    BY <2>1 DEF TimeUpdate
  <2>2. CASE CopyVersion("handler")
    BY <2>2 DEF CopyVersion
  <2>3. CASE CopyFields("handler")
    BY <2>3 DEF CopyFields, Touched
  <2>4. CASE CopyCheck("handler")
    BY <2>4 DEF CopyCheck, Touched
  <2> QED BY <2>1, <2>2, <2>3, <2>4
<1>3. /\ shadow.version \in Nat /\ src.version \in Nat /\ shadow.version <= src.version
      /\ shadow'.version \in Nat /\ shadow.version <= shadow'.version
  BY <1>2 DEF TimeInv, TimeShape, TimeVersion
<1> USE DEF MainInv
<1>4. CallBegun' /\ Returned'
  BY <1>1 DEF CallBegun, Returned
<1>5. LocalBehind'
  BY <1>1, <1>3 DEF LocalBehind
<1>6. Untouched'
  <2> SUFFICES ASSUME th["main"].pc \in Reading, th["main"].local = shadow'.version
               PROVE  Untouched'
    BY <1>1 DEF Untouched
  <2>1. th["main"].local = shadow.version
    BY <1>3 DEF LocalBehind
  <2>2. th["handler"].pc = "update" /\ shadow' = shadow
    <3>1. th["handler"].pc = "copy" => shadow.version < src.version
      BY <2>1 DEF Untouched, Threads
    <3>2. th["handler"].pc \notin Touched
      BY <2>1 DEF Untouched, Threads
    <3> QED BY <1>2, <1>3, <2>1, <3>1, <3>2
  <2>3. th'["handler"].pc = "copy" => th["main"].local < src.version
    BY <1>2, <1>3, <2>1, <2>2 DEF Touched
  <2>4. th'["handler"].pc \notin Touched
    BY <1>2, <2>2 DEF Touched
  <2>5. Settled => Settled'
    BY <1>1, <2>2 DEF Settled, CopyOf
  <2>6. TimeComputed => TimeComputed'
    BY <1>1, <2>2 DEF TimeComputed
  <2> QED BY <1>1, <2>1, <2>2, <2>3, <2>4, <2>5, <2>6 DEF Untouched, Threads
<1> QED BY <1>1, <1>4, <1>5, <1>6

LEMMA OthersMainQuiet ==
  ASSUME TimeInv, MainInv, Next
  PROVE  \/ MainQuiet \/ Recalibrate \/ PublishTime
         \/ UNCHANGED <<tsc, cals, src, shadow>>
              /\ (th'["main"].pc \notin Calling \/ \E op : th'["main"] = Frame("local", op))
         \/ TimeMonotonic("main")
         \/ TimeUpdate("handler") \/ CopyVersion("handler")
         \/ CopyFields("handler") \/ CopyCheck("handler")
<1> USE DEF TimeInv, Frames, FrameFields, Threads, CopyPcs, shared
<1>0. tsc \in Nat
  BY DEF MainInv
<1>1. CASE Hypervisor
  <2>1. CASE Tick
    <3>1. tsc' \in Nat /\ tsc <= tsc'
      BY <1>0, <2>1 DEF Tick
    <3> QED BY <2>1, <3>1 DEF Tick, MainQuiet
  <2>2. CASE PeriodicTick \/ Expire \/ SetWallclock \/ PublishWallclock
    <3>1. UNCHANGED <<tsc, cals, src, shadow, th>>
      BY <2>2 DEF PeriodicTick, Expire, SetWallclock, PublishWallclock
    <3> QED BY <1>0, <3>1 DEF MainQuiet
  <2> QED BY <1>1, <2>1, <2>2 DEF Hypervisor
<1>2. CASE TimeOfDay \/ ArchKernelBlock
  BY <1>2 DEF TimeOfDay, ArchKernelBlock, Call
<1>3. CASE MainSteps
  <2>1. UNCHANGED <<tsc, cals, src, shadow>>
    BY <1>3 DEF MainSteps, DayNsec, DaySec, DayReturn, SetTimeout, SetPointer, LogTimeout,
               SetSingleshotTimer, ScheduleBlock
  <2>2. \/ th'["main"].pc \in {"day_sec", "day", "idle", "pointer", "log", "set", "faulted",
                               "block", "blocked"}
        \/ th'["main"] = Frame("local", "block")
    BY <1>3 DEF MainSteps, DayNsec, DaySec, DayReturn, SetTimeout, SetPointer, LogTimeout,
               SetSingleshotTimer, ScheduleBlock, Go, Finish, Resting
  <2> QED BY <2>1, <2>2 DEF Calling, Reading, Computed, Compared, WcopyPcs
<1>4. CASE Handler
  <2>1. UNCHANGED <<tsc, cals, src, shadow>>
    BY <1>4 DEF Handler, Interrupt, Announce, HandlerReturn
  <2>2. CASE Interrupt \/ Announce
    <3>1. th'["main"] = th["main"] /\ th'["handler"].pc \notin CopyPcs
      BY <2>2 DEF Interrupt, Announce, Frame
    <3> QED BY <1>0, <2>1, <3>1 DEF MainQuiet
  <2>3. CASE HandlerReturn
    <3>1. th'["handler"].pc = "idle" /\ (th'["main"] = th["main"] \/ th'["main"] = Resting)
      BY <2>3 DEF HandlerReturn, Resting
    <3>2. "idle" \notin Calling /\ Resting.pc = "idle"
      BY DEF Calling, Reading, Computed, Compared, WcopyPcs, Resting
    <3> QED BY <1>0, <2>1, <3>1, <3>2 DEF MainQuiet
  <2> QED BY <1>4, <2>2, <2>3 DEF Handler
<1>5. CASE TimeMonotonic("handler")
  <2> SUFFICES ASSUME \/ ReadLocal("handler") \/ ReadStamp("handler") \/ ReadScaled("handler")
                      \/ WallUpdate("handler") \/ UpdateWallclock("handler") \/ Again("handler")
               PROVE  MainQuiet
    BY <1>5 DEF TimeMonotonic
  <2>1. UNCHANGED <<tsc, cals, src, shadow>> /\ th'["main"] = th["main"]
    BY DEF ReadLocal, ReadStamp, ReadScaled, WallUpdate, UpdateWallclock, Again, Go
  <2>2. th'["handler"].pc \notin CopyPcs
    BY DEF ReadLocal, ReadStamp, ReadScaled, WallUpdate, UpdateWallclock, Again, At, Go
  <2> QED BY <1>0, <2>1, <2>2 DEF MainQuiet
<1> QED BY <1>1, <1>2, <1>3, <1>4, <1>5 DEF Next

LEMMA MainStep == TimeInv /\ WallInv /\ MainInv /\ [Next]_vars => MainInv'
<1> SUFFICES ASSUME TimeInv, WallInv, MainInv, [Next]_vars PROVE MainInv'
  OBVIOUS
<1>1. TimeInv' /\ VersionWhole'
  BY NextWhole, VersionWholeKeeps DEF MainInv
<1>2. CASE UNCHANGED vars
  <2>1. MainQuiet
    BY <1>2 DEF vars, MainQuiet, MainInv
  <2> QED BY <1>1, <2>1, MainQuietKeeps
<1>3. CASE Next
  <2>1. CASE MainQuiet
    BY <1>1, <2>1, MainQuietKeeps
  <2>2. CASE Recalibrate \/ PublishTime
    BY <1>1, <2>2, RecordKeeps
  <2>3. CASE /\ UNCHANGED <<tsc, cals, src, shadow>>
             /\ th'["main"].pc \notin Calling \/ \E op : th'["main"] = Frame("local", op)
    BY <1>1, <2>3, MainAwayKeeps, CallKeeps
  <2>4. CASE TimeMonotonic("main")
    BY <1>1, <2>4, ReadLocalKeeps, ReadStampKeeps, ReadScaledKeeps, MainTimeUpdateKeeps,
       MainCopyKeeps, MainWallKeeps, AgainKeeps DEF TimeMonotonic
  <2>5. CASE \/ TimeUpdate("handler") \/ CopyVersion("handler")
             \/ CopyFields("handler") \/ CopyCheck("handler")
    BY <1>1, <2>5, HandlerCopyKeeps
  <2> QED BY <1>3, <2>1, <2>2, <2>3, <2>4, <2>5, OthersMainQuiet
<1> QED BY <1>2, <1>3

LEMMA InitMain == Init => MainInv
<1> SUFFICES ASSUME Init PROVE MainInv
  OBVIOUS
<1>1. th["main"].pc = "idle" /\ tsc = 0 /\ shadow.version = 0
  BY DEF Init, Threads, Resting
<1>2. "idle" \notin Calling /\ "idle" # "return" /\ "idle" \notin Reading
  BY DEF Calling, Reading, Computed, Compared, CopyPcs, WcopyPcs
<1>3. Settled
  <2>1. 0 \in 0 .. Len(cals)
    BY DEF Init
  <2> QED BY <1>1, <2>1 DEF Settled
<1> QED BY <1>1, <1>2, <1>3 DEF MainInv, VersionWhole, CallBegun, LocalBehind, Untouched, Returned

\* The time that timeMonotonic returns to the main thread was extrapolated from
\* one published record, no older than the one in force when the call began:
\* however often the hypervisor recalibrates, and wherever the timer handler
\* interrupts the call and copies the record itself.
THEOREM MainTimeIsAccurate == Spec => []MainTimeAccurate
<1>1. TimeInv /\ MainInv => MainTimeAccurate
  <2> SUFFICES ASSUME TimeInv, MainInv, th["main"].pc = "return"
               PROVE  \E c \in th["main"].from.cal .. Len(cals), now \in th["main"].from.tsc .. tsc :
                        th["main"].time = TimeOf(cals[c], now)
    BY DEF MainTimeAccurate, Accurate
  <2>1. PICK c \in DOMAIN cals, now \in th["main"].from.tsc .. tsc :
          th["main"].from.cal <= c /\ th["main"].time = TimeOf(cals[c], now)
    BY DEF MainInv, Returned
  <2>2. c \in th["main"].from.cal .. Len(cals)
    <3>1. th["main"].from.cal \in Int
      BY DEF MainInv, CallBegun, Calling
    <3> QED BY <2>1, <3>1 DEF TimeInv, TimeShape
  <2> QED BY <2>1, <2>2
<1> QED BY <1>1, InitWhole, NextWhole, InitMain, MainStep, PTL DEF Spec

==============================================================================
