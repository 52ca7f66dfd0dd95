-------------------------- MODULE VerifyRunProofs --------------------------
(***************************************************************************)
(* What holds of VerifyRun for any finite set of volumes, any number of    *)
(* objects, slices, batch size, filters, starts and events.                *)
(*                                                                         *)
(* Typed needs Budget: that a run is left for every launch.  OneOwner      *)
(* follows from launch() alone, with Owned.  Sound is why the checkpoint   *)
(* can be resumed from: Passed[f] is what the last run to start is through *)
(* with under filter f; it only grows while that run lives, and cursor,    *)
(* filter and verifyStartedAt, wherever they are held (the checkpoint, the *)
(* run, a caller halfway through reading them), speak of that one run.     *)
(***************************************************************************)
EXTENDS VerifyRun, FiniteSetTheorems, WellFoundedInduction, TLAPS

\* A set of naturals that is not empty has a least element.
LEMMA Least ==
    ASSUME NEW T, T \subseteq Nat, T # {}
    PROVE  \E m \in T : \A n \in T : m <= n
<1>1. \E m \in T : \A n \in T : ~(<<n, m>> \in OpToRel(<, Nat))
  BY NatLessThanWellFounded, WFMin, Zenon
<1>2. \E m \in T : \A n \in T : ~(n < m)
  BY <1>1 DEF OpToRel
<1>. QED
  BY <1>2

USE VerifyAssumption DEF Obj, All, None, RunIds, Callers

\* The types, in parts: the checkpoint and the volumes, the runs, the callers.
World ==
    /\ pers \in [started : 0..clock, filter : SUBSET Vol, cursor : 0..NObjects]
    /\ rebActive \in BOOLEAN /\ frozen \in BOOLEAN /\ guard \in BOOLEAN
    /\ blocked \in BOOLEAN /\ waiting \in BOOLEAN /\ tangled \in BOOLEAN
    /\ stamp \in [Obj -> [Vol -> 0..clock]] /\ last \in 0..clock
    /\ filter \subseteq Vol /\ up \subseteq Vol /\ steady \subseteq up /\ lost \subseteq Obj

RunType == [pc : Phases, cancelled : BOOLEAN, st : 0..clock, cursor : 0..NObjects, top : 0..NObjects,
            batch : SUBSET Obj, todo : [Obj -> SUBSET Vol], done : [Obj -> SUBSET Vol]]

Machine == runs \in [RunIds -> RunType] /\ active \in 0..launched

\* The caller may launch a run before it is idle again.
Due == {"guard", "get", "getFilter", "getCursor", "join", "putFilter", "dropCursor", "putStarted", "fresh",
        "resume", "resumeGet", "resumeFilter", "resumeCursor", "relaunch"}

CallType == [pc : Due \cup {"idle", "drain", "moving", "clear1", "clear2", "clear3"}, keep : BOOLEAN,
             want : SUBSET Vol, ex : 0..clock, filter : SUBSET Vol, cursor : 0..NObjects,
             run : 0..launched]

Talk == call \in [Callers -> CallType]

\* A launch that is still owed: by a start, by the rebalance, by the rebalance that is
\* kept for the next boot, and by the freeze, which may keep one that is running.
One(b) == IF b THEN 1 ELSE 0

Kept == rebActive /\ call["reb"].pc \notin {"drain", "moving"}

OwedUser == One(call["user"].pc \in Due)
OwedTick == One(call["tick"].pc \in Due)
OwedReb == One(call["reb"].pc \in Due \cup {"drain", "moving"})
OwedKept == One(Kept)
OwedFrozen == One(frozen /\ ~(Kept /\ call["reb"].pc = "resume"))

\* Every launch is owed to a start or to an event, once: the runs are enough.
Budget ==
    /\ clock \in Nat /\ launched \in Nat
    /\ starts \in 0..MaxStarts /\ events \in 0..MaxEvents
    /\ call["tick"].pc \in Due \cup {"idle"}
    /\ call["user"].pc \in Due \cup {"idle", "drain", "clear1", "clear2", "clear3"}
    /\ call["reb"].pc \in {"idle", "drain", "moving", "resume", "resumeGet", "resumeFilter", "resumeCursor",
                           "relaunch"}
    /\ call["freeze"].pc \in {"idle", "drain", "clear1", "clear2", "clear3"}
    /\ launched + OwedUser + OwedTick + OwedReb + OwedKept + OwedFrozen <= starts + events

Typed == World /\ Machine /\ Talk /\ Budget

\* A caller waits only for a run that stop() has cancelled.
Owned ==
    \A c \in Callers : call[c].pc = "drain" =>
        call[c].run \in RunIds /\ runs[call[c].run].cancelled

\* The caller passed start()'s guard and has not launched; the run works, or completes.
Starting == {"get", "getFilter", "getCursor", "join", "putFilter", "dropCursor", "putStarted", "fresh"}

Live(r) == runs[r].pc # "done" /\ (~runs[r].cancelled \/ runs[r].pc \in {"fin2", "fin3"})

\* The objects that the last run to start is through with, by filter.
Passed == [f \in SUBSET Vol |-> {o \in Obj : Through(o, clock, f)}]

Past(n, f) == 1..n \subseteq Passed[f]

\* A run at work owns the job, and is through with what it has passed; its checkpoint is
\* gone before it is recorded.
RunSound(r) ==
    /\ active = r /\ runs[r].st = clock
    /\ pers.started # None => filter = pers.filter
    /\ Past(runs[r].cursor, filter)
    /\ runs[r].pc = "verify" =>
          /\ 1..runs[r].top \subseteq runs[r].batch \cup Passed[filter]
          /\ \A o \in runs[r].batch : SlicesOf[o] \cap filter \cap steady \subseteq runs[r].todo[o] \cup runs[r].done[o]
    /\ runs[r].pc \in {"fin1", "fin2", "fin3"} => Past(NObjects, filter)
    /\ runs[r].pc \in {"fin2", "fin3"} => pers.started = None

\* What a caller in the checkpoint has read or written is what the checkpoint says, or the
\* checkpoint was cleared behind it by the run that completes.
CallSound(k) ==
    /\ k.pc \in Starting => active = None
    /\ k.pc \in {"getFilter", "getCursor", "join", "fresh"} => pers.started = clock /\ clock # None
    /\ k.pc \in {"getFilter", "getCursor", "join", "fresh", "resumeFilter", "resumeCursor", "relaunch"} => k.ex = clock
    /\ k.pc \in {"putFilter", "dropCursor", "putStarted", "clear2", "clear3"} => pers.started = None
    /\ k.pc \in {"dropCursor", "putStarted", "fresh"} => pers.filter = k.want
    /\ k.pc \in {"putStarted", "fresh"} => pers.cursor = None
    /\ k.pc \in {"getCursor", "join", "resumeCursor", "relaunch"} => pers.started = None \/ k.filter = pers.filter
    /\ k.pc = "resumeFilter" => Past(pers.cursor, pers.filter)
    /\ k.pc = "resumeCursor" => Past(pers.cursor, k.filter)
    /\ k.pc \in {"join", "relaunch"} => Past(k.cursor, k.filter)
    /\ k.pc \in {"resumeFilter", "resumeCursor", "relaunch"} /\ pers.started = None =>
          \A r \in RunIds : Live(r) => runs[r].pc \in {"fin2", "fin3"}

\* One caller at a time is in the checkpoint, and a restart would resume the last run to start.
Apart == \A c, d \in Callers : InCheckpoint(call[c]) /\ InCheckpoint(call[d]) => c = d

Resumable ==
    /\ pers.started \in {None, clock}
    /\ pers.started # None => Past(pers.cursor, pers.filter)

\* The histories in which the guard kept the callers apart.
Orderly ==
    /\ Apart /\ Resumable
    /\ \A r \in RunIds : Live(r) => RunSound(r)
    /\ \A c \in Callers : CallSound(call[c])

Sound == ~tangled => Orderly

\* The inductive invariant.
VInv == Typed /\ Owned /\ OneOwner /\ Sound

\* What is owed is nothing or one launch.
LEMMA OwedType ==
    OwedUser \in {0, 1} /\ OwedTick \in {0, 1} /\ OwedReb \in {0, 1} /\ OwedKept \in {0, 1} /\ OwedFrozen \in {0, 1}
  BY DEF OwedUser, OwedTick, OwedReb, OwedKept, OwedFrozen, One

\* Also after the step.
LEMMA OwedTypeNext ==
    OwedUser' \in {0, 1} /\ OwedTick' \in {0, 1} /\ OwedReb' \in {0, 1} /\ OwedKept' \in {0, 1} /\ OwedFrozen' \in {0, 1}
  BY DEF OwedUser, OwedTick, OwedReb, OwedKept, OwedFrozen, One

\* Who owes a launch has a run left for it.
LEMMA LaunchedBound ==
    ASSUME Budget
    PROVE  /\ launched \in Nat /\ starts \in Nat /\ events \in Nat /\ clock \in Nat
           /\ launched <= MaxStarts + MaxEvents
           /\ \A c \in {"user", "tick", "reb"} : call[c].pc \in Due => launched + 1 <= MaxStarts + MaxEvents
<1>1. \A x \in {OwedUser, OwedTick, OwedReb, OwedKept, OwedFrozen} : x \in {0, 1}
  BY OwedType
<1>2. /\ launched \in Nat /\ starts \in 0..MaxStarts /\ events \in 0..MaxEvents /\ clock \in Nat
      /\ launched + OwedUser + OwedTick + OwedReb + OwedKept + OwedFrozen <= starts + events
  BY DEF Budget
<1>3. /\ call["user"].pc \in Due => OwedUser = 1
      /\ call["tick"].pc \in Due => OwedTick = 1
      /\ call["reb"].pc \in Due => OwedReb = 1
  BY DEF One, OwedUser, OwedTick, OwedReb
<1>. QED
  BY <1>1, <1>2, <1>3

\* The types grow with the clock and the launches.
LEMMA Grow ==
    ASSUME clock \in Nat, clock' \in Nat, clock <= clock',
           launched \in Nat, launched' \in Nat, launched <= launched'
    PROVE  /\ RunType \subseteq RunType' /\ CallType \subseteq CallType'
           /\ 0..clock \subseteq 0..clock'
<1>1. 0..clock \subseteq 0..clock' /\ 0..launched \subseteq 0..launched'
  OBVIOUS
<1>2. RunType \subseteq RunType'
  BY <1>1 DEF RunType
<1>3. CallType \subseteq CallType'
  BY <1>1 DEF CallType
<1>. QED
  BY <1>1, <1>2, <1>3

\* The run that is none, and the caller that is idle.
LEMMA Fresh ==
    ASSUME clock \in Nat, launched \in Nat
    PROVE  /\ NoRun \in RunType /\ NoRun.pc = "done" /\ NoRun.cancelled
           /\ Idle \in CallType /\ Idle.pc = "idle" /\ Idle.run = None
<1>1. [o \in Obj |-> {}] \in [Obj -> SUBSET Vol]
  OBVIOUS
<1>2. NoRun \in RunType
  BY <1>1 DEF NoRun, RunType, Phases
<1>3. Idle \in CallType
  BY DEF Idle, CallType
<1>. QED
  BY <1>2, <1>3 DEF NoRun, Idle

\* A caller goes on.
LEMMA GotoTyped ==
    ASSUME Talk, Budget, NEW c \in Callers, NEW k \in CallType', goto(c, k),
           clock' \in Nat, clock <= clock', launched' \in Nat, launched <= launched'
    PROVE  Talk' /\ tangled' \in BOOLEAN
<1>1. call' = [call EXCEPT ![c] = k]
  BY DEF goto
<1>2. CallType \subseteq CallType'
  BY LaunchedBound, Grow
<1>3. Talk'
  BY <1>1, <1>2 DEF Talk
<1>4. tangled' \in BOOLEAN
  BY DEF goto
<1>. QED
  BY <1>3, <1>4

\* What a run becomes, and what becomes of the job with it.
LEMMA StepTyped ==
    ASSUME Machine, Budget, NEW r \in RunIds, NEW rec \in RunType, Step(r, rec),
           Settle(r) \/ UNCHANGED <<active, filter>>, UNCHANGED <<clock, launched>>, filter \subseteq Vol
    PROVE  Machine' /\ filter' \subseteq Vol
<1>1. Machine'
  <2>1. runs' \in [RunIds -> RunType]
    BY DEF Step, Machine
  <2>2. RunType' = RunType
    BY DEF RunType
  <2>3. active' \in 0 .. launched'
    BY LaunchedBound DEF Machine, Settle
  <2>. QED
    BY <2>1, <2>2, <2>3 DEF Machine
<1>2. filter' \subseteq Vol
  BY DEF Settle
<1>. QED
  BY <1>1, <1>2

\* launch() takes the next run, or none.
LEMMA LaunchTyped ==
    ASSUME Typed, NEW st \in 0..clock, NEW f \in SUBSET Vol, NEW cur \in 0..NObjects,
           launched + 1 <= MaxStarts + MaxEvents, clock' = clock,
           launch(st, f, cur) \/ UNCHANGED <<active, filter, runs, launched>>
    PROVE  /\ Machine' /\ filter' \subseteq Vol
           /\ launched' \in {launched, launched + 1}
<1>0. launched \in Nat /\ clock \in Nat
  BY DEF Typed, Budget
<1>1. CASE UNCHANGED <<active, filter, runs, launched>>
  <2>1. RunType' = RunType
    BY <1>1 DEF RunType
  <2>. QED
    BY <1>1, <2>1 DEF Typed, Machine, World
<1>2. CASE ~UNCHANGED <<active, filter, runs, launched>>
  <2>0. ~isRunning
    BY <1>2 DEF launch
  <2>. PICK n : n = [NoRun EXCEPT !.pc = "batch", !.cancelled = FALSE, !.st = st, !.cursor = cur]
    OBVIOUS
  <2>1. n \in RunType
    <3>1. NoRun \in RunType
      BY <1>0, Fresh
    <3>. QED
      BY <3>1 DEF RunType, Phases
  <2>2. /\ launched' = launched + 1 /\ active' = launched + 1 /\ filter' = f
        /\ runs' = [runs EXCEPT ![launched + 1] = n]
    BY <1>2, <2>0 DEF launch
  <2>3. RunType' = RunType
    BY DEF RunType
  <2>. HIDE DEF RunType
  <2>. QED
    BY <1>0, <2>1, <2>2, <2>3 DEF Typed, Machine
<1>. QED
  BY <1>1, <1>2

\* Steps of a caller that move its own state and leave the runs alone.
LEMMA TalkTyped ==
    ASSUME Typed, NEW c \in Callers,
           \/ StartEnter(c) \/ startGuard(c) \/ StartRead(c) \/ loadPersistedVolumeFilter(c)
           \/ loadPersistedCursorId(c) \/ persistVolumeFilter(c) \/ DropCursor(c) \/ PutStarted(c)
           \/ resumePendingJob(c) \/ ResumeRead(c) \/ clearPersistedRun(c)
    PROVE  World' /\ Machine' /\ Talk'
<1>0. /\ World /\ Machine /\ Talk /\ Budget /\ clock \in Nat /\ launched \in Nat /\ MaxStarts \in Nat
      /\ call[c] \in CallType
  BY LaunchedBound DEF Typed, Talk
<1>1. UNCHANGED <<runs, active, launched, filter, stamp, last, rebActive, frozen, blocked, up>>
  BY DEF StartEnter, startGuard, StartRead, loadPersistedVolumeFilter,
      loadPersistedCursorId,
         persistVolumeFilter, DropCursor, PutStarted, resumePendingJob, ResumeRead,
             clearPersistedRun,
         job, bounds
<1>2. clock' \in Nat /\ clock <= clock'
  <2>1. clock' = clock \/ PutStarted(c)
    BY DEF StartEnter, startGuard, StartRead, loadPersistedVolumeFilter,
        loadPersistedCursorId,
           persistVolumeFilter, DropCursor, resumePendingJob, ResumeRead,
               clearPersistedRun, bounds
  <2>2. PutStarted(c) => clock' = clock + 1
    BY DEF PutStarted
  <2>. QED
    BY <1>0, <2>1, <2>2
<1>3. RunType \subseteq RunType' /\ CallType \subseteq CallType' /\ 0..clock \subseteq 0..clock'
  BY <1>0, <1>1, <1>2, Grow
<1>4. \E k \in CallType' : goto(c, k)
  <2>1. Idle \in CallType'
    BY <1>0, <1>3, Fresh
  <2>2. call[c] \in CallType'
    BY <1>0, <1>3
  <2>3. ASSUME leave(c) PROVE \E k \in CallType' : goto(c, k)
    BY <2>1, <2>3 DEF leave
  <2>4. CASE StartEnter(c)
    <3>1. PICK f \in SUBSET Vol : goto(c, [Idle EXCEPT !.pc = "guard", !.want = f])
      BY <2>4 DEF StartEnter
    <3>2. [Idle EXCEPT !.pc = "guard", !.want = f] \in CallType'
      BY <2>1 DEF CallType, Due
    <3>. QED
      BY <3>1, <3>2
  <2>5. CASE startGuard(c)
    <3>1. [call[c] EXCEPT !.pc = "get"] \in CallType'
      BY <2>2 DEF CallType, Due
    <3>. QED
      BY <2>3, <2>5, <3>1 DEF startGuard
  <2>6. CASE StartRead(c)
    <3>1. pers.started \in 0 .. clock'
      BY <1>0, <1>3 DEF World
    <3>2. PICK l \in {"putFilter", "getFilter"} : goto(c, [call[c] EXCEPT !.pc = l, !.ex = pers.started])
      BY <2>6 DEF StartRead
    <3>3. [call[c] EXCEPT !.pc = l, !.ex = pers.started] \in CallType'
      BY <2>2, <3>1 DEF CallType, Due
    <3>. QED
      BY <3>2, <3>3
  <2>7. CASE loadPersistedVolumeFilter(c)
    <3>1. pers.filter \subseteq Vol
      BY <1>0 DEF World
    <3>2. PICK l \in {"getCursor", "resumeCursor"} : goto(c, [call[c] EXCEPT !.pc = l, !.filter = pers.filter])
      <4>1. goto(c, [call[c] EXCEPT !.pc = IF call[c].pc = "getFilter" THEN "getCursor" ELSE "resumeCursor",
                                    !.filter = pers.filter])
        BY <1>0, <2>7 DEF loadPersistedVolumeFilter, CallType
      <4>. QED
        BY <4>1
    <3>3. [call[c] EXCEPT !.pc = l, !.filter = pers.filter] \in CallType'
      BY <2>2, <3>1 DEF CallType, Due
    <3>. QED
      BY <3>2, <3>3
  <2>8. CASE loadPersistedCursorId(c)
    <3>1. pers.cursor \in 0 .. NObjects
      BY <1>0 DEF World
    <3>2. PICK l \in {"join", "relaunch"} : goto(c, [call[c] EXCEPT !.pc = l, !.cursor = pers.cursor])
      <4>1. goto(c, [call[c] EXCEPT !.pc = IF call[c].pc = "getCursor" THEN "join" ELSE "relaunch",
                                    !.cursor = pers.cursor])
        BY <1>0, <2>8 DEF loadPersistedCursorId, CallType
      <4>. QED
        BY <4>1
    <3>3. [call[c] EXCEPT !.pc = l, !.cursor = pers.cursor] \in CallType'
      BY <2>2, <3>1 DEF CallType, Due
    <3>. QED
      BY <3>2, <3>3
  <2>9. CASE persistVolumeFilter(c)
    <3>1. [call[c] EXCEPT !.pc = "dropCursor"] \in CallType'
      BY <2>2 DEF CallType, Due
    <3>. QED
      BY <2>9, <3>1 DEF persistVolumeFilter
  <2>10. CASE DropCursor(c)
    <3>1. [call[c] EXCEPT !.pc = "putStarted"] \in CallType'
      BY <2>2 DEF CallType, Due
    <3>. QED
      BY <2>10, <3>1 DEF DropCursor
  <2>11. CASE PutStarted(c)
    <3>1. clock + 1 \in 0 .. clock'
      BY <1>0, <2>11 DEF PutStarted
    <3>2. [call[c] EXCEPT !.pc = "fresh", !.ex = clock + 1] \in CallType'
      BY <2>2, <3>1 DEF CallType, Due
    <3>. QED
      BY <2>11, <3>2 DEF PutStarted
  <2>12. CASE resumePendingJob(c)
    <3>1. [call[c] EXCEPT !.pc = "resumeGet"] \in CallType'
      BY <2>2 DEF CallType, Due
    <3>. QED
      BY <2>3, <2>12, <3>1 DEF resumePendingJob
  <2>13. CASE ResumeRead(c)
    <3>1. pers.started \in 0 .. clock'
      BY <1>0, <1>3 DEF World
    <3>2. [call[c] EXCEPT !.pc = "resumeFilter", !.ex = pers.started] \in CallType'
      BY <2>2, <3>1 DEF CallType, Due
    <3>. QED
      BY <2>3, <2>13, <3>2 DEF ResumeRead
  <2>14. CASE clearPersistedRun(c)
    <3>1. [call[c] EXCEPT !.pc = "clear2"] \in CallType' /\ [call[c] EXCEPT !.pc = "clear3"] \in CallType'
      BY <2>2 DEF CallType
    <3>. QED
      BY <2>3, <2>14, <3>1 DEF clearPersistedRun
  <2>. QED
    BY <2>4, <2>5, <2>6, <2>7, <2>8, <2>9, <2>10, <2>11, <2>12, <2>13, <2>14
<1>5. Talk' /\ tangled' \in BOOLEAN
  <2>1. PICK k \in CallType' : goto(c, k)
    BY <1>4
  <2>. QED
    BY <1>0, <1>1, <1>2, <2>1, GotoTyped
<1>6. Machine'
  BY <1>0, <1>1, <1>3 DEF Machine
<1>7. pers' \in [started : 0..clock', filter : SUBSET Vol, cursor : 0..NObjects]
  <2>1. pers \in [started : 0..clock', filter : SUBSET Vol, cursor : 0..NObjects] /\ call[c].want \subseteq Vol
        /\ 0 \in 0 .. clock' /\ 0 \in 0 .. NObjects
    BY <1>0, <1>2, <1>3 DEF World, CallType
  <2>2. CASE UNCHANGED pers
    BY <2>1, <2>2
  <2>3. CASE persistVolumeFilter(c)
    BY <2>1, <2>3 DEF persistVolumeFilter
  <2>4. CASE DropCursor(c)
    BY <2>1, <2>4 DEF DropCursor
  <2>5. CASE PutStarted(c)
    <3>1. clock + 1 \in 0 .. clock'
      BY <1>0, <2>5 DEF PutStarted
    <3>. QED
      BY <2>1, <2>5, <3>1 DEF PutStarted
  <2>6. CASE clearPersistedRun(c)
    BY <2>1, <2>6 DEF clearPersistedRun
  <2>. QED
    BY <2>2, <2>3, <2>4, <2>5, <2>6 DEF StartEnter, startGuard, StartRead,
        loadPersistedVolumeFilter,
        loadPersistedCursorId, resumePendingJob, ResumeRead
<1>8. guard' \in BOOLEAN /\ waiting' \in BOOLEAN
  BY <1>0 DEF World, StartEnter, startGuard, StartRead, loadPersistedVolumeFilter,
      loadPersistedCursorId,
         persistVolumeFilter, DropCursor, PutStarted, resumePendingJob, ResumeRead,
             clearPersistedRun,
         job, bounds
<1>9. steady' \subseteq up' /\ lost' \subseteq Obj
  BY <1>0, <1>1 DEF World, StartEnter, startGuard, StartRead,
      loadPersistedVolumeFilter, loadPersistedCursorId,
         persistVolumeFilter, DropCursor, PutStarted, resumePendingJob, ResumeRead,
             clearPersistedRun,
         job, bounds
<1>10. stamp' \in [Obj -> [Vol -> 0..clock']] /\ last' \in 0..clock'
  <2>1. [Vol -> 0..clock] \subseteq [Vol -> 0..clock']
    BY <1>3
  <2>. QED
    BY <1>0, <1>1, <1>3, <2>1 DEF World
<1>11. World'
  BY <1>0, <1>1, <1>5, <1>7, <1>8, <1>9, <1>10 DEF World
<1>. QED
  BY <1>5, <1>6, <1>11

\* The end of a start or of a resume.
LEMMA LaunchStepTyped ==
    ASSUME Typed, NEW c \in Callers, StartLaunch(c) \/ ResumeLaunch(c)
    PROVE  World' /\ Machine' /\ Talk'
<1>0. /\ World /\ Machine /\ Talk /\ Budget /\ clock \in Nat /\ launched \in Nat /\ call[c] \in CallType
  BY LaunchedBound DEF Typed, Talk
<1>1. call[c].pc \in Due
  BY DEF StartLaunch, ResumeLaunch, Due
<1>2. launched + 1 <= MaxStarts + MaxEvents
  <2>1. c # "freeze"
    BY <1>1 DEF Typed, Budget, Due
  <2>. QED
    BY <1>0, <1>1, <2>1, LaunchedBound
<1>3. call[c].ex \in 0..clock /\ call[c].want \in SUBSET Vol /\ call[c].filter \in SUBSET Vol
      /\ call[c].cursor \in 0..NObjects /\ None \in 0..NObjects
  BY <1>0 DEF CallType
<1>4. /\ UNCHANGED <<pers, rebActive, frozen, stamp, last, blocked, up, steady, lost, clock>>
      /\ guard' \in BOOLEAN /\ goto(c, Idle)
  BY DEF StartLaunch, ResumeLaunch, leave
<1>5. Machine' /\ filter' \subseteq Vol /\ launched' \in {launched, launched + 1}
  <2>1. PICK st \in 0..clock, f \in SUBSET Vol, cur \in 0..NObjects :
            launch(st, f, cur) \/ UNCHANGED <<active, filter, runs, launched>>
    BY <1>3 DEF StartLaunch, ResumeLaunch
  <2>. QED
    BY <1>2, <1>4, <2>1, LaunchTyped
<1>6. waiting' \in BOOLEAN
  BY <1>0 DEF StartLaunch, ResumeLaunch, launch, World
<1>7. Talk' /\ tangled' \in BOOLEAN
  <2>1. launched' \in Nat /\ launched <= launched' /\ clock' = clock
    BY <1>0, <1>4, <1>5
  <2>2. Idle \in CallType'
    BY <1>0, <2>1, Fresh, Grow
  <2>. QED
    BY <1>0, <1>4, <2>1, <2>2, GotoTyped
<1>8. World'
  BY <1>0, <1>4, <1>5, <1>6, <1>7 DEF World
<1>. QED
  BY <1>5, <1>7, <1>8

\* A caller waits for a run, or goes on behind it.
LEMMA WaitTyped ==
    ASSUME Typed, NEW c \in Callers, NEW k \in CallType, goto(c, k),
           UNCHANGED <<pers, stamp, last, up, steady, lost, clock, launched>>,
           frozen' \in BOOLEAN, rebActive' \in BOOLEAN, blocked' \in BOOLEAN, guard' \in BOOLEAN, waiting' \in BOOLEAN,
           Machine', filter' \subseteq Vol
    PROVE  World' /\ Machine' /\ Talk'
<1>0. /\ World /\ Talk /\ Budget /\ clock \in Nat /\ launched \in Nat
  BY LaunchedBound DEF Typed
<1>1. CallType \subseteq CallType'
  BY <1>0, Grow
<1>2. Talk' /\ tangled' \in BOOLEAN
  BY <1>0, <1>1, GotoTyped
<1>3. World'
  BY <1>0, <1>2 DEF World
<1>. QED
  BY <1>2, <1>3

\* stop() cancels the run; no other run changes.
CancelRun(r) == r \in RunIds /\ runs' = [runs EXCEPT ![r].cancelled = TRUE]

\* It keeps the types.
LEMMA CancelTyped ==
    ASSUME Typed, CancelRun(active) \/ UNCHANGED runs, UNCHANGED <<active, clock, launched>>
    PROVE  Machine'
<1>1. RunType' = RunType
  BY DEF RunType
<1>2. runs \in [RunIds -> RunType] /\ active \in 0..launched
  BY DEF Typed, Machine
<1>3. runs' \in [RunIds -> RunType]
  <2>1. CASE CancelRun(active)
    <3>1. runs[active] \in RunType /\ active \in RunIds
      BY <1>2, <2>1 DEF CancelRun
    <3>2. [runs[active] EXCEPT !.cancelled = TRUE] \in RunType
      BY <3>1 DEF RunType
    <3>3. runs' = [runs EXCEPT ![active] = [runs[active] EXCEPT !.cancelled = TRUE]]
      BY <2>1 DEF CancelRun
    <3>. QED
      BY <1>2, <3>1, <3>2, <3>3
  <2>. QED
    BY <1>2, <2>1
<1>. QED
  BY <1>1, <1>2, <1>3 DEF Machine

\* Where stop() leaves its caller.
LEMMA StopTyped ==
    ASSUME Typed, NEW c \in Callers, NEW keep \in BOOLEAN, stopEnter(c, keep)
    PROVE  /\ CancelRun(active) \/ UNCHANGED runs
           /\ \E k \in CallType : goto(c, k)
           /\ waiting' \in BOOLEAN
<1>0. /\ World /\ Machine /\ Budget /\ clock \in Nat /\ launched \in Nat /\ launched <= MaxStarts + MaxEvents
      /\ Idle \in CallType
  BY LaunchedBound, Fresh DEF Typed
<1>1. active # None => active \in RunIds
  BY <1>0 DEF Machine
<1>2. CancelRun(active) \/ UNCHANGED runs
  BY <1>1 DEF stopEnter, isRunning, CancelRun
<1>3. [Idle EXCEPT !.pc = "drain", !.keep = keep, !.run = active] \in CallType /\ [Idle EXCEPT !.pc = "clear1"] \in CallType
  BY <1>0 DEF CallType, Machine
<1>4. \E k \in CallType : goto(c, k)
  BY <1>0, <1>3 DEF stopEnter, leave
<1>5. waiting' \in BOOLEAN
  BY <1>0 DEF stopEnter, World
<1>. QED
  BY <1>2, <1>4, <1>5

\* stop() and the freeze.
LEMMA StopStepTyped ==
    ASSUME Typed, stop \/ setMaintenanceFrozen
    PROVE  World' /\ Machine' /\ Talk'
<1>0. World
  BY DEF Typed
<1>1. \E c \in Callers, keep \in BOOLEAN : stopEnter(c, keep)
  BY DEF stop, setMaintenanceFrozen
<1>2. /\ UNCHANGED <<pers, rebActive, stamp, last, active, filter, guard, blocked, up, steady, lost, clock, launched>>
      /\ frozen' \in BOOLEAN
  BY <1>0 DEF stop, setMaintenanceFrozen, World
<1>3. /\ CancelRun(active) \/ UNCHANGED runs
      /\ waiting' \in BOOLEAN
  BY <1>1, StopTyped
<1>4. Machine'
  BY <1>2, <1>3, CancelTyped
<1>. QED
  BY <1>0, <1>1, <1>2, <1>3, <1>4, StopTyped, WaitTyped DEF World

\* The rebalance takes the disks.
LEMMA PauseTyped ==
    ASSUME Typed, pauseForRebalance
    PROVE  World' /\ Machine' /\ Talk'
<1>0. /\ World /\ Machine /\ clock \in Nat /\ launched \in Nat /\ launched <= MaxStarts + MaxEvents
      /\ Idle \in CallType
  BY LaunchedBound, Fresh DEF Typed
<1>1. CancelRun(active) \/ UNCHANGED runs
  BY <1>0 DEF pauseForRebalance, isRunning, CancelRun, Machine
<1>2. UNCHANGED <<pers, frozen, stamp, last, active, filter, guard, waiting, up, steady, lost, clock, launched>>
      /\ rebActive' \in BOOLEAN /\ blocked' \in BOOLEAN
  BY DEF pauseForRebalance
<1>3. Machine'
  BY <1>1, <1>2, CancelTyped
<1>4. [Idle EXCEPT !.pc = "drain", !.keep = TRUE, !.run = active] \in CallType /\ [Idle EXCEPT !.pc = "moving"] \in CallType
  BY <1>0 DEF CallType, Machine
<1>5. \E k \in CallType : goto("reb", k)
  BY <1>4 DEF pauseForRebalance
<1>6. /\ frozen' \in BOOLEAN /\ guard' \in BOOLEAN /\ waiting' \in BOOLEAN /\ filter' \subseteq Vol
  BY <1>0, <1>2 DEF World
<1>. QED
  BY <1>2, <1>3, <1>5, <1>6, WaitTyped

\* It hands them back.
LEMMA ReleaseTyped ==
    ASSUME Typed, releaseForRebalance
    PROVE  World' /\ Machine' /\ Talk'
<1>0. /\ World /\ Machine /\ clock \in Nat /\ launched \in Nat /\ Idle \in CallType
  BY LaunchedBound, Fresh DEF Typed
<1>1. UNCHANGED <<pers, frozen, stamp, last, active, filter, guard, waiting, runs, up, steady, lost, clock, launched>>
      /\ rebActive' \in BOOLEAN /\ blocked' \in BOOLEAN
  BY <1>0 DEF releaseForRebalance, bounds, World
<1>2. Machine'
  BY <1>1, CancelTyped
<1>3. [Idle EXCEPT !.pc = "resume"] \in CallType
  BY <1>0 DEF CallType, Due
<1>4. \E k \in CallType : goto("reb", k)
  BY <1>0, <1>3 DEF releaseForRebalance, resumeEnter, leave
<1>5. /\ frozen' \in BOOLEAN /\ guard' \in BOOLEAN /\ waiting' \in BOOLEAN /\ filter' \subseteq Vol
  BY <1>0, <1>1 DEF World
<1>. QED
  BY <1>1, <1>2, <1>4, <1>5, WaitTyped

\* The wait for the run is over, or is given up.
LEMMA DrainTyped ==
    ASSUME Typed, NEW c \in Callers, Drained(c) \/ Abandon(c)
    PROVE  World' /\ Machine' /\ Talk'
<1>0. /\ World /\ Machine /\ Talk /\ clock \in Nat /\ launched \in Nat /\ Idle \in CallType
  BY LaunchedBound, Fresh DEF Typed
<1>1. UNCHANGED <<pers, rebActive, frozen, stamp, last, guard, blocked, runs, up, steady, lost, clock, launched>>
      /\ AfterDrain(c)
  BY DEF Drained, Abandon, bounds
<1>2. RunType' = RunType
  BY <1>1 DEF RunType
<1>3. Machine' /\ filter' \subseteq Vol
  <2>1. active' \in {None, active} /\ filter' \subseteq Vol
    BY <1>0 DEF Drained, Abandon, Settle, World
  <2>. QED
    BY <1>0, <1>1, <1>2, <2>1 DEF Machine
<1>4. [Idle EXCEPT !.pc = "moving"] \in CallType /\ [call[c] EXCEPT !.pc = "clear1"] \in CallType
  BY <1>0 DEF CallType, Talk
<1>5. \E k \in CallType : goto(c, k)
  BY <1>0, <1>1, <1>4 DEF AfterDrain
<1>6. /\ frozen' \in BOOLEAN /\ guard' \in BOOLEAN /\ waiting' \in BOOLEAN /\ rebActive' \in BOOLEAN /\ blocked' \in BOOLEAN
  BY <1>0, <1>1 DEF World, AfterDrain
<1>. QED
  BY <1>1, <1>3, <1>5, <1>6, WaitTyped

\* The last object of a batch.
LEMMA LargestObject ==
    ASSUME NEW T \in SUBSET Obj, T # {}
    PROVE  Max(T) \in T /\ \A o \in T : o <= Max(T)
<1>. DEFINE S == {NObjects - o : o \in T}
<1>0. \A o \in T : o \in Nat /\ NObjects - o \in Nat
  OBVIOUS
<1>1. S \subseteq Nat /\ S # {}
  BY <1>0
<1>2. PICK m \in S : \A n \in S : m <= n
  BY <1>1, Least
<1>3. PICK x \in T : m = NObjects - x
  BY <1>2
<1>4. \A o \in T : x >= o
  <2>1. \A o \in T : m <= NObjects - o
    BY <1>2
  <2>. QED
    BY <1>0, <1>3, <2>1
<1>5. \E y \in T : \A o \in T : y >= o
  BY <1>4
<1>6. Max(T) \in T /\ \A o \in T : Max(T) >= o
  BY <1>5, Zenon DEF Max
<1>. QED
  BY <1>0, <1>6

\* What a step of a run may do: the run becomes another, and may leave the job.
RunShape(r) ==
    /\ \E rec \in RunType : Step(r, rec)
    /\ Settle(r) \/ UNCHANGED <<active, filter>>
    /\ UNCHANGED <<rebActive, frozen, guard, blocked, waiting, call, tangled, up, steady,
                   clock, launched, starts>>
    /\ pers' \in [started : 0..clock, filter : SUBSET Vol, cursor : 0..NObjects]
    /\ stamp' \in [Obj -> [Vol -> 0..clock]] /\ last' \in 0..clock /\ lost' \subseteq Obj
    /\ events' \in {events, events + 1} /\ events' \in 0..MaxEvents

\* Every step of a run does that.
LEMMA RunsShape ==
    ASSUME Typed, NEW r \in RunIds, RunStep(r)
    PROVE  RunShape(r)
<1>0. /\ World /\ Machine /\ clock \in Nat /\ NoRun \in RunType /\ runs[r] \in RunType
      /\ events \in 0..MaxEvents /\ MaxEvents \in Nat
  BY LaunchedBound, Fresh DEF Typed, Machine, Budget
<1>. PICK run : run = runs[r]
  OBVIOUS
<1>1. /\ run.batch \subseteq Obj /\ run.cursor \in 0..NObjects /\ run.top \in 0..NObjects /\ run.st \in 0..clock
      /\ run.todo \in [Obj -> SUBSET Vol] /\ run.done \in [Obj -> SUBSET Vol]
  BY <1>0 DEF RunType
<1>2. /\ pers \in [started : 0..clock, filter : SUBSET Vol, cursor : 0..NObjects] /\ lost \subseteq Obj
      /\ stamp \in [Obj -> [Vol -> 0..clock]] /\ last \in 0..clock /\ 0 \in 0..clock /\ 0 \in 0..NObjects
  BY <1>0 DEF World
<1>3. CASE execute(r)
  <2>1. UNCHANGED <<pers, rebActive, frozen, stamp, last, guard, blocked, waiting, call, tangled, up, steady,
                    lost, clock, launched, starts, events>>
    BY <1>3 DEF execute, bounds
  <2>2. \E rec \in RunType : Step(r, rec)
    <3>1. [run EXCEPT !.pc = "fin1"] \in RunType
      BY <1>0 DEF RunType, Phases
    <3>2. ASSUME NEW B, B = fetchBatch(run), B # {}
          PROVE  [run EXCEPT !.pc = "verify", !.batch = B, !.top = Max(B),
                       !.todo = [o \in Obj |-> IF o \in B THEN SlicesOf[o] ELSE {}],
                       !.done = [o \in Obj |-> {}]] \in RunType
      <4>1. B \subseteq Obj
        BY <3>2 DEF fetchBatch, Needing
      <4>2. Max(B) \in 0..NObjects
        BY <3>2, <4>1, LargestObject
      <4>3. [o \in Obj |-> IF o \in B THEN SlicesOf[o] ELSE {}] \in [Obj -> SUBSET Vol]
            /\ [o \in Obj |-> {}] \in [Obj -> SUBSET Vol]
        OBVIOUS
      <4>. QED
        BY <1>0, <4>1, <4>2, <4>3 DEF RunType, Phases
    <3>. QED
      BY <1>0, <1>3, <3>1, <3>2 DEF execute
  <2>3. Settle(r) \/ UNCHANGED <<active, filter>>
    BY <1>3 DEF execute
  <2>. QED
    BY <1>0, <1>2, <2>1, <2>2, <2>3 DEF RunShape
<1>4. CASE \E o \in Obj : verifySlice(r, o)
  <2>1. PICK o \in Obj : verifySlice(r, o)
    BY <1>4
  <2>2. PICK D \in SUBSET Vol, V \in SUBSET Vol :
            Step(r, [run EXCEPT !.todo[o] = V, !.done[o] = D])
    <3>1. PICK v : v = Min(run.todo[o])
      OBVIOUS
    <3>2. Step(r, [run EXCEPT !.todo[o] = @ \ {v}, !.done[o] = IF v \in verifiable THEN @ \cup {v} ELSE @])
      BY <2>1, <3>1 DEF verifySlice
    <3>0. run.todo[o] \subseteq Vol /\ run.done[o] \subseteq Vol /\ verifiable \subseteq Vol
      BY <1>0, <1>1 DEF verifiable, World
    <3>3. /\ run.todo[o] \ {v} \in SUBSET Vol /\ run.done[o] \in SUBSET Vol
          /\ v \in verifiable => run.done[o] \cup {v} \in SUBSET Vol
      BY <3>0
    <3>. QED
      BY <3>2, <3>3
  <2>3. [run EXCEPT !.todo[o] = V, !.done[o] = D] \in RunType
    <3>1. [run.todo EXCEPT ![o] = V] \in [Obj -> SUBSET Vol] /\ [run.done EXCEPT ![o] = D] \in [Obj -> SUBSET Vol]
      BY <1>1
    <3>2. [run EXCEPT !.todo[o] = V, !.done[o] = D]
            = [run EXCEPT !.todo = [run.todo EXCEPT ![o] = V], !.done = [run.done EXCEPT ![o] = D]]
      BY <1>0 DEF RunType
    <3>. QED
      BY <1>0, <3>1, <3>2 DEF RunType
  <2>4. UNCHANGED <<pers, rebActive, frozen, stamp, last, active, filter, guard, blocked, waiting, call,
                    tangled, up, steady, lost, clock, launched, starts, events>>
    BY <2>1 DEF verifySlice, bounds
  <2>. QED
    BY <1>0, <1>2, <2>2, <2>3, <2>4 DEF RunShape
<1>5. CASE \E o \in Obj : updateObjectVerificationState(r, o) \/ LoadFails(r, o)
  <2>1. PICK o \in Obj : updateObjectVerificationState(r, o) \/ LoadFails(r, o)
    BY <1>5
  <2>2. [run EXCEPT !.batch = @ \ {o}] \in RunType
    BY <1>0 DEF RunType
  <2>3. Step(r, [run EXCEPT !.batch = @ \ {o}])
    BY <2>1 DEF updateObjectVerificationState, LoadFails
  <2>4. UNCHANGED <<pers, rebActive, frozen, last, active, filter, guard, blocked, waiting, call, tangled,
                    up, steady, clock, launched, starts>>
    BY <2>1 DEF updateObjectVerificationState, LoadFails, bounds
  <2>5. stamp' \in [Obj -> [Vol -> 0..clock]]
    <3>1. CASE updateObjectVerificationState(r, o)
      <4>1. stamp' = [stamp EXCEPT ![o] = [v \in Vol |-> IF v \in run.done[o] THEN run.st ELSE stamp[o][v]]]
        BY <1>2, <3>1 DEF updateObjectVerificationState
      <4>2. [v \in Vol |-> IF v \in run.done[o] THEN run.st ELSE stamp[o][v]] \in [Vol -> 0..clock]
        BY <1>1, <1>2
      <4>. QED
        BY <1>2, <4>1, <4>2
    <3>2. CASE LoadFails(r, o)
      BY <1>2, <3>2 DEF LoadFails
    <3>. QED
      BY <2>1, <3>1, <3>2
  <2>6. lost' \subseteq Obj /\ events' \in {events, events + 1} /\ events' \in 0..MaxEvents
    BY <1>0, <1>2, <2>1 DEF updateObjectVerificationState, LoadFails, bounds
  <2>. QED
    BY <1>0, <1>2, <2>2, <2>3, <2>4, <2>5, <2>6 DEF RunShape
<1>6. CASE advanceCursor(r)
  <2>1. UNCHANGED <<rebActive, frozen, stamp, last, guard, blocked, waiting, call, tangled, up, steady, lost,
                    clock, launched, starts, events>>
    BY <1>6 DEF advanceCursor, bounds
  <2>2. [run EXCEPT !.pc = "batch", !.cursor = run.top] \in RunType
    BY <1>0, <1>1 DEF RunType, Phases
  <2>3. /\ \E rec \in RunType : Step(r, rec)
        /\ Settle(r) \/ UNCHANGED <<active, filter>>
    BY <1>0, <1>6, <2>2 DEF advanceCursor
  <2>4. pers' \in [started : 0..clock, filter : SUBSET Vol, cursor : 0..NObjects]
    <3>1. [pers EXCEPT !.cursor = run.top] \in [started : 0..clock, filter : SUBSET Vol, cursor : 0..NObjects]
      BY <1>1, <1>2
    <3>. QED
      BY <1>2, <1>6, <3>1 DEF advanceCursor
  <2>. QED
    BY <1>0, <1>2, <2>1, <2>3, <2>4 DEF RunShape
<1>7. CASE finalize(r)
  <2>1. UNCHANGED <<rebActive, frozen, stamp, guard, blocked, waiting, call, tangled, up, steady, lost,
                    clock, launched, starts, events>>
    BY <1>7 DEF finalize, bounds
  <2>2. [run EXCEPT !.pc = "fin2"] \in RunType /\ [run EXCEPT !.pc = "fin3"] \in RunType
    BY <1>0 DEF RunType, Phases
  <2>3. /\ \E rec \in RunType : Step(r, rec)
        /\ Settle(r) \/ UNCHANGED <<active, filter>>
    BY <1>0, <1>7, <2>2 DEF finalize
  <2>4. pers' \in [started : 0..clock, filter : SUBSET Vol, cursor : 0..NObjects]
    <3>1. /\ [pers EXCEPT !.started = None] \in [started : 0..clock, filter : SUBSET Vol, cursor : 0..NObjects]
          /\ [pers EXCEPT !.filter = All, !.cursor = None] \in [started : 0..clock, filter : SUBSET Vol, cursor : 0..NObjects]
      BY <1>2
    <3>. QED
      BY <1>2, <1>7, <3>1 DEF finalize
  <2>5. last' \in 0..clock
    BY <1>1, <1>2, <1>7 DEF finalize
  <2>. QED
    BY <1>0, <1>2, <2>1, <2>3, <2>4, <2>5 DEF RunShape
<1>. QED
  BY <1>3, <1>4, <1>5, <1>6, <1>7 DEF RunStep

\* So it keeps the types.
LEMMA RunTyped ==
    ASSUME Typed, NEW r \in RunIds, RunShape(r)
    PROVE  World' /\ Machine' /\ Talk'
<1>0. World /\ Machine /\ Talk /\ Budget
  BY DEF Typed
<1>1. Machine' /\ filter' \subseteq Vol
  BY <1>0, StepTyped DEF RunShape, World
<1>2. Talk'
  <2>1. CallType' = CallType
    BY DEF RunShape, CallType
  <2>. QED
    BY <1>0, <2>1 DEF RunShape, Talk
<1>3. World'
  BY <1>0, <1>1 DEF RunShape, World
<1>. QED
  BY <1>1, <1>2, <1>3

\* Unfreezing, a volume that changes, a crash.
LEMMA OutsideTyped ==
    ASSUME Typed, Unfreeze \/ (\E v \in Vol : VolumeChanges(v)) \/ Restart
    PROVE  World' /\ Machine' /\ Talk'
<1>0. World /\ Machine /\ Talk /\ clock \in Nat /\ launched \in Nat
  BY LaunchedBound DEF Typed
<1>1. UNCHANGED <<clock, launched>>
  BY DEF Unfreeze, VolumeChanges, Restart, bounds
<1>2. RunType' = RunType /\ CallType' = CallType
  BY <1>1 DEF RunType, CallType
<1>3. CASE Unfreeze
  <2>1. Machine' /\ Talk'
    BY <1>0, <1>1, <1>2, <1>3 DEF Unfreeze, Machine, Talk, job
  <2>2. World'
    BY <1>0, <1>3 DEF Unfreeze, World, job, bounds
  <2>. QED
    BY <2>1, <2>2
<1>4. CASE \E v \in Vol : VolumeChanges(v)
  <2>1. Machine' /\ Talk'
    BY <1>0, <1>1, <1>2, <1>4 DEF VolumeChanges, Machine, Talk, job
  <2>2. World'
    BY <1>0, <1>4 DEF VolumeChanges, World, job, bounds
  <2>. QED
    BY <2>1, <2>2
<1>5. CASE Restart
  <2>1. NoRun \in RunType /\ Idle \in CallType
    BY <1>0, Fresh
  <2>2. Machine'
    BY <1>0, <1>1, <1>2, <1>5, <2>1 DEF Restart, Machine
  <2>3. Talk'
    <3>1. [Idle EXCEPT !.pc = "resume"] \in CallType /\ [Idle EXCEPT !.pc = "moving"] \in CallType
      BY <2>1 DEF CallType, Due
    <3>2. PICK a \in CallType, b \in CallType :
              call' = [[d \in Callers |-> Idle] EXCEPT !["user"] = a, !["reb"] = b]
      BY <1>5, <2>1, <3>1 DEF Restart
    <3>. QED
      BY <1>2, <2>1, <3>2 DEF Talk
  <2>4. World'
    BY <1>0, <1>5 DEF Restart, World
  <2>. QED
    BY <2>2, <2>3, <2>4
<1>. QED
  BY <1>3, <1>4, <1>5

\* One caller moves.
LEMMA GotoCalls ==
    ASSUME Talk, NEW c \in Callers, NEW k, goto(c, k)
    PROVE  call'[c] = k /\ \A d \in Callers : d # c => call'[d] = call[d]
  BY DEF Talk, goto

\* What a caller that owes a launch may do: go on, launch, or leave.
Spends(c) ==
    /\ call[c].pc \in Due /\ \A d \in Callers : d # c => call'[d].pc = call[d].pc
    /\ call'[c].pc \in (Due \ {"resume"}) \cup {"idle"}
    /\ c = "reb" /\ call[c].pc = "resume" /\ frozen => call'[c].pc = "idle"
    /\ c = "reb" => call'[c].pc \in {"idle", "resumeGet", "resumeFilter", "resumeCursor", "relaunch"}
    /\ \/ launched' = launched
       \/ launched' = launched + 1 /\ call'[c].pc = "idle" /\ call[c].pc # "resume"
    /\ UNCHANGED <<rebActive, frozen, starts, events>>
    /\ clock' \in Nat

\* A launch spends what was owed for it.
LEMMA SpendsBudget ==
    ASSUME Typed, NEW c \in Callers, Spends(c)
    PROVE  Budget'
<1>0. Budget
  BY DEF Typed
<1>1. CASE c = "user"
  <2>1. call'["tick"].pc = call["tick"].pc /\ call'["reb"].pc = call["reb"].pc
        /\ call'["freeze"].pc = call["freeze"].pc
    BY <1>1 DEF Spends
  <2>2. UNCHANGED Kept
    BY <2>1 DEF Kept, Spends
  <2>3. OwedTick' = OwedTick /\ OwedReb' = OwedReb /\ OwedKept' = OwedKept /\ OwedFrozen' = OwedFrozen
    BY <2>1, <2>2 DEF OwedTick, OwedReb, OwedKept, OwedFrozen, One, Spends, Due
  <2>4. /\ OwedUser = 1 /\ launched \in Nat /\ launched' \in Nat
        /\ launched' = launched \/ (launched' = launched + 1 /\ OwedUser' = 0)
    BY <1>0, <1>1 DEF OwedUser, One, Spends, Due, Budget
  <2>5. launched' + OwedUser' + OwedTick' + OwedReb' + OwedKept' + OwedFrozen' <= starts' + events'
    <3>1. launched + OwedUser + OwedTick + OwedReb + OwedKept + OwedFrozen <= starts + events
          /\ launched \in Nat /\ starts \in Nat /\ events \in Nat /\ starts' = starts /\ events' = events
      BY <1>0, LaunchedBound DEF Budget, Spends
    <3>2. PICK n \in Nat, m \in Nat, s \in Nat : n = launched /\ m = launched' /\ s = starts + events
      BY <3>1, <2>4
    <3>3. PICK a \in {0, 1}, b \in {0, 1}, d \in {0, 1}, e \in {0, 1}, f \in {0, 1} :
              a = OwedUser /\ b = OwedTick /\ d = OwedReb /\ e = OwedKept /\ f = OwedFrozen
      BY OwedType
    <3>4. PICK a1 \in {0, 1}, b1 \in {0, 1}, d1 \in {0, 1}, e1 \in {0, 1}, f1 \in {0, 1} :
              a1 = OwedUser' /\ b1 = OwedTick' /\ d1 = OwedReb' /\ e1 = OwedKept' /\ f1 = OwedFrozen'
      BY OwedTypeNext
    <3>5. n + a + b + d + e + f <= s
      BY <3>1, <3>2, <3>3
    <3>6. a = 1 /\ (m = n \/ (m = n + 1 /\ a1 = 0)) /\ b1 = b /\ d1 = d /\ e1 = e /\ f1 = f
      BY <2>3, <2>4, <3>2, <3>3, <3>4
    <3>7. m + a1 + b1 + d1 + e1 + f1 <= s
      BY <3>5, <3>6
    <3>. QED
      BY <3>1, <3>2, <3>4, <3>7
  <2>6. /\ clock' \in Nat /\ starts' \in 0..MaxStarts /\ events' \in 0..MaxEvents
    BY <1>0 DEF Budget, Spends
  <2>. QED
    BY <1>0, <1>1, <2>1, <2>4, <2>5, <2>6 DEF Budget, Spends, Due
<1>2. CASE c = "tick"
  <2>1. call'["user"].pc = call["user"].pc /\ call'["reb"].pc = call["reb"].pc
        /\ call'["freeze"].pc = call["freeze"].pc
    BY <1>2 DEF Spends
  <2>2. UNCHANGED Kept
    BY <2>1 DEF Kept, Spends
  <2>3. OwedUser' = OwedUser /\ OwedReb' = OwedReb /\ OwedKept' = OwedKept /\ OwedFrozen' = OwedFrozen
    BY <2>1, <2>2 DEF OwedUser, OwedReb, OwedKept, OwedFrozen, One, Spends, Due
  <2>4. /\ OwedTick = 1 /\ launched \in Nat /\ launched' \in Nat
        /\ launched' = launched \/ (launched' = launched + 1 /\ OwedTick' = 0)
    BY <1>0, <1>2 DEF OwedTick, One, Spends, Due, Budget
  <2>5. launched' + OwedUser' + OwedTick' + OwedReb' + OwedKept' + OwedFrozen' <= starts' + events'
    <3>1. launched + OwedUser + OwedTick + OwedReb + OwedKept + OwedFrozen <= starts + events
          /\ launched \in Nat /\ starts \in Nat /\ events \in Nat /\ starts' = starts /\ events' = events
      BY <1>0, LaunchedBound DEF Budget, Spends
    <3>2. PICK n \in Nat, m \in Nat, s \in Nat : n = launched /\ m = launched' /\ s = starts + events
      BY <3>1, <2>4
    <3>3. PICK a \in {0, 1}, b \in {0, 1}, d \in {0, 1}, e \in {0, 1}, f \in {0, 1} :
              a = OwedUser /\ b = OwedTick /\ d = OwedReb /\ e = OwedKept /\ f = OwedFrozen
      BY OwedType
    <3>4. PICK a1 \in {0, 1}, b1 \in {0, 1}, d1 \in {0, 1}, e1 \in {0, 1}, f1 \in {0, 1} :
              a1 = OwedUser' /\ b1 = OwedTick' /\ d1 = OwedReb' /\ e1 = OwedKept' /\ f1 = OwedFrozen'
      BY OwedTypeNext
    <3>5. n + a + b + d + e + f <= s
      BY <3>1, <3>2, <3>3
    <3>6. b = 1 /\ (m = n \/ (m = n + 1 /\ b1 = 0)) /\ a1 = a /\ d1 = d /\ e1 = e /\ f1 = f
      BY <2>3, <2>4, <3>2, <3>3, <3>4
    <3>7. m + a1 + b1 + d1 + e1 + f1 <= s
      BY <3>5, <3>6
    <3>. QED
      BY <3>1, <3>2, <3>4, <3>7
  <2>6. /\ clock' \in Nat /\ starts' \in 0..MaxStarts /\ events' \in 0..MaxEvents
    BY <1>0 DEF Budget, Spends
  <2>. QED
    BY <1>0, <1>2, <2>1, <2>4, <2>5, <2>6 DEF Budget, Spends, Due
<1>3. CASE c = "reb"
  <2>1. call'["tick"].pc = call["tick"].pc /\ call'["user"].pc = call["user"].pc
        /\ call'["freeze"].pc = call["freeze"].pc
    BY <1>3 DEF Spends
  <2>2. UNCHANGED Kept
    BY <1>3 DEF Kept, Spends, Due
  <2>3. OwedTick' = OwedTick /\ OwedUser' = OwedUser /\ OwedKept' = OwedKept
    BY <2>1, <2>2 DEF OwedTick, OwedUser, OwedKept, One, Due
  <2>4. /\ launched' + OwedReb' + OwedFrozen' <= launched + OwedReb + OwedFrozen
        /\ launched' \in Nat
    <3>1. launched \in Nat /\ OwedReb = 1
      BY <1>0, <1>3 DEF Budget, OwedReb, One, Spends
    <3>0. PICK n \in Nat, d1 \in {0, 1}, f \in {0, 1}, f1 \in {0, 1} :
              n = launched /\ d1 = OwedReb' /\ f = OwedFrozen /\ f1 = OwedFrozen'
      BY <3>1, OwedType, OwedTypeNext
    <3>5. PICK m \in {n, n + 1} : m = launched'
      BY <3>0 DEF Spends
    <3>6. m + d1 + f1 <= n + 1 + f
      <4>1. CASE call'["reb"].pc = "idle" /\ call["reb"].pc = "resume"
        <5>1. d1 = 0 /\ m = n
          BY <1>3, <3>0, <3>5, <4>1 DEF OwedReb, One, Spends, Due
        <5>. QED
          BY <5>1
      <4>2. CASE call["reb"].pc # "resume"
        <5>1. f1 = f
          BY <1>3, <2>2, <3>0, <4>2 DEF OwedFrozen, One, Spends, Due
        <5>2. m = n \/ (m = n + 1 /\ d1 = 0)
          <6>1. launched' = launched \/ (launched' = launched + 1 /\ call'["reb"].pc = "idle")
            BY <1>3 DEF Spends
          <6>2. call'["reb"].pc = "idle" => d1 = 0
            BY <3>0 DEF OwedReb, One, Due
          <6>. QED
            BY <3>0, <3>5, <6>1, <6>2
        <5>. QED
          BY <5>1, <5>2
      <4>3. CASE ~frozen /\ call["reb"].pc = "resume"
        <5>1. f1 = 0 /\ m = n
          BY <1>3, <3>0, <3>5, <4>3 DEF OwedFrozen, One, Spends
        <5>. QED
          BY <5>1
      <4>. QED
        BY <1>3, <4>1, <4>2, <4>3 DEF Spends
    <3>7. m \in Nat
      BY <3>0, <3>5
    <3>8. launched' + OwedReb' + OwedFrozen' <= n + 1 + f
      BY <3>0, <3>5, <3>6
    <3>. QED
      BY <3>0, <3>1, <3>5, <3>7, <3>8
  <2>5. launched' + OwedUser' + OwedTick' + OwedReb' + OwedKept' + OwedFrozen' <= starts' + events'
    <3>1. launched + OwedUser + OwedTick + OwedReb + OwedKept + OwedFrozen <= starts + events
          /\ launched \in Nat /\ starts \in Nat /\ events \in Nat /\ starts' = starts /\ events' = events
      BY <1>0, LaunchedBound DEF Budget, Spends
    <3>2. PICK n \in Nat, m \in Nat, s \in Nat : n = launched /\ m = launched' /\ s = starts + events
      BY <3>1, <2>4
    <3>3. PICK a \in {0, 1}, b \in {0, 1}, d \in {0, 1}, e \in {0, 1}, f \in {0, 1} :
              a = OwedUser /\ b = OwedTick /\ d = OwedReb /\ e = OwedKept /\ f = OwedFrozen
      BY OwedType
    <3>4. PICK a1 \in {0, 1}, b1 \in {0, 1}, d1 \in {0, 1}, e1 \in {0, 1}, f1 \in {0, 1} :
              a1 = OwedUser' /\ b1 = OwedTick' /\ d1 = OwedReb' /\ e1 = OwedKept' /\ f1 = OwedFrozen'
      BY OwedTypeNext
    <3>5. n + a + b + d + e + f <= s
      BY <3>1, <3>2, <3>3
    <3>6. m + d1 + f1 <= n + d + f /\ b1 = b /\ a1 = a /\ e1 = e
      BY <2>3, <2>4, <3>2, <3>3, <3>4
    <3>7. m + a1 + b1 + d1 + e1 + f1 <= s
      BY <3>5, <3>6
    <3>. QED
      BY <3>1, <3>2, <3>4, <3>7
  <2>6. /\ clock' \in Nat /\ starts' \in 0..MaxStarts /\ events' \in 0..MaxEvents
    BY <1>0 DEF Budget, Spends
  <2>. QED
    BY <1>0, <1>3, <2>1, <2>4, <2>5, <2>6 DEF Budget, Spends, Due
<1>4. CASE c = "freeze"
  BY <1>0, <1>4 DEF Budget, Spends, Due
<1>. QED
  BY <1>1, <1>2, <1>3, <1>4

\* Steps that owe no launch: the calls that owe one stay, and no bound gets smaller.
Owes ==
    /\ \A c \in Callers : call'[c].pc \in Due <=> call[c].pc \in Due
    /\ call'["tick"].pc \in Due \cup {"idle"}
    /\ call'["user"].pc \in Due \cup {"idle", "drain", "clear1", "clear2", "clear3"}
    /\ call'["freeze"].pc \in {"idle", "drain", "clear1", "clear2", "clear3"}
    /\ launched' = launched /\ starts' = starts /\ clock' = clock

\* They keep the budget.
LEMMA OwesBudget ==
    ASSUME Typed, Owes,
           \/ UNCHANGED <<rebActive, frozen, events>>
           \/ UNCHANGED rebActive /\ frozen' = FALSE /\ UNCHANGED events
           \/ UNCHANGED rebActive /\ events' = events + 1 /\ events < MaxEvents,
           \/ call'["reb"].pc = call["reb"].pc
           \/ call["reb"].pc = "drain" /\ call'["reb"].pc = "moving"
    PROVE  Budget'
<1>0. Budget
  BY DEF Typed
<1>1. UNCHANGED Kept
  BY DEF Kept
<1>2. UNCHANGED <<OwedUser, OwedTick, OwedReb, OwedKept>>
  BY <1>1 DEF OwedUser, OwedTick, OwedReb, OwedKept, One, Owes, Due
<1>4. \/ events' = events /\ OwedFrozen' <= OwedFrozen
      \/ events' = events + 1 /\ events < MaxEvents
  BY <1>1 DEF OwedFrozen, One
<1>5. /\ launched' = launched /\ starts' = starts /\ clock' = clock
      /\ events' \in 0..MaxEvents
  BY <1>0, <1>4 DEF Owes, Budget
<1>6. launched + OwedUser' + OwedTick' + OwedReb' + OwedKept' + OwedFrozen' <= starts + events'
  BY <1>0, <1>2, <1>4, OwedType, OwedTypeNext DEF Budget
<1>7. call'["reb"].pc \in {"idle", "drain", "moving", "resume", "resumeGet", "resumeFilter", "resumeCursor",
                           "relaunch"}
  BY <1>0 DEF Budget
<1>. QED
  BY <1>0, <1>5, <1>6, <1>7 DEF Budget, Owes

\* The steps between a guard and a launch.
LEMMA SpendsSteps ==
    ASSUME Typed, NEW c \in Callers,
           \/ startGuard(c) \/ StartRead(c) \/ loadPersistedVolumeFilter(c)
           \/ loadPersistedCursorId(c) \/ persistVolumeFilter(c) \/ DropCursor(c) \/ PutStarted(c)
           \/ resumePendingJob(c) \/ ResumeRead(c) \/ StartLaunch(c) \/ ResumeLaunch(c)
    PROVE  Spends(c)
<1>0. Talk /\ Budget /\ clock \in Nat /\ call[c] \in CallType
  BY LaunchedBound DEF Typed, Talk
<1>1. /\ UNCHANGED <<rebActive, frozen, starts, events>>
      /\ clock' = clock \/ clock' = clock + 1
      /\ launched' = launched \/ (launched' = launched + 1 /\ (StartLaunch(c) \/ ResumeLaunch(c)))
  BY DEF startGuard, StartRead, loadPersistedVolumeFilter, loadPersistedCursorId,
      persistVolumeFilter,
         DropCursor, PutStarted, resumePendingJob, ResumeRead, StartLaunch,
             ResumeLaunch, launch, bounds
<1>2. \E k : /\ goto(c, k) /\ k.pc \in (Due \ {"resume"}) \cup {"idle"}
             /\ c = "reb" /\ call[c].pc = "resume" /\ frozen => k.pc = "idle"
             /\ c = "reb" => k.pc \in {"idle", "resumeGet", "resumeFilter", "resumeCursor", "relaunch"}
             /\ StartLaunch(c) \/ ResumeLaunch(c) => k.pc = "idle"
  <2>1. Idle.pc = "idle"
    BY DEF Idle
  <2>2. \A l : [call[c] EXCEPT !.pc = l].pc = l
    BY <1>0 DEF CallType
  <2>3. CASE startGuard(c)
    BY <1>0, <2>1, <2>2, <2>3 DEF startGuard, leave, Due, Budget, StartLaunch,
        ResumeLaunch
  <2>4. CASE StartRead(c)
    <3>1. PICK k : goto(c, k) /\ k.pc \in {"putFilter", "getFilter"}
      <4>1. \A l : [call[c] EXCEPT !.pc = l, !.ex = pers.started].pc = l
        BY <1>0 DEF CallType
      <4>. QED
        BY <2>4, <4>1 DEF StartRead
    <3>. QED
      BY <1>0, <2>4, <3>1 DEF StartRead, Due, Budget, StartLaunch, ResumeLaunch
  <2>5. CASE loadPersistedVolumeFilter(c)
    <3>1. PICK k : goto(c, k) /\ k.pc = IF call[c].pc = "getFilter" THEN "getCursor" ELSE "resumeCursor"
      <4>0. PICK l : l = IF call[c].pc = "getFilter" THEN "getCursor" ELSE "resumeCursor"
        OBVIOUS
      <4>1. [call[c] EXCEPT !.pc = l, !.filter = pers.filter].pc = l
        BY <1>0 DEF CallType
      <4>2. goto(c, [call[c] EXCEPT !.pc = l, !.filter = pers.filter])
        BY <1>0, <2>5, <4>0 DEF loadPersistedVolumeFilter, CallType
      <4>. QED
        BY <4>0, <4>1, <4>2
    <3>. QED
      BY <1>0, <2>5, <3>1 DEF loadPersistedVolumeFilter, Due, Budget, StartLaunch,
          ResumeLaunch
  <2>6. CASE loadPersistedCursorId(c)
    <3>1. PICK k : goto(c, k) /\ k.pc = IF call[c].pc = "getCursor" THEN "join" ELSE "relaunch"
      <4>0. PICK l : l = IF call[c].pc = "getCursor" THEN "join" ELSE "relaunch"
        OBVIOUS
      <4>1. [call[c] EXCEPT !.pc = l, !.cursor = pers.cursor].pc = l
        BY <1>0 DEF CallType
      <4>2. goto(c, [call[c] EXCEPT !.pc = l, !.cursor = pers.cursor])
        BY <1>0, <2>6, <4>0 DEF loadPersistedCursorId, CallType
      <4>. QED
        BY <4>0, <4>1, <4>2
    <3>. QED
      BY <1>0, <2>6, <3>1 DEF loadPersistedCursorId, Due, Budget, StartLaunch,
          ResumeLaunch
  <2>7. CASE persistVolumeFilter(c) \/ DropCursor(c)
    <3>1. PICK l \in {"dropCursor", "putStarted"} : goto(c, [call[c] EXCEPT !.pc = l])
      BY <2>7 DEF persistVolumeFilter, DropCursor
    <3>2. c # "reb" /\ ~StartLaunch(c) /\ ~ResumeLaunch(c)
      BY <1>0, <2>7 DEF persistVolumeFilter, DropCursor, Budget, StartLaunch,
          ResumeLaunch
    <3>3. l \in Due \ {"resume"}
      BY DEF Due
    <3>. QED
      BY <2>2, <3>1, <3>2, <3>3
  <2>8. CASE PutStarted(c)
    <3>1. PICK k : goto(c, k) /\ k.pc = "fresh"
      <4>1. [call[c] EXCEPT !.pc = "fresh", !.ex = clock + 1].pc = "fresh"
        BY <1>0 DEF CallType
      <4>. QED
        BY <2>8, <4>1 DEF PutStarted
    <3>. QED
      BY <1>0, <2>8, <3>1 DEF PutStarted, Due, Budget, StartLaunch, ResumeLaunch
  <2>9. CASE resumePendingJob(c)
    BY <1>0, <2>1, <2>2, <2>9 DEF resumePendingJob, leave, Due, StartLaunch,
        ResumeLaunch
  <2>10. CASE ResumeRead(c)
    <3>1. [call[c] EXCEPT !.pc = "resumeFilter", !.ex = pers.started].pc = "resumeFilter"
      BY <1>0 DEF CallType
    <3>. QED
      BY <2>1, <2>10, <3>1 DEF ResumeRead, leave, Due, StartLaunch, ResumeLaunch
  <2>11. CASE StartLaunch(c) \/ ResumeLaunch(c)
    <3>1. goto(c, Idle) /\ call[c].pc # "resume"
      BY <2>11 DEF StartLaunch, ResumeLaunch, leave
    <3>. QED
      BY <2>1, <3>1
  <2>. QED
    BY <2>3, <2>4, <2>5, <2>6, <2>7, <2>8, <2>9, <2>10, <2>11
<1>3. PICK k : /\ goto(c, k) /\ k.pc \in (Due \ {"resume"}) \cup {"idle"}
               /\ c = "reb" /\ call[c].pc = "resume" /\ frozen => k.pc = "idle"
               /\ c = "reb" => k.pc \in {"idle", "resumeGet", "resumeFilter", "resumeCursor", "relaunch"}
               /\ StartLaunch(c) \/ ResumeLaunch(c) => k.pc = "idle"
  BY <1>2
<1>4. call'[c] = k /\ \A d \in Callers : d # c => call'[d] = call[d]
  BY <1>0, <1>3, GotoCalls
<1>5. call[c].pc \in Due
  BY DEF startGuard, StartRead, loadPersistedVolumeFilter, loadPersistedCursorId,
      persistVolumeFilter,
         DropCursor, PutStarted, resumePendingJob, ResumeRead, StartLaunch,
             ResumeLaunch, Due
<1>6. StartLaunch(c) \/ ResumeLaunch(c) => call[c].pc # "resume"
  BY DEF StartLaunch, ResumeLaunch
<1>. QED
  BY <1>0, <1>1, <1>3, <1>4, <1>5, <1>6 DEF Spends

\* A start is one more launch owed.
LEMMA EnterBudget ==
    ASSUME Typed, NEW c \in Callers, StartEnter(c)
    PROVE  Budget'
<1>0. Talk /\ Budget /\ call[c] \in CallType
  BY DEF Typed, Talk
<1>1. /\ c \in {"user", "tick"} /\ call[c].pc = "idle" /\ starts < MaxStarts /\ starts' = starts + 1
      /\ UNCHANGED <<rebActive, frozen, clock, launched, events>>
  BY DEF StartEnter, bounds
<1>2. call'[c].pc = "guard" /\ \A d \in Callers : d # c => call'[d] = call[d]
  <2>1. PICK f : goto(c, [Idle EXCEPT !.pc = "guard", !.want = f])
    BY DEF StartEnter
  <2>2. [Idle EXCEPT !.pc = "guard", !.want = f].pc = "guard"
    BY DEF Idle
  <2>. QED
    BY <1>0, <2>1, <2>2, GotoCalls
<1>3. call'["reb"] = call["reb"] /\ call'["freeze"] = call["freeze"]
  BY <1>1, <1>2
<1>4. OwedReb' = OwedReb /\ OwedKept' = OwedKept /\ OwedFrozen' = OwedFrozen
  BY <1>1, <1>3 DEF OwedReb, OwedKept, OwedFrozen, Kept, One, Due
<1>5. PICK a \in {0, 1}, b \in {0, 1}, a1 \in {0, 1}, b1 \in {0, 1} :
          a = OwedUser /\ b = OwedTick /\ a1 = OwedUser' /\ b1 = OwedTick'
  BY OwedType, OwedTypeNext
<1>6. a1 + b1 <= a + b + 1
  <2>1. CASE c = "user"
    <3>1. b1 = b
      BY <1>2, <1>5, <2>1 DEF OwedTick, One, Due
    <3>. QED
      BY <3>1
  <2>2. CASE c = "tick"
    <3>1. a1 = a
      BY <1>2, <1>5, <2>2 DEF OwedUser, One, Due
    <3>. QED
      BY <3>1
  <2>. QED
    BY <1>1, <2>1, <2>2
<1>7. PICK n \in Nat, s \in Nat, v \in Nat, d \in {0, 1}, e \in {0, 1}, f \in {0, 1} :
          n = launched /\ s = starts /\ v = events /\ d = OwedReb /\ e = OwedKept /\ f = OwedFrozen
  BY <1>0, LaunchedBound, OwedType
<1>8. n + a + b + d + e + f <= s + v
  BY <1>0, <1>5, <1>7 DEF Budget
<1>9. n + a1 + b1 + d + e + f <= s + 1 + v
  BY <1>6, <1>8
<1>10. launched' + OwedUser' + OwedTick' + OwedReb' + OwedKept' + OwedFrozen' <= starts' + events'
  BY <1>1, <1>4, <1>5, <1>7, <1>9
<1>11. starts' \in 0..MaxStarts /\ events' \in 0..MaxEvents /\ clock' \in Nat /\ launched' \in Nat
  BY <1>0, <1>1 DEF Budget
<1>12. call'["user"].pc \in Due \cup {"idle", "drain", "clear1", "clear2", "clear3"}
       /\ call'["tick"].pc \in Due \cup {"idle"}
  <2>1. "guard" \in Due
    BY DEF Due
  <2>. QED
    BY <1>0, <1>1, <1>2, <2>1 DEF Budget
<1>. QED
  BY <1>0, <1>3, <1>10, <1>11, <1>12 DEF Budget

\* stop() and what follows it owe no launch.
LEMMA StopsBudget ==
    ASSUME Typed, stop \/ setMaintenanceFrozen
    PROVE  Budget'
<1>0. Talk /\ Budget
  BY DEF Typed
<1>1. PICK c \in {"user", "freeze"} : call[c].pc = "idle" /\ \E keep : stopEnter(c, keep)
  BY DEF stop, setMaintenanceFrozen
<1>2. UNCHANGED <<rebActive, clock, launched, starts>> /\ events' = events + 1 /\ events < MaxEvents
  BY DEF stop, setMaintenanceFrozen
<1>3. \E k : goto(c, k) /\ k.pc \in {"idle", "drain", "clear1"}
  <2>1. Idle.pc = "idle" /\ [Idle EXCEPT !.pc = "clear1"].pc = "clear1"
        /\ \A x : [Idle EXCEPT !.pc = "drain", !.keep = x, !.run = active].pc = "drain"
    BY DEF Idle
  <2>. QED
    BY <1>1, <2>1 DEF stopEnter, leave
<1>4. call'[c].pc \in {"idle", "drain", "clear1"} /\ \A d \in Callers : d # c => call'[d] = call[d]
  BY <1>0, <1>3, GotoCalls
<1>5. Owes
  <2>1. call'["reb"] = call["reb"] /\ call'["tick"] = call["tick"]
    BY <1>4
  <2>2. \A l \in {"idle", "drain", "clear1"} : l \notin Due
    BY DEF Due
  <2>3. \A d \in Callers : call'[d].pc \in Due <=> call[d].pc \in Due
    BY <1>1, <1>4, <2>2
  <2>. QED
    BY <1>0, <1>1, <1>2, <1>4, <2>1, <2>3 DEF Owes, Budget
<1>6. call'["reb"] = call["reb"]
  BY <1>4
<1>. QED
  BY <1>2, <1>5, <1>6, OwesBudget

\* Nor do the waits and the clears.
LEMMA WaitsBudget ==
    ASSUME Typed, NEW c \in Callers, Drained(c) \/ Abandon(c) \/ clearPersistedRun(c)
    PROVE  Budget'
<1>0. Talk /\ Budget /\ call[c] \in CallType
  BY DEF Typed, Talk
<1>1. UNCHANGED <<rebActive, frozen, events, clock, launched, starts>>
  BY DEF Drained, Abandon, clearPersistedRun, bounds
<1>2. call[c].pc \in {"drain", "clear1", "clear2", "clear3"} /\ c # "tick"
  BY <1>0 DEF Drained, Abandon, clearPersistedRun, Budget, Due
<1>3. \E k : /\ goto(c, k)
             /\ IF c = "reb" THEN call[c].pc = "drain" /\ k.pc = "moving" ELSE k.pc \in {"idle", "clear1", "clear2", "clear3"}
  <2>1. Idle.pc = "idle" /\ [Idle EXCEPT !.pc = "moving"].pc = "moving"
    BY DEF Idle
  <2>2. /\ [call[c] EXCEPT !.pc = "clear1"].pc = "clear1" /\ [call[c] EXCEPT !.pc = "clear2"].pc = "clear2"
        /\ [call[c] EXCEPT !.pc = "clear3"].pc = "clear3"
    BY <1>0 DEF CallType
  <2>3. CASE Drained(c) \/ Abandon(c)
    BY <2>1, <2>2, <2>3 DEF Drained, Abandon, AfterDrain
  <2>4. CASE clearPersistedRun(c)
    <3>1. c # "reb"
      BY <1>0, <2>4 DEF clearPersistedRun, Budget
    <3>. QED
      BY <2>1, <2>2, <2>4, <3>1 DEF clearPersistedRun, leave
  <2>. QED
    BY <2>3, <2>4
<1>4. PICK k : /\ goto(c, k)
               /\ IF c = "reb" THEN call[c].pc = "drain" /\ k.pc = "moving" ELSE k.pc \in {"idle", "clear1", "clear2", "clear3"}
  BY <1>3
<1>5. call'[c] = k /\ \A d \in Callers : d # c => call'[d] = call[d]
  BY <1>0, <1>4, GotoCalls
<1>6. Owes
  <2>1. \A l \in {"idle", "drain", "moving", "clear1", "clear2", "clear3"} : l \notin Due
    BY DEF Due
  <2>2. \A d \in Callers : call'[d].pc \in Due <=> call[d].pc \in Due
    BY <1>2, <1>4, <1>5, <2>1
  <2>. QED
    BY <1>0, <1>1, <1>2, <1>4, <1>5, <2>2 DEF Owes, Budget
<1>7. call'["reb"].pc = call["reb"].pc \/ (call["reb"].pc = "drain" /\ call'["reb"].pc = "moving")
  BY <1>4, <1>5
<1>. QED
  BY <1>1, <1>6, <1>7, OwesBudget

\* Nor do the runs, unfreezing and the volumes.
LEMMA CalmBudget ==
    ASSUME Typed, (\E r \in RunIds : RunShape(r)) \/ Unfreeze \/ \E v \in Vol : VolumeChanges(v)
    PROVE  Budget'
<1>0. Budget
  BY DEF Typed
<1>1. UNCHANGED <<call, rebActive, launched, starts, clock>>
  BY DEF RunShape, Unfreeze, VolumeChanges, job, bounds
<1>2. Owes
  BY <1>0, <1>1 DEF Owes, Budget
<1>3. \/ UNCHANGED <<frozen, events>>
      \/ frozen' = FALSE /\ UNCHANGED events
      \/ events' = events + 1 /\ events < MaxEvents
  <2>1. ASSUME NEW r \in RunIds, RunShape(r)
        PROVE  UNCHANGED frozen /\ (events' = events \/ (events' = events + 1 /\ events < MaxEvents))
    <3>1. frozen' = frozen /\ events' \in {events, events + 1} /\ events' \in 0..MaxEvents
      BY <2>1 DEF RunShape
    <3>2. events \in Nat
      BY <1>0 DEF Budget
    <3>. QED
      BY <3>1, <3>2
  <2>2. CASE Unfreeze
    BY <2>2 DEF Unfreeze, bounds
  <2>3. CASE \E v \in Vol : VolumeChanges(v)
    BY <2>3 DEF VolumeChanges
  <2>. QED
    BY <2>1, <2>2, <2>3
<1>. QED
  BY <1>1, <1>2, <1>3, OwesBudget

\* A rebalance owes the launch that ends it; kept by the freeze, it owes it across a boot.
LEMMA RebalanceBudget ==
    ASSUME Typed, pauseForRebalance \/ releaseForRebalance
    PROVE  Budget'
<1>0. Talk /\ Budget /\ rebActive \in BOOLEAN /\ frozen \in BOOLEAN
  BY DEF Typed, World
<1>1. UNCHANGED <<clock, launched, starts, frozen>>
  BY DEF pauseForRebalance, releaseForRebalance, bounds
<1>2. \E k : /\ goto("reb", k)
             /\ IF pauseForRebalance THEN k.pc \in {"drain", "moving"} ELSE k.pc \in {"idle", "resume"}
  <2>1. Idle.pc = "idle" /\ [Idle EXCEPT !.pc = "moving"].pc = "moving" /\ [Idle EXCEPT !.pc = "resume"].pc = "resume"
        /\ [Idle EXCEPT !.pc = "drain", !.keep = TRUE, !.run = active].pc = "drain"
    BY DEF Idle
  <2>2. CASE pauseForRebalance
    BY <2>1, <2>2 DEF pauseForRebalance
  <2>3. CASE releaseForRebalance /\ ~pauseForRebalance
    BY <2>1, <2>3 DEF releaseForRebalance, resumeEnter, leave
  <2>. QED
    BY <2>2, <2>3
<1>3. PICK k : /\ goto("reb", k)
               /\ IF pauseForRebalance THEN k.pc \in {"drain", "moving"} ELSE k.pc \in {"idle", "resume"}
  BY <1>2
<1>4. call'["reb"] = k /\ call'["user"] = call["user"] /\ call'["tick"] = call["tick"] /\ call'["freeze"] = call["freeze"]
  BY <1>0, <1>3, GotoCalls
<1>5. OwedUser' = OwedUser /\ OwedTick' = OwedTick
  BY <1>4 DEF OwedUser, OwedTick, One, Due
<1>6. PICK n \in Nat, s \in Nat, v \in Nat, w \in Nat, a \in {0, 1}, b \in {0, 1}, d \in {0, 1}, e \in {0, 1}, f \in {0, 1},
           d1 \in {0, 1}, e1 \in {0, 1}, f1 \in {0, 1} :
          /\ n = launched /\ s = starts /\ v = events /\ w = events'
          /\ a = OwedUser /\ b = OwedTick /\ d = OwedReb /\ e = OwedKept /\ f = OwedFrozen
          /\ d1 = OwedReb' /\ e1 = OwedKept' /\ f1 = OwedFrozen'
  <2>1. events' \in Nat
    <3>1. PICK z \in Nat : z = events
      BY <1>0, LaunchedBound
    <3>2. events' = z \/ events' = z + 1
      BY <3>1 DEF pauseForRebalance, releaseForRebalance, bounds
    <3>. QED
      BY <3>2
  <2>. QED
    BY <1>0, <2>1, LaunchedBound, OwedType, OwedTypeNext
<1>7. n + a + b + d + e + f <= s + v
  BY <1>0, <1>6 DEF Budget
<1>8. d1 + e1 + f1 + v <= d + e + f + w /\ w <= MaxEvents
  <2>1. CASE pauseForRebalance
    <3>1. w = v + 1 /\ w <= MaxEvents
      BY <1>0, <1>6, <2>1 DEF pauseForRebalance, Budget
    <3>2. e1 = 0 /\ f1 = 0
      <4>1. ~Kept' /\ ~frozen'
        BY <1>1, <1>3, <1>4, <2>1 DEF Kept, pauseForRebalance
      <4>. QED
        BY <1>6, <4>1 DEF OwedKept, OwedFrozen, One
    <3>. QED
      BY <3>1, <3>2
  <2>2. CASE releaseForRebalance /\ ~pauseForRebalance
    <3>0. w = v /\ v <= MaxEvents
      BY <1>0, <1>6, <2>2 DEF releaseForRebalance, bounds, Budget
    <3>1. call["reb"].pc = "moving" /\ k.pc \in {"idle", "resume"} /\ rebActive' \in {FALSE, frozen /\ rebActive}
      BY <1>3, <2>2 DEF releaseForRebalance
    <3>2. d = 1 /\ e = 0 /\ f = One(frozen)
      BY <1>6, <3>1 DEF OwedReb, OwedKept, OwedFrozen, Kept, One
    <3>3. CASE k.pc = "idle"
      <4>1. d1 = 0
        BY <1>4, <1>6, <3>3 DEF OwedReb, One, Due
      <4>2. f1 <= f
        BY <1>1, <1>6, <3>2 DEF OwedFrozen, One
      <4>. QED
        BY <3>0, <3>2, <4>1, <4>2
    <3>4. CASE k.pc = "resume" /\ rebActive'
      <4>1. frozen /\ Kept'
        BY <1>0, <1>4, <3>1, <3>4 DEF Kept
      <4>2. f = 1 /\ f1 = 0
        BY <1>4, <1>6, <3>2, <3>4, <4>1 DEF OwedFrozen, One
      <4>. QED
        BY <3>0, <3>2, <4>2
    <3>5. CASE k.pc = "resume" /\ ~rebActive'
      <4>1. ~Kept'
        BY <3>5 DEF Kept
      <4>2. e1 = 0 /\ f1 <= f
        BY <1>1, <1>6, <3>2, <4>1 DEF OwedKept, OwedFrozen, One
      <4>. QED
        BY <3>0, <3>2, <4>2
    <3>. QED
      BY <3>1, <3>3, <3>4, <3>5
  <2>. QED
    BY <2>1, <2>2
<1>9. n + a + b + d1 + e1 + f1 <= s + w
  BY <1>7, <1>8
<1>10. launched' + OwedUser' + OwedTick' + OwedReb' + OwedKept' + OwedFrozen' <= starts' + events'
  BY <1>1, <1>5, <1>6, <1>9
<1>11. starts' \in 0..MaxStarts /\ events' \in 0..MaxEvents /\ clock' \in Nat /\ launched' \in Nat
  <2>1. events' \in 0..MaxEvents
    BY <1>6, <1>8
  <2>. QED
    BY <1>0, <1>1, <2>1 DEF Budget
<1>. QED
  BY <1>0, <1>3, <1>4, <1>10, <1>11 DEF Budget

\* A boot owes a resume, and the end of the rebalance it finds.
LEMMA RestartBudget ==
    ASSUME Typed, Restart
    PROVE  Budget'
<1>0. Budget /\ rebActive \in BOOLEAN /\ frozen \in BOOLEAN
  BY DEF Typed, World
<1>1. UNCHANGED <<clock, launched, starts, frozen, rebActive>> /\ events' = events + 1 /\ events < MaxEvents
  BY DEF Restart
<1>2. /\ call'["user"].pc = "resume" /\ call'["tick"].pc = "idle" /\ call'["freeze"].pc = "idle"
      /\ call'["reb"].pc = IF rebActive THEN "moving" ELSE "idle"
  <2>1. Idle.pc = "idle" /\ [Idle EXCEPT !.pc = "moving"].pc = "moving" /\ [Idle EXCEPT !.pc = "resume"].pc = "resume"
    BY DEF Idle
  <2>2. call' = [[c \in Callers |-> Idle] EXCEPT
                    !["user"] = [Idle EXCEPT !.pc = "resume"],
                    !["reb"] = IF rebActive THEN [Idle EXCEPT !.pc = "moving"] ELSE Idle]
    BY DEF Restart
  <2>. QED
    BY <2>1, <2>2
<1>3a. PICK n \in Nat, s \in Nat, v \in Nat, a \in {0, 1}, b \in {0, 1}, d \in {0, 1}, e \in {0, 1}, f \in {0, 1} :
          /\ n = launched /\ s = starts /\ v = events
          /\ a = OwedUser /\ b = OwedTick /\ d = OwedReb /\ e = OwedKept /\ f = OwedFrozen
  BY <1>0, LaunchedBound, OwedType
<1>3b. PICK a1 \in {0, 1}, b1 \in {0, 1}, d1 \in {0, 1}, e1 \in {0, 1}, f1 \in {0, 1} :
          a1 = OwedUser' /\ b1 = OwedTick' /\ d1 = OwedReb' /\ e1 = OwedKept' /\ f1 = OwedFrozen'
  BY OwedTypeNext
<1>3. /\ n = launched /\ s = starts /\ v = events
      /\ a = OwedUser /\ b = OwedTick /\ d = OwedReb /\ e = OwedKept /\ f = OwedFrozen
      /\ a1 = OwedUser' /\ b1 = OwedTick' /\ d1 = OwedReb' /\ e1 = OwedKept' /\ f1 = OwedFrozen'
  BY <1>3a, <1>3b
<1>4. n + a + b + d + e + f <= s + v
  BY <1>0, <1>3 DEF Budget
<1>5. b1 = 0 /\ d1 = One(rebActive) /\ e1 = 0 /\ f1 <= One(frozen)
  BY <1>1, <1>2, <1>3 DEF OwedTick, OwedReb, OwedKept, OwedFrozen, Kept, One, Due
<1>6. One(rebActive) + One(frozen) <= d + e + f
  <2>1. CASE ~rebActive
    <3>1. f = One(frozen) /\ One(rebActive) = 0
      BY <1>3, <2>1 DEF OwedFrozen, Kept, One
    <3>. QED
      BY <3>1
  <2>2. CASE rebActive /\ ~Kept
    <3>1. f = One(frozen) /\ One(rebActive) = 1 /\ d = 1
      BY <1>3, <2>2 DEF OwedFrozen, OwedReb, Kept, One
    <3>. QED
      BY <3>1
  <2>3. CASE rebActive /\ Kept /\ call["reb"].pc = "resume"
    <3>1. One(frozen) <= 1 /\ One(rebActive) = 1 /\ d = 1 /\ e = 1
      BY <1>3, <2>3 DEF OwedKept, OwedReb, One, Due
    <3>2. One(frozen) \in {0, 1}
      BY DEF One
    <3>. QED
      BY <3>1, <3>2
  <2>4. CASE rebActive /\ Kept /\ call["reb"].pc # "resume"
    <3>1. f = One(frozen) /\ One(rebActive) = 1 /\ e = 1
      BY <1>3, <2>4 DEF OwedFrozen, OwedKept, One
    <3>. QED
      BY <3>1
  <2>. QED
    BY <1>0, <2>1, <2>2, <2>3, <2>4
<1>7. n + a1 + b1 + d1 + e1 + f1 <= s + (v + 1)
  <2>1. One(frozen) \in {0, 1} /\ One(rebActive) \in {0, 1}
    BY DEF One
  <2>. QED
    BY <1>4, <1>5, <1>6, <2>1
<1>8. launched' + OwedUser' + OwedTick' + OwedReb' + OwedKept' + OwedFrozen' <= starts' + events'
  BY <1>1, <1>3, <1>7
<1>9. starts' \in 0..MaxStarts /\ events' \in 0..MaxEvents /\ clock' \in Nat /\ launched' \in Nat
  BY <1>0, <1>1 DEF Budget
<1>. QED
  BY <1>2, <1>8, <1>9 DEF Budget, Due

\* The initial states have the types.
LEMMA TypedInit ==
    ASSUME Init
    PROVE  Typed
<1>1. NoRun \in RunType /\ Idle \in CallType /\ Idle.pc = "idle"
  BY Fresh DEF Init
<1>2. World
  <2>1. 0 \in 0..0 /\ 0 \in 0..NObjects
    OBVIOUS
  <2>2. NoPers \in [started : 0..0, filter : SUBSET Vol, cursor : 0..NObjects]
    BY <2>1 DEF NoPers
  <2>3. [o \in Obj |-> [v \in Vol |-> 0]] \in [Obj -> [Vol -> 0..0]]
    BY <2>1
  <2>. QED
    BY <2>1, <2>2, <2>3 DEF Init, World
<1>3. Machine /\ Talk
  BY <1>1 DEF Init, Machine, Talk
<1>4. \A c \in Callers : call[c].pc = "idle"
  BY <1>1 DEF Init
<1>5. OwedUser = 0 /\ OwedTick = 0 /\ OwedReb = 0 /\ OwedKept = 0 /\ OwedFrozen = 0
  BY <1>4 DEF Init, OwedUser, OwedTick, OwedReb, OwedKept, OwedFrozen, Kept, One,
      Due
<1>6. launched + OwedUser + OwedTick + OwedReb + OwedKept + OwedFrozen <= starts + events
  BY <1>5 DEF Init
<1>7. Budget
  BY <1>4, <1>6 DEF Init, Budget
<1>. QED
  BY <1>2, <1>3, <1>7 DEF Typed

\* Every step keeps the types and the budget.
LEMMA TypedStep ==
    ASSUME Typed, [Next]_vars
    PROVE  Typed'
<1>1. ASSUME NEW c \in Callers, StartEnter(c)
      PROVE  Typed'
  BY <1>1, TalkTyped, EnterBudget DEF Typed
<1>2. ASSUME NEW c \in Callers, CallStep(c)
      PROVE  Typed'
  <2>1. CASE \/ startGuard(c) \/ StartRead(c) \/ loadPersistedVolumeFilter(c) \/ loadPersistedCursorId(c)
             \/ persistVolumeFilter(c) \/ DropCursor(c) \/ PutStarted(c) \/ resumePendingJob(c) \/ ResumeRead(c)
    BY <2>1, TalkTyped, SpendsSteps, SpendsBudget DEF Typed
  <2>2. CASE clearPersistedRun(c)
    BY <2>2, TalkTyped, WaitsBudget DEF Typed
  <2>3. CASE StartLaunch(c) \/ ResumeLaunch(c)
    BY <2>3, LaunchStepTyped, SpendsSteps, SpendsBudget DEF Typed
  <2>4. CASE Drained(c) \/ Abandon(c)
    BY <2>4, DrainTyped, WaitsBudget DEF Typed
  <2>. QED
    BY <1>2, <2>1, <2>2, <2>3, <2>4 DEF CallStep
<1>3. ASSUME NEW r \in RunIds, RunStep(r)
      PROVE  Typed'
  BY <1>3, RunsShape, RunTyped, CalmBudget DEF Typed
<1>4. CASE stop \/ setMaintenanceFrozen
  BY <1>4, StopStepTyped, StopsBudget DEF Typed
<1>5. CASE pauseForRebalance \/ releaseForRebalance
  BY <1>5, PauseTyped, ReleaseTyped, RebalanceBudget DEF Typed
<1>6. CASE Unfreeze \/ \E v \in Vol : VolumeChanges(v)
  BY <1>6, OutsideTyped, CalmBudget DEF Typed
<1>7. CASE Restart
  BY <1>7, OutsideTyped, RestartBudget DEF Typed
<1>8. CASE UNCHANGED vars
  <2>1. UNCHANGED <<pers, rebActive, frozen, stamp, last, active, filter, guard, blocked, waiting, runs,
                    call, up, steady, lost, tangled, clock, launched, starts, events>>
    BY <1>8 DEF vars, job, bounds
  <2>2. World' /\ Machine' /\ Talk'
    BY <2>1 DEF Typed, World, Machine, Talk, RunType, CallType
  <2>3. Budget'
    BY <2>1 DEF Typed, Budget, OwedUser, OwedTick, OwedReb, OwedKept, OwedFrozen,
        Kept
  <2>. QED
    BY <2>2, <2>3 DEF Typed
<1>. QED
  BY <1>1, <1>2, <1>3, <1>4, <1>5, <1>6, <1>7, <1>8 DEF Next

\* What a step of a run does to the job: it ends the run and clears the job if it
\* was the run's, or it leaves the job alone and the run as cancelled as it was.
RunKeeps(r) ==
    \/ Step(r, NoRun) /\ Settle(r)
    \/ /\ runs[r].pc # "done" /\ UNCHANGED <<active, filter>>
       /\ Step(r, runs'[r]) /\ runs'[r].cancelled = runs[r].cancelled

\* Every step of a run does that.
LEMMA RunsKeep ==
    ASSUME Typed, NEW r \in RunIds, RunStep(r)
    PROVE  RunKeeps(r) /\ UNCHANGED call
<1>1. UNCHANGED call
  BY RunsShape DEF RunShape
<1>2. runs[r] \in RunType /\ r \in DOMAIN runs
  BY DEF Typed, Machine
<1>. PICK run : run = runs[r]
  OBVIOUS
<1>0. ASSUME NEW rec, Step(r, rec), rec.cancelled = run.cancelled, runs[r].pc # "done", UNCHANGED <<active, filter>>
      PROVE  RunKeeps(r)
  <2>1. runs'[r] = rec
    BY <1>0, <1>2 DEF Step
  <2>2. Step(r, runs'[r]) /\ runs'[r].cancelled = runs[r].cancelled
    BY <1>0, <2>1
  <2>. QED
    BY <1>0, <2>2 DEF RunKeeps
<1>3. CASE execute(r)
  <2>1. /\ [run EXCEPT !.pc = "fin1"].cancelled = run.cancelled
        /\ \A B, t, a, b : [run EXCEPT !.pc = "verify", !.batch = B, !.top = t, !.todo = a, !.done = b].cancelled
                               = run.cancelled
    BY <1>2 DEF RunType
  <2>2. CASE run.cancelled \/ frozen
    BY <1>3, <2>2 DEF execute, RunKeeps
  <2>3. CASE ~(run.cancelled \/ frozen)
    <3>1. /\ UNCHANGED <<active, filter>> /\ runs[r].pc = "batch"
          /\ \/ Step(r, [run EXCEPT !.pc = "fin1"])
             \/ \E B, t, a, b : Step(r, [run EXCEPT !.pc = "verify", !.batch = B, !.top = t, !.todo = a, !.done = b])
      BY <1>3, <2>3, Zenon DEF execute
    <3>2. PICK rec : runs' = [runs EXCEPT ![r] = rec] /\ rec.cancelled = run.cancelled
      <4>1. CASE Step(r, [run EXCEPT !.pc = "fin1"])
        BY <2>1, <4>1 DEF Step
      <4>2. CASE \E B, t, a, b : Step(r, [run EXCEPT !.pc = "verify", !.batch = B, !.top = t, !.todo = a, !.done = b])
        <5>1. PICK B, t, a, b : Step(r, [run EXCEPT !.pc = "verify", !.batch = B, !.top = t, !.todo = a, !.done = b])
          BY <4>2
        <5>2. PICK rec : rec = [run EXCEPT !.pc = "verify", !.batch = B, !.top = t, !.todo = a, !.done = b]
          OBVIOUS
        <5>3. rec.cancelled = run.cancelled
          BY <2>1, <5>2
        <5>. QED
          BY <5>1, <5>2, <5>3 DEF Step
      <4>. QED
        BY <3>1, <4>1, <4>2
    <3>3. Step(r, rec) /\ runs[r].pc # "done"
      BY <3>1, <3>2 DEF Step
    <3>. QED
      BY <1>0, <1>1, <3>1, <3>2, <3>3
  <2>. QED
    BY <2>2, <2>3
<1>4. CASE advanceCursor(r)
  <2>1. [run EXCEPT !.pc = "batch", !.cursor = run.top].cancelled = run.cancelled
    BY <1>2 DEF RunType
  <2>. QED
    BY <1>0, <1>4, <2>1 DEF advanceCursor, RunKeeps
<1>5. CASE finalize(r)
  <2>1. [run EXCEPT !.pc = "fin2"].cancelled = run.cancelled /\ [run EXCEPT !.pc = "fin3"].cancelled = run.cancelled
    BY <1>2 DEF RunType
  <2>. QED
    BY <1>0, <1>5, <2>1 DEF finalize, RunKeeps
<1>6. CASE \E o \in Obj : verifySlice(r, o) \/ updateObjectVerificationState(r, o) \/ LoadFails(r, o)
  <2>1. runs[r].pc = "verify" /\ UNCHANGED <<active, filter>>
    BY <1>6 DEF verifySlice, updateObjectVerificationState, LoadFails
  <2>2. \E rec : runs' = [runs EXCEPT ![r] = rec] /\ rec.cancelled = run.cancelled
    <3>1. PICK o \in Obj : verifySlice(r, o) \/ updateObjectVerificationState(r, o) \/ LoadFails(r, o)
      BY <1>6
    <3>2. CASE verifySlice(r, o)
      <4>. DEFINE rec == [run EXCEPT !.todo[o] = @ \ {Min(run.todo[o])},
                                     !.done[o] = IF Min(run.todo[o]) \in verifiable
                                                 THEN @ \cup {Min(run.todo[o])} ELSE @]
      <4>1. Step(r, rec)
        BY <3>2 DEF verifySlice
      <4>2. rec.cancelled = run.cancelled
        BY <1>2 DEF RunType
      <4>. HIDE DEF rec
      <4>. QED
        BY <4>1, <4>2 DEF Step
    <3>3. CASE updateObjectVerificationState(r, o) \/ LoadFails(r, o)
      <4>1. Step(r, [run EXCEPT !.batch = @ \ {o}])
        BY <3>3 DEF updateObjectVerificationState, LoadFails
      <4>2. [run EXCEPT !.batch = @ \ {o}].cancelled = run.cancelled
        BY <1>2 DEF RunType
      <4>. QED
        BY <4>1, <4>2 DEF Step
    <3>. QED
      BY <3>1, <3>2, <3>3
  <2>3. PICK rec : runs' = [runs EXCEPT ![r] = rec] /\ rec.cancelled = run.cancelled
    BY <2>2
  <2>4. Step(r, rec) /\ runs[r].pc # "done"
    BY <2>1, <2>3 DEF Step
  <2>. QED
    BY <1>0, <1>1, <2>1, <2>3, <2>4
<1>. QED
  BY <1>1, <1>3, <1>4, <1>5, <1>6 DEF RunStep

\* A step of a caller moves that caller.
LEMMA CallsGoto ==
    ASSUME Typed, NEW c \in Callers, StartEnter(c) \/ CallStep(c)
    PROVE  \E k : goto(c, k)
BY DEF StartEnter, CallStep, startGuard, StartRead, loadPersistedVolumeFilter,
    loadPersistedCursorId,
       persistVolumeFilter, DropCursor, PutStarted, StartLaunch, resumePendingJob,
           ResumeRead, ResumeLaunch,
       Drained, Abandon, clearPersistedRun, AfterDrain, leave

\* One run at most is at work, and what a waiting caller waits for is cancelled.
LEMMA OwnedStep ==
    ASSUME Typed, Typed', Owned, OneOwner, [Next]_vars
    PROVE  Owned' /\ OneOwner'
<1>0. /\ runs \in [RunIds -> RunType] /\ active \in 0..launched /\ Talk /\ launched \in Nat
      /\ \A r \in RunIds : runs[r].cancelled \in BOOLEAN
  BY LaunchedBound DEF Typed, Machine, RunType
<1>1. ASSUME UNCHANGED <<runs, active>>,
             \A d \in Callers : call'[d].pc = "drain" => call'[d] = call[d]
      PROVE  Owned' /\ OneOwner'
  BY <1>1 DEF Owned, OneOwner
<1>2. ASSUME NEW r \in RunIds, RunStep(r)
      PROVE  Owned' /\ OneOwner'
  <2>0. RunKeeps(r) /\ UNCHANGED call /\ active' \in {None, active}
    BY <1>2, RunsKeep DEF RunKeeps, Settle
  <2>1. /\ \A q \in RunIds \ {r} : runs'[q] = runs[q]
        /\ runs[r].cancelled => runs'[r].cancelled
    BY <1>0, <2>0, Fresh, LaunchedBound DEF RunKeeps, Step, Typed
  <2>2. Owned'
    BY <1>0, <2>0, <2>1 DEF Owned
  <2>3. CASE Step(r, NoRun) /\ Settle(r)
    <3>1. runs'[r].pc = "done"
      BY <1>0, <2>3, LaunchedBound, Fresh DEF Step, Typed
    <3>2. active' = active \/ active = r
      BY <2>3 DEF Settle
    <3>. QED
      BY <2>1, <2>2, <3>1, <3>2 DEF OneOwner
  <2>4. CASE ~(Step(r, NoRun) /\ Settle(r))
    <3>2. runs[r].pc # "done" /\ active' = active /\ runs'[r].cancelled = runs[r].cancelled
      BY <2>0, <2>4 DEF RunKeeps
    <3>. QED
      BY <2>1, <2>2, <3>2 DEF OneOwner
  <2>. QED
    BY <2>3, <2>4
<1>3. ASSUME CancelRun(active), active' = active, NEW c \in Callers, NEW k, goto(c, k),
             k.pc = "drain" => k.run = active
      PROVE  Owned' /\ OneOwner'
  <2>1. /\ active \in RunIds /\ \A q \in RunIds \ {active} : runs'[q] = runs[q]
        /\ runs'[active] = [runs[active] EXCEPT !.cancelled = TRUE]
    BY <1>0, <1>3 DEF CancelRun
  <2>2. runs'[active].cancelled
    BY <1>0, <2>1 DEF RunType
  <2>3. call'[c] = k /\ \A d \in Callers : d # c => call'[d] = call[d]
    BY <1>0, <1>3, GotoCalls
  <2>4. \A q \in RunIds : (runs[q].cancelled => runs'[q].cancelled) /\ (q # active => runs'[q] = runs[q])
    BY <2>1, <2>2
  <2>5. Owned'
    <3>1. ASSUME NEW d \in Callers, call'[d].pc = "drain"
          PROVE  call'[d].run \in RunIds /\ runs'[call'[d].run].cancelled
      <4>1. CASE d = c
        <5>1. call'[d].run = active
          BY <1>3, <2>3, <3>1, <4>1
        <5>. QED
          BY <2>1, <2>2, <5>1
      <4>2. CASE d # c
        <5>1. call'[d] = call[d]
          BY <2>3, <4>2
        <5>2. call[d].run \in RunIds /\ runs[call[d].run].cancelled
          BY <3>1, <5>1 DEF Owned
        <5>. QED
          BY <2>4, <5>1, <5>2
      <4>. QED
        BY <4>1, <4>2
    <3>. QED
      BY <3>1 DEF Owned
  <2>6. OneOwner'
    BY <1>3, <2>2, <2>4 DEF OneOwner
  <2>. QED
    BY <2>5, <2>6
<1>4. CASE \E c \in Callers : StartLaunch(c) \/ ResumeLaunch(c)
  <2>0. PICK c \in Callers : StartLaunch(c) \/ ResumeLaunch(c)
    BY <1>4
  <2>1. goto(c, Idle) /\ Idle.pc = "idle"
    BY <2>0, LaunchedBound, Fresh DEF StartLaunch, ResumeLaunch, leave, Typed
  <2>2. call'[c] = Idle /\ \A d \in Callers : d # c => call'[d] = call[d]
    BY <1>0, <2>1, GotoCalls
  <2>3. CASE UNCHANGED <<runs, active>>
    BY <1>1, <2>1, <2>2, <2>3
  <2>4. CASE ~UNCHANGED <<runs, active>>
    <3>1. /\ active = None /\ active' = launched + 1
          /\ \E st, cur : runs' = [runs EXCEPT ![launched + 1] =
                             [NoRun EXCEPT !.pc = "batch", !.cancelled = FALSE, !.st = st, !.cursor = cur]]
      BY <2>0, <2>4 DEF StartLaunch, ResumeLaunch, launch, isRunning
    <3>2. \A q \in RunIds : q # launched + 1 => runs'[q] = runs[q]
      BY <1>0, <3>1
    <3>3. \A d \in Callers : call'[d].pc = "drain" => call'[d] = call[d] /\ call[d].run \in 0..launched
      BY <1>0, <2>1, <2>2 DEF Talk, CallType
    <3>4. Owned'
      BY <1>0, <3>2, <3>3 DEF Owned
    <3>5. OneOwner'
      BY <3>1, <3>2 DEF OneOwner
    <3>. QED
      BY <3>4, <3>5
  <2>. QED
    BY <2>3, <2>4
<1>5. CASE \E c \in Callers : Drained(c) \/ Abandon(c)
  <2>0. PICK c \in Callers : Drained(c) \/ Abandon(c)
    BY <1>5
  <2>1. runs' = runs /\ call[c].pc = "drain" /\ AfterDrain(c)
    BY <2>0 DEF Drained, Abandon
  <2>2. \E k : goto(c, k) /\ k.pc # "drain"
    <3>1. Idle.pc = "idle" /\ [Idle EXCEPT !.pc = "moving"].pc = "moving" /\ [call[c] EXCEPT !.pc = "clear1"].pc = "clear1"
      BY <1>0 DEF Idle, Talk, CallType
    <3>. QED
      BY <2>1, <3>1 DEF AfterDrain
  <2>3. \A d \in Callers : call'[d].pc = "drain" => call'[d] = call[d]
    BY <1>0, <2>2, GotoCalls
  <2>4. Owned'
    BY <2>1, <2>3 DEF Owned
  <2>5. OneOwner'
    <3>1. active' = active \/ (active = call[c].run /\ active' = None)
      BY <2>0 DEF Drained, Abandon, Settle
    <3>2. call[c].run \in RunIds /\ runs[call[c].run].cancelled
      BY <2>1 DEF Owned
    <3>. QED
      BY <2>1, <3>1, <3>2 DEF OneOwner
  <2>. QED
    BY <2>4, <2>5
<1>6. CASE \E c \in Callers : StartEnter(c) \/ startGuard(c) \/ StartRead(c) \/ loadPersistedVolumeFilter(c)
            \/ loadPersistedCursorId(c) \/ persistVolumeFilter(c) \/ DropCursor(c) \/ PutStarted(c)
            \/ resumePendingJob(c) \/ ResumeRead(c)
  <2>0. PICK c \in Callers : StartEnter(c) \/ startGuard(c) \/ StartRead(c) \/ loadPersistedVolumeFilter(c)
            \/ loadPersistedCursorId(c) \/ persistVolumeFilter(c) \/ DropCursor(c) \/ PutStarted(c)
            \/ resumePendingJob(c) \/ ResumeRead(c)
    BY <1>6
  <2>1. UNCHANGED <<runs, active>>
    BY <2>0 DEF StartEnter, startGuard, StartRead, loadPersistedVolumeFilter,
        loadPersistedCursorId,
       persistVolumeFilter, DropCursor, PutStarted, resumePendingJob, ResumeRead,
           job
  <2>2. \A d \in Callers : d # c => call'[d] = call[d]
    BY <1>0, <2>0, CallsGoto, GotoCalls DEF CallStep
  <2>3. call'[c].pc # "drain"
    <3>1. CASE StartEnter(c)
      <4>1. PICK f : goto(c, [Idle EXCEPT !.pc = "guard", !.want = f])
        BY <3>1 DEF StartEnter
      <4>2. [Idle EXCEPT !.pc = "guard", !.want = f].pc = "guard"
        BY DEF Idle
      <4>. QED
        BY <1>0, <4>1, <4>2, GotoCalls
    <3>2. CASE ~StartEnter(c)
      BY <2>0, <3>2, SpendsSteps DEF Spends, Due
    <3>. QED
      BY <3>1, <3>2
  <2>. QED
    BY <1>1, <2>1, <2>2, <2>3
<1>7. CASE \E c \in Callers : clearPersistedRun(c)
  <2>0. PICK c \in Callers : clearPersistedRun(c)
    BY <1>7
  <2>1. UNCHANGED <<runs, active>>
    BY <2>0 DEF clearPersistedRun, job
  <2>2. \E k : goto(c, k) /\ k.pc # "drain"
    <3>1. Idle.pc = "idle" /\ [call[c] EXCEPT !.pc = "clear2"].pc = "clear2" /\ [call[c] EXCEPT !.pc = "clear3"].pc = "clear3"
      BY <1>0 DEF Idle, Talk, CallType
    <3>. QED
      BY <2>0, <3>1 DEF clearPersistedRun, leave
  <2>. QED
    BY <1>0, <1>1, <2>1, <2>2, GotoCalls
<1>8. CASE stop \/ setMaintenanceFrozen \/ pauseForRebalance
  <2>0. active' = active /\ (active # None => active \in RunIds)
    <3>1. launched <= MaxStarts + MaxEvents
      BY LaunchedBound DEF Typed
    <3>2. active' = active
      BY <1>8 DEF stop, setMaintenanceFrozen, pauseForRebalance
    <3>. QED
      BY <1>0, <3>1, <3>2
  <2>1. \A x : [Idle EXCEPT !.pc = "drain", !.keep = x, !.run = active].run = active
    BY DEF Idle
  <2>2. CASE isRunning
    <3>1. CancelRun(active)
      BY <1>8, <2>0, <2>2 DEF stop, setMaintenanceFrozen, pauseForRebalance,
          stopEnter, isRunning, CancelRun
    <3>2. \E c \in Callers : \E k : goto(c, k) /\ k.run = active
      BY <1>8, <2>1, <2>2 DEF stop, setMaintenanceFrozen, pauseForRebalance,
          stopEnter
    <3>. QED
      BY <1>3, <2>0, <3>1, <3>2
  <2>3. CASE ~isRunning
    <3>1. UNCHANGED runs
      BY <1>8, <2>3 DEF stop, setMaintenanceFrozen, pauseForRebalance, stopEnter
    <3>2. \E c \in Callers : \E k : goto(c, k) /\ k.pc # "drain"
      <4>1. Idle.pc = "idle" /\ [Idle EXCEPT !.pc = "clear1"].pc = "clear1" /\ [Idle EXCEPT !.pc = "moving"].pc = "moving"
        BY DEF Idle
      <4>. QED
        BY <1>8, <2>3, <4>1 DEF stop, setMaintenanceFrozen, pauseForRebalance,
            stopEnter, leave
    <3>. QED
      BY <1>0, <1>1, <2>0, <3>1, <3>2, GotoCalls
  <2>. QED
    BY <2>2, <2>3
<1>9. CASE releaseForRebalance
  <2>1. UNCHANGED <<runs, active>>
    BY <1>9 DEF releaseForRebalance
  <2>2. \E k : goto("reb", k) /\ k.pc # "drain"
    <3>1. Idle.pc = "idle" /\ [Idle EXCEPT !.pc = "resume"].pc = "resume"
      BY DEF Idle
    <3>. QED
      BY <1>9, <3>1 DEF releaseForRebalance, resumeEnter, leave
  <2>. QED
    BY <1>0, <1>1, <2>1, <2>2, GotoCalls
<1>10. CASE Unfreeze \/ (\E v \in Vol : VolumeChanges(v)) \/ UNCHANGED vars
  BY <1>1, <1>10 DEF Unfreeze, VolumeChanges, vars, job
<1>11. CASE Restart
  <2>1. \A r \in RunIds : runs'[r].pc = "done"
    BY <1>11, LaunchedBound, Fresh DEF Restart, Typed
  <2>2. \A c \in Callers : call'[c].pc # "drain"
    <3>1. Idle.pc = "idle" /\ [Idle EXCEPT !.pc = "moving"].pc = "moving" /\ [Idle EXCEPT !.pc = "resume"].pc = "resume"
      BY DEF Idle
    <3>2. call' = [[c \in Callers |-> Idle] EXCEPT
                    !["user"] = [Idle EXCEPT !.pc = "resume"],
                    !["reb"] = IF rebActive THEN [Idle EXCEPT !.pc = "moving"] ELSE Idle]
      BY <1>11 DEF Restart
    <3>. QED
      BY <3>1, <3>2
  <2>. QED
    BY <2>1, <2>2 DEF Owned, OneOwner
<1>. QED
  BY <1>2, <1>4, <1>5, <1>6, <1>7, <1>8, <1>9, <1>10, <1>11 DEF Next, CallStep

\* What the last run to start is through with stays so, as long as no volume
\* comes back into service and no stamp is taken away.
Tide ==
    /\ steady' \subseteq steady /\ lost \subseteq lost' /\ UNCHANGED clock
    /\ \A o \in Obj, v \in Vol : stamp'[o][v] >= stamp[o][v]

\* Then Passed only grows.
LEMMA PassedKept ==
    ASSUME Typed, Typed', Tide
    PROVE  /\ \A f \in SUBSET Vol : Passed[f] \subseteq Passed'[f]
           /\ clock \in Nat
<1>1. clock \in Nat
  BY LaunchedBound DEF Typed
<1>2. ASSUME NEW f \in SUBSET Vol, NEW o \in Obj, Through(o, clock, f)
      PROVE  Through(o, clock, f)'
  <2>1. CASE o \in lost
    BY <2>1 DEF Through, Tide
  <2>2. CASE \A v \in SlicesOf[o] \cap f \cap steady : stamp[o][v] >= clock
    <3>1. ASSUME NEW v \in SlicesOf[o] \cap f \cap steady'
          PROVE  stamp'[o][v] >= clock'
      <4>1. stamp[o][v] >= clock /\ stamp'[o][v] >= stamp[o][v] /\ clock' = clock
        BY <2>2 DEF Tide
      <4>2. stamp[o][v] \in 0..clock /\ stamp'[o][v] \in 0..clock'
        BY DEF Typed, World
      <4>3. PICK a \in Int, b \in Int, n \in Nat : a = stamp[o][v] /\ b = stamp'[o][v] /\ n = clock /\ n = clock'
        BY <1>1, <4>1, <4>2
      <4>. QED
        BY <4>1, <4>3
    <3>. QED
      BY <3>1 DEF Through
  <2>. QED
    BY <1>2, <2>1, <2>2 DEF Through
<1>3. ASSUME NEW f \in SUBSET Vol, NEW o \in Passed[f]
      PROVE  o \in Passed'[f]
  <2>1. o \in Obj /\ Through(o, clock, f)
    BY DEF Passed
  <2>2. Through(o, clock, f)'
    BY <1>2, <2>1
  <2>3. Passed' = [g \in SUBSET Vol |-> {p \in Obj : Through(p, clock, g)'}]
    BY DEF Passed
  <2>. QED
    BY <2>1, <2>2, <2>3
<1>. QED
  BY <1>1, <1>3

\* A caller outside of the checkpoint relies on nothing.
Outside == {"idle", "guard", "resume", "moving", "drain", "clear1", "resumeGet"}

\* So it is sound.
LEMMA OutsideSound ==
    ASSUME NEW k, k.pc \in Outside
    PROVE  CallSound(k) /\ CallSound(k)'
  BY DEF CallSound, Outside, Starting

\* A caller is in the checkpoint or outside.
LEMMA NotInside ==
    ASSUME Typed, NEW c \in Callers, ~InCheckpoint(call[c])
    PROVE  call[c].pc \in Outside
  BY DEF Typed, Talk, CallType, InCheckpoint, Outside, Due

\* Who enters the checkpoint is alone there, or the histories are tangled.
LEMMA GotoApart ==
    ASSUME Typed, Typed', Orderly, ~tangled, ~tangled', NEW c \in Callers, NEW k, goto(c, k)
    PROVE  /\ Apart'
           /\ call'[c] = k /\ \A d \in Callers : d # c => call'[d] = call[d]
<1>1. call'[c] = k /\ \A d \in Callers : d # c => call'[d] = call[d]
  BY GotoCalls DEF Typed
<1>2. InCheckpoint(k) => \A d \in Callers : d # c => ~InCheckpoint(call[d])
  BY DEF goto
<1>3. ASSUME NEW a \in Callers, NEW b \in Callers, InCheckpoint(call[a])', InCheckpoint(call[b])'
      PROVE  a = b
  <2>1. /\ a = c => InCheckpoint(k)
        /\ b = c => InCheckpoint(k)
        /\ a # c => InCheckpoint(call[a])
        /\ b # c => InCheckpoint(call[b])
    BY <1>1, <1>3 DEF InCheckpoint
  <2>. QED
    BY <1>2, <2>1 DEF Orderly, Apart
<1>4. Apart'
  BY <1>3 DEF Apart
<1>. QED
  BY <1>1, <1>4

\* What a caller relies on stays, if neither the checkpoint nor the runs are touched.
LEMMA CallKept ==
    ASSUME Typed, Typed', Tide, UNCHANGED pers, NEW k \in CallType, CallSound(k),
           active = None => active' = None,
           \A r \in RunIds : Live(r)' => Live(r) /\ runs'[r].pc = runs[r].pc
    PROVE  CallSound(k)'
<1>1. \A f \in SUBSET Vol : Passed[f] \subseteq Passed'[f]
  BY PassedKept
<1>2. /\ pers.filter \in SUBSET Vol /\ k.filter \in SUBSET Vol /\ clock' = clock /\ pers' = pers
  BY DEF Typed, World, CallType, Tide
<1>3. /\ Past(pers.cursor, pers.filter) => Past(pers.cursor, pers.filter)'
      /\ Past(pers.cursor, k.filter) => Past(pers.cursor, k.filter)'
      /\ Past(k.cursor, k.filter) => Past(k.cursor, k.filter)'
  BY <1>1, <1>2 DEF Past
<1>. HIDE DEF Past
<1>4. /\ k.pc \in Starting => active' = None
      /\ k.pc \in {"getFilter", "getCursor", "join", "fresh"} => pers'.started = clock' /\ clock' # None
      /\ k.pc \in {"getFilter", "getCursor", "join", "fresh", "resumeFilter", "resumeCursor", "relaunch"} => k.ex = clock'
      /\ k.pc \in {"putFilter", "dropCursor", "putStarted", "clear2", "clear3"} => pers'.started = None
      /\ k.pc \in {"dropCursor", "putStarted", "fresh"} => pers'.filter = k.want
      /\ k.pc \in {"putStarted", "fresh"} => pers'.cursor = None
      /\ k.pc \in {"getCursor", "join", "resumeCursor", "relaunch"} => pers'.started = None \/ k.filter = pers'.filter
  BY <1>2 DEF CallSound
<1>5. /\ k.pc = "resumeFilter" => Past(pers.cursor, pers.filter)'
      /\ k.pc = "resumeCursor" => Past(pers.cursor, k.filter)'
      /\ k.pc \in {"join", "relaunch"} => Past(k.cursor, k.filter)'
  BY <1>3 DEF CallSound
<1>6. k.pc \in {"resumeFilter", "resumeCursor", "relaunch"} /\ pers'.started = None =>
          \A r \in RunIds : Live(r)' => runs'[r].pc \in {"fin2", "fin3"}
  BY <1>2 DEF CallSound
<1>. QED
  BY <1>4, <1>5, <1>6 DEF CallSound

\* A run that does not move stays sound, if the checkpoint is left alone.
LEMMA RunKept ==
    ASSUME Typed, Typed', Tide, UNCHANGED <<pers, active, filter>>, NEW r \in RunIds, RunSound(r),
           \A x \in {"pc", "st", "cursor", "top", "batch", "todo", "done"} : runs'[r][x] = runs[r][x]
    PROVE  RunSound(r)'
<1>1. \A f \in SUBSET Vol : Passed[f] \subseteq Passed'[f]
  BY PassedKept
<1>2. /\ filter \in SUBSET Vol /\ clock' = clock /\ pers' = pers /\ filter' = filter /\ active' = active
      /\ steady' \subseteq steady
  BY DEF Typed, World, Tide
<1>3. /\ runs'[r].pc = runs[r].pc /\ runs'[r].st = runs[r].st /\ runs'[r].cursor = runs[r].cursor
      /\ runs'[r].top = runs[r].top /\ runs'[r].batch = runs[r].batch /\ runs'[r].todo = runs[r].todo
      /\ runs'[r].done = runs[r].done
  BY Zenon
<1>4. Passed[filter] \subseteq Passed'[filter']
  BY <1>1, <1>2
<1>5. /\ active' = r /\ runs'[r].st = clock'
      /\ pers'.started # None => filter' = pers'.filter
      /\ Past(runs[r].cursor, filter)'
      /\ runs'[r].pc \in {"fin1", "fin2", "fin3"} => Past(NObjects, filter)'
      /\ runs'[r].pc \in {"fin2", "fin3"} => pers'.started = None
  BY <1>2, <1>3, <1>4 DEF RunSound, Past
<1>6. runs'[r].pc = "verify" =>
          /\ 1..(runs'[r].top) \subseteq runs'[r].batch \cup Passed'[filter']
          /\ \A o \in runs'[r].batch : SlicesOf[o] \cap filter' \cap steady' \subseteq runs'[r].todo[o] \cup runs'[r].done[o]
  BY <1>2, <1>3, <1>4 DEF RunSound
<1>. QED
  BY <1>5, <1>6 DEF RunSound

\* A step that leaves the checkpoint alone and moves no live run.
QuietRuns ==
    /\ Tide /\ UNCHANGED pers /\ (active = None => active' = None)
    /\ \A r \in RunIds : Live(r)' =>
          /\ Live(r)
          /\ \A x \in {"pc", "st", "cursor", "top", "batch", "todo", "done"} : runs'[r][x] = runs[r][x]
          /\ active = r => active' = active /\ filter' = filter

\* It keeps the histories orderly, if the callers come out sound.
LEMMA QuietSound ==
    ASSUME Typed, Typed', Orderly, QuietRuns,
           \/ Apart' /\ \A c \in Callers : call'[c] = call[c] \/ CallSound(call[c])'
    PROVE  Orderly'
<1>1. /\ Tide /\ pers' = pers /\ clock' = clock
      /\ \A f \in SUBSET Vol : Passed[f] \subseteq Passed'[f]
      /\ pers.filter \in SUBSET Vol /\ \A c \in Callers : call[c] \in CallType
  BY PassedKept DEF QuietRuns, Tide, Typed, World, Talk
<1>2. Resumable'
  <2>1. pers'.started \in {None, clock'}
    BY <1>1 DEF Orderly, Resumable
  <2>2. pers'.started # None => Past(pers.cursor, pers.filter)'
    BY <1>1 DEF Orderly, Resumable, Past
  <2>. QED
    BY <2>1, <2>2 DEF Resumable
<1>3. ASSUME NEW r \in RunIds, Live(r)'
      PROVE  RunSound(r)'
  <2>1. Live(r) /\ \A x \in {"pc", "st", "cursor", "top", "batch", "todo", "done"} : runs'[r][x] = runs[r][x]
    BY <1>3 DEF QuietRuns
  <2>2. RunSound(r)
    BY <2>1 DEF Orderly
  <2>3. UNCHANGED <<pers, active, filter>>
    BY <1>1, <1>3, <2>2 DEF QuietRuns, RunSound
  <2>. QED
    BY <1>1, <2>1, <2>2, <2>3, RunKept
<1>4. ASSUME NEW c \in Callers
      PROVE  CallSound(call[c])'
  <2>1. CASE CallSound(call[c])'
    BY <2>1
  <2>2. CASE call'[c] = call[c]
    <3>. PICK k : k = call[c]
      OBVIOUS
    <3>1. k \in CallType /\ CallSound(k)
      BY <1>1 DEF Orderly
    <3>2. \A r \in RunIds : Live(r)' => Live(r) /\ runs'[r].pc = runs[r].pc
      BY DEF QuietRuns
    <3>3. CallSound(k)'
      BY <1>1, <3>1, <3>2, CallKept DEF QuietRuns
    <3>. QED
      BY <2>2, <3>3 DEF CallSound
  <2>. QED
    BY <2>1, <2>2
<1>. QED
  BY <1>2, <1>3, <1>4 DEF Orderly

\* Such a step by a caller: it comes out sound, the others have not moved.
LEMMA QuietGoto ==
    ASSUME Typed, Typed', Orderly, ~tangled, ~tangled', QuietRuns, NEW c \in Callers, NEW k, goto(c, k), CallSound(k)'
    PROVE  Orderly'
<1>1. /\ Apart'
      /\ call'[c] = k /\ \A d \in Callers : d # c => call'[d] = call[d]
  BY GotoApart
<1>2. CallSound(call[c])'
  BY <1>1 DEF CallSound
<1>. QED
  BY <1>1, <1>2, QuietSound

\* Nothing but callers moves: no run, no stamp, not the checkpoint.
Still == UNCHANGED <<pers, active, filter, runs, stamp, lost, steady, clock>>

\* Stamps, losses and clock stay, and no volume comes back.
LEMMA TideStill ==
    ASSUME Typed, UNCHANGED <<stamp, lost, clock>>, steady' \subseteq steady
    PROVE  Tide
<1>1. ASSUME NEW o \in Obj, NEW v \in Vol
      PROVE  stamp'[o][v] >= stamp[o][v]
  <2>1. stamp[o][v] \in 0..clock /\ clock \in Nat /\ stamp' = stamp
    BY LaunchedBound DEF Typed, World
  <2>2. PICK a \in Int : a = stamp[o][v] /\ a = stamp'[o][v]
    BY <2>1
  <2>. QED
    BY <2>2
<1>. QED
  BY <1>1 DEF Tide

\* Such a step is quiet.
LEMMA StillQuiet ==
    ASSUME Typed, Still
    PROVE  QuietRuns
<1>2. Tide
  BY TideStill DEF Still
<1>3. \A r \in RunIds : Live(r)' <=> Live(r)
  BY DEF Still, Live
<1>. QED
  BY <1>2, <1>3 DEF QuietRuns, Still

\* A caller reads, waits, passes a guard or gives up.
LEMMA ReadSound ==
    ASSUME Typed, Typed', Orderly, ~tangled, ~tangled', Still, NEW c \in Callers, NEW k, goto(c, k), CallSound(k)
    PROVE  Orderly'
<1>1. CallSound(k)'
  <2>1. Passed' = Passed /\ pers' = pers /\ active' = active /\ clock' = clock /\ runs' = runs
    BY DEF Still, Passed, Through
  <2>2. \A r \in RunIds : Live(r)' <=> Live(r)
    BY <2>1 DEF Live
  <2>. QED
    BY <2>1, <2>2 DEF CallSound, Past
<1>. QED
  BY <1>1, StillQuiet, QuietGoto

\* The steps of the callers that only read, or take and give back the guard.
LEMMA ReadsSound ==
    ASSUME Typed, Typed', Orderly, ~tangled, ~tangled', NEW c \in Callers,
           \/ StartEnter(c) \/ startGuard(c) \/ StartRead(c) \/ loadPersistedVolumeFilter(c)
           \/ loadPersistedCursorId(c) \/ resumePendingJob(c) \/ ResumeRead(c)
    PROVE  Orderly'
<1>1. Still
  BY DEF StartEnter, startGuard, StartRead, loadPersistedVolumeFilter,
      loadPersistedCursorId, resumePendingJob,
         ResumeRead, Still, job, bounds
<1>. PICK k : k = call[c]
  OBVIOUS
<1>2. k \in CallType /\ CallSound(k) /\ Idle.pc = "idle"
  BY DEF Orderly, Typed, Talk, Idle
<1>3. CallSound(Idle)
  BY <1>2, OutsideSound DEF Outside
<1>4. ASSUME NEW l, goto(c, l), CallSound(l)
      PROVE  Orderly'
  BY <1>1, <1>4, ReadSound
<1>5. CASE StartEnter(c)
  <2>1. PICK f : goto(c, [Idle EXCEPT !.pc = "guard", !.want = f])
    BY <1>5 DEF StartEnter
  <2>2. PICK l : l = [Idle EXCEPT !.pc = "guard", !.want = f]
    OBVIOUS
  <2>3. l.pc = "guard"
    BY <2>2 DEF Idle
  <2>4. CallSound(l)
    BY <2>3, OutsideSound DEF Outside
  <2>. QED
    BY <1>4, <2>1, <2>2, <2>4
<1>6. CASE startGuard(c)
  <2>1. CASE leave(c)
    BY <1>3, <1>4, <2>1 DEF leave
  <2>2. CASE ~leave(c)
    <3>1. active = None /\ goto(c, [k EXCEPT !.pc = "get"])
      BY <1>6, <2>2 DEF startGuard, isRunning
    <3>2. PICK l : l = [k EXCEPT !.pc = "get"]
      OBVIOUS
    <3>3. l.pc = "get"
      BY <1>2, <3>2 DEF CallType
    <3>4. CallSound(l)
      BY <3>1, <3>3 DEF CallSound
    <3>. QED
      BY <1>4, <3>1, <3>2, <3>4
  <2>. QED
    BY <2>1, <2>2
<1>7. CASE StartRead(c)
  <2>0. k.pc = "get" /\ active = None /\ pers.started \in {None, clock}
    BY <1>2, <1>7 DEF StartRead, CallSound, Starting, Orderly, Resumable
  <2>1. PICK l : l = [k EXCEPT !.pc = IF pers.started = None THEN "putFilter" ELSE "getFilter",
                               !.ex = pers.started]
    OBVIOUS
  <2>2. l.pc = (IF pers.started = None THEN "putFilter" ELSE "getFilter") /\ l.ex = pers.started
    BY <1>2, <2>1 DEF CallType
  <2>3. CallSound(l)
    BY <2>0, <2>2 DEF CallSound
  <2>. QED
    BY <1>4, <1>7, <2>1, <2>3 DEF StartRead
<1>8. CASE loadPersistedVolumeFilter(c)
  <2>0. k.pc \in {"getFilter", "resumeFilter"} /\ k.ex = clock
    BY <1>2, <1>8 DEF loadPersistedVolumeFilter, CallSound
  <2>1. PICK l : l = [k EXCEPT !.pc = IF @ = "getFilter" THEN "getCursor" ELSE "resumeCursor", !.filter = pers.filter]
    OBVIOUS
  <2>2. l.pc = (IF k.pc = "getFilter" THEN "getCursor" ELSE "resumeCursor") /\ l.filter = pers.filter /\ l.ex = k.ex
    BY <1>2, <2>1 DEF CallType
  <2>3. CASE k.pc = "getFilter"
    <3>1. l.pc = "getCursor" /\ active = None /\ pers.started = clock /\ clock # None
      BY <1>2, <2>2, <2>3 DEF CallSound, Starting
    <3>2. CallSound(l)
      BY <2>0, <2>2, <3>1 DEF CallSound
    <3>. QED
      BY <1>4, <1>8, <2>1, <3>2 DEF loadPersistedVolumeFilter
  <2>4. CASE k.pc = "resumeFilter"
    <3>1. /\ l.pc = "resumeCursor" /\ Past(pers.cursor, l.filter)
          /\ pers.started = None => \A r \in RunIds : Live(r) => runs[r].pc \in {"fin2", "fin3"}
      BY <1>2, <2>2, <2>4 DEF CallSound
    <3>2. CallSound(l)
      BY <2>0, <2>2, <3>1 DEF CallSound, Starting
    <3>. QED
      BY <1>4, <1>8, <2>1, <3>2 DEF loadPersistedVolumeFilter
  <2>. QED
    BY <2>0, <2>3, <2>4
<1>9. CASE loadPersistedCursorId(c)
  <2>0. k.pc \in {"getCursor", "resumeCursor"} /\ k.ex = clock /\ (pers.started = None \/ k.filter = pers.filter)
    BY <1>2, <1>9 DEF loadPersistedCursorId, CallSound
  <2>1. PICK l : l = [k EXCEPT !.pc = IF @ = "getCursor" THEN "join" ELSE "relaunch", !.cursor = pers.cursor]
    OBVIOUS
  <2>2. /\ l.pc = (IF k.pc = "getCursor" THEN "join" ELSE "relaunch") /\ l.cursor = pers.cursor
        /\ l.ex = k.ex /\ l.filter = k.filter
    BY <1>2, <2>1 DEF CallType
  <2>3. CASE k.pc = "getCursor"
    <3>1. l.pc = "join" /\ active = None /\ pers.started = clock /\ clock # None
      BY <1>2, <2>2, <2>3 DEF CallSound, Starting
    <3>2. Past(l.cursor, l.filter)
      <4>1. clock # None => Past(pers.cursor, pers.filter) /\ l.filter = pers.filter
        BY <2>0, <2>2, <3>1 DEF Orderly, Resumable
      <4>. QED
        BY <2>2, <3>1, <4>1
    <3>3. CallSound(l)
      BY <2>0, <2>2, <3>1, <3>2 DEF CallSound
    <3>. QED
      BY <1>4, <1>9, <2>1, <3>3 DEF loadPersistedCursorId
  <2>4. CASE k.pc = "resumeCursor"
    <3>1. /\ l.pc = "relaunch" /\ Past(l.cursor, l.filter)
          /\ pers.started = None => \A r \in RunIds : Live(r) => runs[r].pc \in {"fin2", "fin3"}
      BY <1>2, <2>2, <2>4 DEF CallSound
    <3>2. CallSound(l)
      BY <2>0, <2>2, <3>1 DEF CallSound, Starting
    <3>. QED
      BY <1>4, <1>9, <2>1, <3>2 DEF loadPersistedCursorId
  <2>. QED
    BY <2>0, <2>3, <2>4
<1>10. CASE resumePendingJob(c)
  <2>1. CASE leave(c)
    BY <1>3, <1>4, <2>1 DEF leave
  <2>2. CASE ~leave(c)
    <3>1. goto(c, [k EXCEPT !.pc = "resumeGet"])
      BY <1>10, <2>2 DEF resumePendingJob
    <3>2. PICK l : l = [k EXCEPT !.pc = "resumeGet"]
      OBVIOUS
    <3>3. l.pc = "resumeGet"
      BY <1>2, <3>2 DEF CallType
    <3>4. CallSound(l)
      BY <3>3, OutsideSound DEF Outside
    <3>. QED
      BY <1>4, <3>1, <3>2, <3>4
  <2>. QED
    BY <2>1, <2>2
<1>11. CASE ResumeRead(c)
  <2>1. CASE leave(c)
    BY <1>3, <1>4, <2>1 DEF leave
  <2>2. CASE ~leave(c)
    <3>1. pers.started # None /\ goto(c, [k EXCEPT !.pc = "resumeFilter", !.ex = pers.started])
      BY <1>11, <2>2 DEF ResumeRead
    <3>2. pers.started = clock /\ Past(pers.cursor, pers.filter)
      BY <3>1 DEF Orderly, Resumable
    <3>3. PICK l : l = [k EXCEPT !.pc = "resumeFilter", !.ex = pers.started]
      OBVIOUS
    <3>4. l.pc = "resumeFilter" /\ l.ex = clock
      BY <1>2, <3>2, <3>3 DEF CallType
    <3>5. CallSound(l)
      BY <3>1, <3>2, <3>4 DEF CallSound, Starting
    <3>. QED
      BY <1>4, <3>1, <3>3, <3>5
  <2>. QED
    BY <2>1, <2>2
<1>. QED
  BY <1>5, <1>6, <1>7, <1>8, <1>9, <1>10, <1>11

\* The steps that write the checkpoint while no run is persisted.
LEMMA WriteSound ==
    ASSUME Typed, Typed', Orderly, ~tangled, ~tangled',
           UNCHANGED <<active, filter, runs, stamp, lost, steady, clock>>, pers'.started = None,
           NEW c \in Callers, NEW k, goto(c, k), InCheckpoint(call[c]), CallSound(k)'
    PROVE  Orderly'
<1>0. Passed' = Passed
  BY DEF Passed, Through
<1>1. /\ Apart'
      /\ call'[c] = k /\ \A d \in Callers : d # c => call'[d] = call[d]
  BY GotoApart
<1>2. ASSUME NEW d \in Callers
      PROVE  CallSound(call[d])'
  <2>1. CASE d = c
    BY <1>1, <2>1 DEF CallSound
  <2>2. CASE d # c
    <3>1. ~InCheckpoint(call[d])
      BY <2>2 DEF Orderly, Apart
    <3>2. call[d].pc \in Outside
      BY <3>1, NotInside
    <3>. PICK l : l = call[d]
      OBVIOUS
    <3>3. CallSound(l)'
      BY <3>2, OutsideSound
    <3>. QED
      BY <1>1, <2>2, <3>3 DEF CallSound
  <2>. QED
    BY <2>1, <2>2
<1>3. ASSUME NEW r \in RunIds, Live(r)'
      PROVE  RunSound(r)'
  <2>1. RunSound(r)
    BY <1>3 DEF Orderly, Live
  <2>. QED
    BY <1>0, <2>1 DEF RunSound, Past
<1>. QED
  BY <1>1, <1>2, <1>3 DEF Orderly, Resumable

\* The writes of a start and of a stop, key by key, verifyStartedAt last and first.
LEMMA WritesSound ==
    ASSUME Typed, Typed', Orderly, ~tangled, ~tangled', NEW c \in Callers,
           persistVolumeFilter(c) \/ DropCursor(c) \/ PutStarted(c) \/ clearPersistedRun(c)
    PROVE  Orderly'
<1>. PICK k : k = call[c]
  OBVIOUS
<1>1. k \in CallType /\ CallSound(k) /\ Idle.pc = "idle"
  BY DEF Orderly, Typed, Talk, Idle
<1>2. pers \in [started : 0..clock, filter : SUBSET Vol, cursor : 0..NObjects] /\ clock \in Nat
  BY LaunchedBound DEF Typed, World
<1>3. ASSUME NEW l, goto(c, l), CallSound(l)', InCheckpoint(k), pers'.started = None,
             UNCHANGED <<active, filter, runs, stamp, lost, steady, clock>>
      PROVE  Orderly'
  BY <1>3, WriteSound
<1>4. CASE persistVolumeFilter(c)
  <2>0. k.pc = "putFilter" /\ active = None /\ pers.started = None /\ InCheckpoint(k)
    BY <1>1, <1>4 DEF persistVolumeFilter, CallSound, Starting, InCheckpoint
  <2>1. PICK l : l = [k EXCEPT !.pc = "dropCursor"]
    OBVIOUS
  <2>2. l.pc = "dropCursor" /\ l.want = k.want
    BY <1>1, <2>1 DEF CallType
  <2>3. pers'.started = None /\ pers'.filter = l.want /\ active' = None
    BY <1>2, <1>4, <2>0, <2>2 DEF persistVolumeFilter, job
  <2>4. CallSound(l)'
    BY <2>2, <2>3 DEF CallSound
  <2>. QED
    BY <1>3, <1>4, <2>0, <2>1, <2>3, <2>4 DEF persistVolumeFilter, job, bounds
<1>5. CASE DropCursor(c)
  <2>0. k.pc = "dropCursor" /\ active = None /\ pers.started = None /\ pers.filter = k.want /\ InCheckpoint(k)
    BY <1>1, <1>5 DEF DropCursor, CallSound, Starting, InCheckpoint
  <2>1. PICK l : l = [k EXCEPT !.pc = "putStarted"]
    OBVIOUS
  <2>2. l.pc = "putStarted" /\ l.want = k.want
    BY <1>1, <2>1 DEF CallType
  <2>3. pers'.started = None /\ pers'.filter = l.want /\ pers'.cursor = None /\ active' = None
    BY <1>2, <1>5, <2>0, <2>2 DEF DropCursor, job
  <2>4. CallSound(l)'
    BY <2>2, <2>3 DEF CallSound
  <2>. QED
    BY <1>3, <1>5, <2>0, <2>1, <2>3, <2>4 DEF DropCursor, job, bounds
<1>6. CASE PutStarted(c)
  <2>0. k.pc = "putStarted" /\ active = None /\ pers.filter = k.want /\ pers.cursor = None /\ InCheckpoint(k)
    BY <1>1, <1>6 DEF PutStarted, CallSound, Starting, InCheckpoint
  <2>1. PICK l : l = [k EXCEPT !.pc = "fresh", !.ex = clock + 1]
    OBVIOUS
  <2>2. l.pc = "fresh" /\ l.want = k.want /\ l.ex = clock + 1
    BY <1>1, <2>1 DEF CallType
  <2>3. /\ pers'.started = clock' /\ clock' # None /\ pers'.filter = l.want /\ pers'.cursor = None /\ active' = None
        /\ l.ex = clock' /\ runs' = runs
    BY <1>2, <1>6, <2>0, <2>2 DEF PutStarted, job
  <2>4. CallSound(l)'
    BY <2>2, <2>3 DEF CallSound
  <2>5. goto(c, l)
    BY <1>6, <2>1 DEF PutStarted
  <2>6. /\ Apart'
        /\ call'[c] = l /\ \A d \in Callers : d # c => call'[d] = call[d]
    BY <2>5, GotoApart
  <2>7. ASSUME NEW d \in Callers
        PROVE  CallSound(call[d])'
    <3>1. CASE d = c
      BY <2>4, <2>6, <3>1 DEF CallSound
    <3>2. CASE d # c
      <4>1. ~InCheckpoint(call[d])
        BY <2>0, <3>2 DEF Orderly, Apart
      <4>2. call[d].pc \in Outside
        BY <4>1, NotInside
      <4>. PICK m : m = call[d]
        OBVIOUS
      <4>3. CallSound(m)'
        BY <4>2, OutsideSound
      <4>. QED
        BY <2>6, <3>2, <4>3 DEF CallSound
    <3>. QED
      BY <3>1, <3>2
  <2>8. \A r \in RunIds : ~Live(r)'
    <3>1. ASSUME NEW r \in RunIds, Live(r)
          PROVE  FALSE
      <4>1. active = r
        BY <3>1 DEF Orderly, RunSound
      <4>. QED
        BY <2>0, <4>1
    <3>. QED
      BY <2>3, <3>1 DEF Live
  <2>9. Resumable'
    <3>1. Past(pers.cursor, pers.filter)'
      BY <2>3 DEF Past
    <3>. QED
      BY <2>3, <3>1 DEF Resumable
  <2>. QED
    BY <2>6, <2>7, <2>8, <2>9 DEF Orderly
<1>7. CASE clearPersistedRun(c)
  <2>0. /\ k.pc \in {"clear1", "clear2", "clear3"} /\ InCheckpoint(k)
        /\ k.pc \in {"clear2", "clear3"} => pers.started = None
        /\ UNCHANGED <<active, filter, runs, stamp, lost, steady, clock>>
    BY <1>1, <1>7 DEF clearPersistedRun, CallSound, InCheckpoint, job, bounds
  <2>1. pers'.started = None
    BY <1>2, <1>7, <2>0 DEF clearPersistedRun
  <2>2. PICK l : goto(c, l) /\ l.pc \in {"clear2", "clear3", "idle"}
    <3>1. [k EXCEPT !.pc = "clear2"].pc = "clear2" /\ [k EXCEPT !.pc = "clear3"].pc = "clear3"
      BY <1>1 DEF CallType
    <3>. QED
      BY <1>1, <1>7, <3>1 DEF clearPersistedRun, leave
  <2>3. CallSound(l)'
    BY <2>1, <2>2 DEF CallSound, Starting
  <2>. QED
    BY <1>3, <2>0, <2>1, <2>2, <2>3
<1>. QED
  BY <1>4, <1>5, <1>6, <1>7

\* The steps that start a run, or find that they may not.
LEMMA LaunchesSound ==
    ASSUME Typed, Typed', Orderly, ~tangled, ~tangled', NEW c \in Callers, StartLaunch(c) \/ ResumeLaunch(c)
    PROVE  Orderly'
<1>. PICK k : k = call[c]
  OBVIOUS
<1>1. k \in CallType /\ CallSound(k) /\ Idle.pc = "idle" /\ InCheckpoint(k)
  BY DEF Orderly, Typed, Talk, Idle, StartLaunch, ResumeLaunch, InCheckpoint
<1>2. CallSound(Idle) /\ goto(c, Idle)
  BY <1>1, OutsideSound DEF Outside, StartLaunch, ResumeLaunch, leave
<1>3. UNCHANGED <<pers, stamp, up, steady, lost, clock>>
  BY DEF StartLaunch, ResumeLaunch
<1>4. CASE UNCHANGED <<active, filter, runs>>
  BY <1>2, <1>3, <1>4, ReadSound DEF Still
<1>5. CASE ~UNCHANGED <<active, filter, runs>>
  <2>1. PICK f \in SUBSET Vol, cur \in 0..NObjects : launch(clock, f, cur) /\ Past(cur, f)
            /\ (pers.started # None => f = pers.filter)
    <3>1. CASE k.pc = "fresh"
      <4>1. launch(clock, k.want, None) /\ pers.filter = k.want
        BY <1>1, <1>5, <3>1 DEF StartLaunch, ResumeLaunch, CallSound
      <4>2. Past(None, k.want) /\ k.want \in SUBSET Vol /\ None \in 0..NObjects
        BY <1>1 DEF Past, CallType
      <4>. QED
        BY <4>1, <4>2
    <3>2. CASE k.pc \in {"join", "relaunch"}
      <4>1. /\ launch(clock, k.filter, k.cursor) /\ Past(k.cursor, k.filter)
            /\ pers.started # None => k.filter = pers.filter
        BY <1>1, <1>5, <3>2 DEF StartLaunch, ResumeLaunch, CallSound
      <4>2. k.filter \in SUBSET Vol /\ k.cursor \in 0..NObjects
        BY <1>1 DEF CallType
      <4>. QED
        BY <4>1, <4>2
    <3>. QED
      BY <3>1, <3>2 DEF StartLaunch, ResumeLaunch
  <2>2. PICK n : n = [NoRun EXCEPT !.pc = "batch", !.cancelled = FALSE, !.st = clock, !.cursor = cur]
    OBVIOUS
  <2>3. n.pc = "batch" /\ n.st = clock /\ n.cursor = cur
    BY <2>2 DEF NoRun
  <2>4. /\ active = None /\ active' = launched + 1 /\ filter' = f
        /\ runs' = [runs EXCEPT ![launched + 1] = n]
    BY <1>5, <2>1, <2>2 DEF launch, isRunning
  <2>5. \A r \in RunIds : ~Live(r)
    <3>1. ASSUME NEW r \in RunIds, Live(r)
          PROVE  FALSE
      <4>1. active = r
        BY <3>1 DEF Orderly, RunSound
      <4>. QED
        BY <2>4, <4>1
    <3>. QED
      BY <3>1
  <2>6. /\ Apart'
        /\ call'[c] = Idle /\ \A d \in Callers : d # c => call'[d] = call[d]
    BY <1>2, GotoApart
  <2>7. ASSUME NEW d \in Callers
        PROVE  CallSound(call[d])'
    <3>1. call'[d].pc \in Outside
      <4>1. CASE d = c
        BY <1>1, <2>6, <4>1 DEF Outside
      <4>2. CASE d # c
        <5>1. ~InCheckpoint(call[d])
          BY <1>1, <4>2 DEF Orderly, Apart
        <5>. QED
          BY <2>6, <4>2, <5>1, NotInside
      <4>. QED
        BY <4>1, <4>2
    <3>. PICK l : l = call'[d]
      OBVIOUS
    <3>2. CallSound(l)'
      BY <3>1, OutsideSound
    <3>. QED
      BY <3>2 DEF CallSound
  <2>8. Passed' = Passed
    BY <1>3 DEF Passed, Through
  <2>9. Resumable'
    BY <1>3, <2>8 DEF Orderly, Resumable, Past
  <2>10. ASSUME NEW r \in RunIds, Live(r)'
         PROVE  RunSound(r)'
    <3>1. r = launched + 1
      BY <2>4, <2>5, <2>10 DEF Live, Typed, Machine
    <3>2. runs'[r] = n /\ active' = r
      BY <2>4, <3>1 DEF Typed, Machine
    <3>. QED
      BY <1>3, <2>1, <2>3, <2>4, <2>8, <3>2 DEF RunSound, Past
  <2>. QED
    BY <2>6, <2>7, <2>9, <2>10 DEF Orderly
<1>. QED
  BY <1>4, <1>5

\* stop(), the freeze, the rebalance: a run is cancelled, or nothing happens to it.
LEMMA StopsSound ==
    ASSUME Typed, Typed', Orderly, ~tangled, ~tangled',
           stop \/ setMaintenanceFrozen \/ pauseForRebalance \/ releaseForRebalance
    PROVE  Orderly'
<1>1. /\ UNCHANGED <<pers, active, filter, stamp, lost, steady, clock>>
      /\ active \in 0..launched /\ launched <= MaxStarts + MaxEvents /\ launched \in Nat
      /\ runs \in [RunIds -> RunType]
  BY LaunchedBound DEF stop, setMaintenanceFrozen, pauseForRebalance,
      releaseForRebalance, bounds, Typed, Machine
<1>2. CancelRun(active) \/ UNCHANGED runs
  <2>1. isRunning => active \in RunIds
    BY <1>1 DEF isRunning
  <2>. QED
    BY <2>1 DEF stop, setMaintenanceFrozen, pauseForRebalance, releaseForRebalance,
        stopEnter, CancelRun
<1>3. ASSUME NEW r \in RunIds
      PROVE  /\ Live(r)' => Live(r)
             /\ \A x \in {"pc", "st", "cursor", "top", "batch", "todo", "done"} : runs'[r][x] = runs[r][x]
  <2>1. CASE runs'[r] = runs[r]
    BY <2>1 DEF Live
  <2>2. CASE runs'[r] # runs[r]
    <3>1. runs'[r] = [runs[r] EXCEPT !.cancelled = TRUE]
      BY <1>1, <1>2, <2>2 DEF CancelRun
    <3>. PICK run : run = runs[r]
      OBVIOUS
    <3>2. run \in RunType /\ runs'[r] = [run EXCEPT !.cancelled = TRUE]
      BY <1>1, <3>1
    <3>3. \A x \in {"pc", "st", "cursor", "top", "batch", "todo", "done"} : runs'[r][x] = run[x]
      BY <3>2 DEF RunType
    <3>4. runs'[r].pc = run.pc /\ runs'[r].cancelled = TRUE
      BY <3>2 DEF RunType
    <3>5. Live(r)' => Live(r)
      BY <3>4 DEF Live
    <3>. QED
      BY <3>3, <3>5
  <2>. QED
    BY <2>1, <2>2
<1>4. Tide
  BY <1>1, TideStill
<1>5. QuietRuns
  BY <1>1, <1>3, <1>4 DEF QuietRuns
<1>6. \E c \in Callers : \E k : goto(c, k) /\ k.pc \in Outside \cup {"drain", "clear1"}
  <2>1. /\ Idle.pc = "idle" /\ [Idle EXCEPT !.pc = "clear1"].pc = "clear1" /\ [Idle EXCEPT !.pc = "moving"].pc = "moving"
        /\ [Idle EXCEPT !.pc = "resume"].pc = "resume"
        /\ \A x : [Idle EXCEPT !.pc = "drain", !.keep = x, !.run = active].pc = "drain"
    BY DEF Idle
  <2>. QED
    BY <2>1 DEF stop, setMaintenanceFrozen, pauseForRebalance, releaseForRebalance,
        stopEnter, resumeEnter, leave, Outside
<1>7. PICK c \in Callers : \E k : goto(c, k) /\ k.pc \in Outside
  BY <1>6 DEF Outside
<1>8. PICK k : goto(c, k) /\ k.pc \in Outside
  BY <1>7
<1>. QED
  BY <1>5, <1>8, OutsideSound, QuietGoto

\* A run that is abandoned is not completing: a step of finalize() does not outlive the wait.
LEMMA DrainsSound ==
    ASSUME Typed, Typed', Owned, Orderly, ~tangled, ~tangled', Wedges \cap {"fin2", "fin3"} = {},
           NEW c \in Callers, Drained(c) \/ Abandon(c)
    PROVE  Orderly'
<1>1. /\ UNCHANGED <<pers, runs, stamp, lost, steady, clock>> /\ AfterDrain(c) /\ call[c].pc = "drain"
      /\ call[c] \in CallType
  BY DEF Drained, Abandon, bounds, Typed, Talk
<1>2. PICK k : goto(c, k) /\ k.pc \in Outside
  <2>1. Idle.pc = "idle" /\ [Idle EXCEPT !.pc = "moving"].pc = "moving" /\ [call[c] EXCEPT !.pc = "clear1"].pc = "clear1"
    BY <1>1 DEF Idle, CallType
  <2>. QED
    BY <1>1, <2>1 DEF AfterDrain, Outside
<1>3. \A r \in RunIds : Live(r)' <=> Live(r)
  BY <1>1 DEF Live
<1>4. ASSUME NEW r \in RunIds, Live(r), active = r
      PROVE  active' = active /\ filter' = filter
  <2>1. CASE Drained(c)
    BY <2>1 DEF Drained
  <2>2. CASE Abandon(c)
    <3>1. call[c].run \in RunIds /\ runs[call[c].run].cancelled /\ runs[call[c].run].pc \in Wedges
      BY <1>1, <2>2 DEF Owned, Abandon
    <3>2. ~Live(call[c].run)
      BY <3>1 DEF Live
    <3>3. active # call[c].run
      BY <1>4, <3>2
    <3>. QED
      BY <2>2, <3>3 DEF Abandon, Settle
  <2>. QED
    BY <2>1, <2>2
<1>5. active = None => active' = None
  BY DEF Drained, Abandon, Settle
<1>6. QuietRuns
  BY <1>1, <1>3, <1>4, <1>5, TideStill DEF QuietRuns
<1>. QED
  BY <1>2, <1>6, OutsideSound, QuietGoto

\* Unfreezing, a volume that changes, a crash: no run stays, or none moves.
LEMMA OutsidersSound ==
    ASSUME Typed, Typed', Orderly, ~tangled,
           Unfreeze \/ (\E v \in Vol : VolumeChanges(v)) \/ Restart \/ UNCHANGED vars
    PROVE  Orderly'
<1>1. CASE Unfreeze \/ (\E v \in Vol : VolumeChanges(v)) \/ UNCHANGED vars
  <2>1. UNCHANGED <<pers, active, filter, runs, stamp, lost, clock, call>> /\ steady' \subseteq steady
    BY <1>1 DEF Unfreeze, VolumeChanges, vars, job, bounds
  <2>2. \A r \in RunIds : Live(r)' <=> Live(r)
    BY <2>1 DEF Live
  <2>3. QuietRuns
    BY <2>1, <2>2, TideStill DEF QuietRuns
  <2>4. Apart'
    BY <2>1 DEF Orderly, Apart
  <2>. QED
    BY <2>1, <2>3, <2>4, QuietSound
<1>2. CASE Restart
  <2>1. UNCHANGED <<pers, stamp, lost, clock, steady>> /\ active' = None
    BY <1>2 DEF Restart
  <2>2. \A r \in RunIds : ~Live(r)'
    BY <1>2, LaunchedBound, Fresh DEF Restart, Live, Typed
  <2>3. QuietRuns
    BY <2>1, <2>2, TideStill DEF QuietRuns
  <2>4. \A c \in Callers : call'[c].pc \in {"idle", "resume", "moving"}
    <3>1. Idle.pc = "idle" /\ [Idle EXCEPT !.pc = "moving"].pc = "moving" /\ [Idle EXCEPT !.pc = "resume"].pc = "resume"
      BY DEF Idle
    <3>2. call' = [[c \in Callers |-> Idle] EXCEPT
                    !["user"] = [Idle EXCEPT !.pc = "resume"],
                    !["reb"] = IF rebActive THEN [Idle EXCEPT !.pc = "moving"] ELSE Idle]
      BY <1>2 DEF Restart
    <3>. QED
      BY <3>1, <3>2
  <2>5. Apart'
    BY <2>4 DEF Apart, InCheckpoint
  <2>6. \A c \in Callers : CallSound(call[c])'
    <3>1. ASSUME NEW c \in Callers
          PROVE  CallSound(call[c])'
      <4>. PICK l : l = call'[c]
        OBVIOUS
      <4>1. CallSound(l)'
        BY <2>4, OutsideSound DEF Outside
      <4>. QED
        BY <4>1 DEF CallSound
    <3>. QED
      BY <3>1
  <2>. QED
    BY <2>3, <2>5, <2>6, QuietSound
<1>. QED
  BY <1>1, <1>2

\* The objects a batch leaves out come after all of its own.
LEMMA FirstOnes ==
    ASSUME NEW N \in SUBSET Obj, NEW B, B = {o \in N : Cardinality({p \in N : p < o}) < BatchSize}
    PROVE  /\ B = {} => N = {}
           /\ \A o \in N, m \in B : o <= m => o \in B
<1>0. IsFiniteSet(Obj) /\ N \subseteq Nat /\ BatchSize \in Nat /\ 0 < BatchSize
  BY FS_Interval
<1>1. ASSUME NEW o \in N
      PROVE  IsFiniteSet({p \in N : p < o}) /\ Cardinality({p \in N : p < o}) \in Nat
  <2>1. {p \in N : p < o} \subseteq Obj
    OBVIOUS
  <2>. QED
    BY <1>0, <2>1, FS_Subset, FS_CardinalityType
<1>2. ASSUME N # {}
      PROVE  B # {}
  <2>1. PICK m \in N : \A n \in N : m <= n
    BY <1>0, <1>2, Least
  <2>2. {p \in N : p < m} = {}
    <3>1. ASSUME NEW p \in N, p < m
          PROVE  FALSE
      BY <1>0, <2>1, <3>1
    <3>. QED
      BY <3>1
  <2>3. Cardinality({p \in N : p < m}) = 0
    BY <2>2, FS_EmptySet
  <2>. QED
    BY <1>0, <2>1, <2>3
<1>3. ASSUME NEW o \in N, NEW m \in B, o <= m
      PROVE  o \in B
  <2>1. m \in N /\ Cardinality({p \in N : p < m}) < BatchSize
    OBVIOUS
  <2>2. {p \in N : p < o} \subseteq {p \in N : p < m}
    <3>1. ASSUME NEW p \in N, p < o
          PROVE  p < m
      BY <1>0, <1>3, <2>1, <3>1
    <3>. QED
      BY <3>1
  <2>3. Cardinality({p \in N : p < o}) <= Cardinality({p \in N : p < m})
    BY <1>1, <2>1, <2>2, FS_Subset
  <2>4. Cardinality({p \in N : p < o}) < BatchSize
    <3>1. PICK a \in Nat, b \in Nat : a = Cardinality({p \in N : p < o}) /\ b = Cardinality({p \in N : p < m})
      BY <1>1, <2>1
    <3>. QED
      BY <1>0, <2>1, <2>3, <3>1
  <2>. QED
    BY <2>4
<1>. QED
  BY <1>2, <1>3

\* An object without a stale slice is passed.
LEMMA NotStale ==
    ASSUME Typed, NEW o \in Obj, ~Stale(o, clock)
    PROVE  o \in Passed[filter]
<1>1. filter \in SUBSET Vol /\ steady \subseteq up /\ stamp[o] \in [Vol -> 0..clock] /\ clock \in Nat /\ SlicesOf[o] \subseteq Vol
  BY LaunchedBound DEF Typed, World
<1>2. ASSUME NEW v \in SlicesOf[o] \cap filter \cap steady
      PROVE  stamp[o][v] >= clock
  <2>1. ~(stamp[o][v] < clock)
    BY <1>1 DEF Stale, verifiable
  <2>2. PICK a \in Int : a = stamp[o][v]
    BY <1>1
  <2>. QED
    BY <1>1, <2>1, <2>2
<1>3. Through(o, clock, filter)
  BY <1>2 DEF Through
<1>. QED
  BY <1>1, <1>3 DEF Passed

\* One run at work moves: what its step leaves behind is all that is to be shown.
LEMMA OneMoves ==
    ASSUME Typed, Typed', Orderly, NEW r \in RunIds, Live(r), NEW rec, Step(r, rec),
           UNCHANGED <<call, active, filter>>, Resumable', RunSound(r)', \A c \in Callers : CallSound(call[c])'
    PROVE  Orderly'
<1>1. active = r
  BY DEF Orderly, RunSound
<1>2. ASSUME NEW q \in RunIds, Live(q)'
      PROVE  RunSound(q)'
  <2>1. CASE q = r
    BY <2>1
  <2>2. CASE q # r
    <3>1. runs'[q] = runs[q]
      BY <2>2 DEF Step, Typed, Machine
    <3>2. Live(q)
      BY <1>2, <3>1 DEF Live
    <3>. QED
      BY <1>1, <2>2, <3>2 DEF Orderly, RunSound
  <2>. QED
    BY <2>1, <2>2
<1>3. Apart'
  BY DEF Orderly, Apart
<1>. QED
  BY <1>2, <1>3 DEF Orderly

\* While a run is at work nobody starts one, and who resumes finds it persisted.
LEMMA CallersWait ==
    ASSUME Typed, Orderly, NEW r \in RunIds, Live(r), NEW c \in Callers
    PROVE  /\ call[c].pc \notin Starting
           /\ call[c].pc \in {"resumeFilter", "resumeCursor", "relaunch"} /\ runs[r].pc \notin {"fin2", "fin3"}
                 => pers.started # None
<1>1. active = r /\ CallSound(call[c])
  BY DEF Orderly, RunSound
<1>2. call[c].pc \notin Starting
  BY <1>1 DEF CallSound
<1>3. call[c].pc \in {"resumeFilter", "resumeCursor", "relaunch"} /\ runs[r].pc \notin {"fin2", "fin3"}
          => pers.started # None
  BY <1>1 DEF CallSound
<1>. QED
  BY <1>2, <1>3

\* A step of a run that leaves the checkpoint alone.
LEMMA WorkSound ==
    ASSUME Typed, Typed', Orderly, NEW r \in RunIds, Live(r), NEW rec, Step(r, rec), runs[r].pc \notin {"fin2", "fin3"},
           UNCHANGED <<pers, call, active, filter>>, Tide, RunSound(r)'
    PROVE  Orderly'
<1>1. \A f \in SUBSET Vol : Passed[f] \subseteq Passed'[f]
  BY PassedKept
<1>2. pers.filter \in SUBSET Vol /\ clock' = clock /\ pers' = pers /\ active = r
  BY DEF Typed, World, Tide, Orderly, RunSound
<1>3. Resumable'
  BY <1>1, <1>2 DEF Orderly, Resumable, Past
<1>4. ASSUME NEW c \in Callers
      PROVE  CallSound(call[c])'
  <2>. PICK k : k = call[c]
    OBVIOUS
  <2>1. k \in CallType /\ CallSound(k) /\ k.filter \in SUBSET Vol
    BY DEF Typed, Talk, CallType, Orderly
  <2>2. k.pc \notin Starting /\ (k.pc \in {"resumeFilter", "resumeCursor", "relaunch"} => pers.started # None)
    BY CallersWait
  <2>3. /\ Past(pers.cursor, pers.filter) => Past(pers.cursor, pers.filter)'
        /\ Past(pers.cursor, k.filter) => Past(pers.cursor, k.filter)'
        /\ Past(k.cursor, k.filter) => Past(k.cursor, k.filter)'
    BY <1>1, <1>2, <2>1 DEF Past
  <2>4. /\ k.pc \in {"resumeFilter", "resumeCursor", "relaunch"} => k.ex = clock'
        /\ k.pc \in {"clear2", "clear3"} => pers'.started = None
        /\ k.pc \in {"resumeCursor", "relaunch"} => pers'.started = None \/ k.filter = pers'.filter
        /\ k.pc = "resumeFilter" => Past(pers.cursor, pers.filter)'
        /\ k.pc = "resumeCursor" => Past(pers.cursor, k.filter)'
        /\ k.pc = "relaunch" => Past(k.cursor, k.filter)'
    BY <1>2, <2>1, <2>3 DEF CallSound
  <2>5. CallSound(k)'
    BY <1>2, <2>2, <2>4 DEF CallSound, Starting
  <2>. QED
    BY <2>5 DEF CallSound
<1>. QED
  BY <1>3, <1>4, OneMoves

\* A run that ends leaves everything to the others.
LEMMA EndSound ==
    ASSUME Typed, Typed', Orderly, NEW r \in RunIds, Step(r, NoRun), Settle(r),
           UNCHANGED <<pers, call, stamp, lost, steady, clock>>
    PROVE  Orderly'
<1>1. runs' = [runs EXCEPT ![r] = NoRun] /\ runs \in [RunIds -> RunType] /\ NoRun.pc = "done"
  BY LaunchedBound, Fresh DEF Step, Typed, Machine
<1>2. ASSUME NEW q \in RunIds, Live(q)'
      PROVE  /\ Live(q) /\ runs'[q] = runs[q]
             /\ active = q => active' = active /\ filter' = filter
  <2>1. q # r
    BY <1>1, <1>2 DEF Live
  <2>2. runs'[q] = runs[q]
    BY <1>1, <2>1
  <2>. QED
    BY <1>2, <2>1, <2>2 DEF Live, Settle
<1>3. active = None => active' = None
  BY DEF Settle
<1>4. Tide
  BY TideStill
<1>5. QuietRuns
  BY <1>2, <1>3, <1>4 DEF QuietRuns
<1>6. Apart'
  BY DEF Orderly, Apart
<1>. QED
  BY <1>5, <1>6, QuietSound

\* What is known of a run at work, and of what it becomes.
LEMMA AtWork ==
    ASSUME Typed, Orderly, NEW r \in RunIds, runs[r].pc # "done", ~runs[r].cancelled \/ runs[r].pc \in {"fin2", "fin3"}
    PROVE  /\ Live(r) /\ RunSound(r) /\ active = r /\ runs[r].st = clock
           /\ runs[r] \in RunType /\ filter \in SUBSET Vol /\ clock \in Nat /\ pers.filter \in SUBSET Vol
           /\ stamp \in [Obj -> [Vol -> 0..clock]] /\ steady \subseteq up /\ lost \subseteq Obj
           /\ pers \in [started : 0..clock, filter : SUBSET Vol, cursor : 0..NObjects]
           /\ \A rec : Step(r, rec) => runs'[r] = rec
<1>1. Live(r)
  BY DEF Live
<1>2. RunSound(r)
  BY <1>1 DEF Orderly
<1>3. \A rec : Step(r, rec) => runs'[r] = rec
  BY DEF Step, Typed, Machine
<1>. QED
  BY <1>1, <1>2, <1>3, LaunchedBound DEF RunSound, Typed, World, Machine

\* The top of the loop: the run ends, completes, or takes the next batch.
LEMMA ExecuteSound ==
    ASSUME Typed, Typed', Orderly, NEW r \in RunIds, execute(r)
    PROVE  Orderly'
<1>. PICK run : run = runs[r]
  OBVIOUS
<1>1. UNCHANGED <<pers, stamp, call, up, steady, lost, clock>> /\ run.pc = "batch"
  BY DEF execute, bounds
<1>2. CASE run.cancelled \/ frozen
  <2>1. Step(r, NoRun) /\ Settle(r)
    BY <1>2 DEF execute
  <2>. QED
    BY <1>1, <2>1, EndSound
<1>3. CASE ~(run.cancelled \/ frozen)
  <2>1. /\ Live(r) /\ RunSound(r) /\ active = r /\ run.st = clock /\ run \in RunType /\ filter \in SUBSET Vol
        /\ \A rec : Step(r, rec) => runs'[r] = rec
    BY <1>1, <1>3, AtWork
  <2>2. Tide /\ Passed' = Passed
    BY <1>1, TideStill DEF Passed, Through
  <2>. PICK B : B = fetchBatch(run)
    OBVIOUS
  <2>. PICK N : N = Needing(run)
    OBVIOUS
  <2>3. /\ N \in SUBSET Obj /\ B = {o \in N : Cardinality({p \in N : p < o}) < BatchSize}
        /\ \A o \in Obj : o > run.cursor /\ o \notin N => o \in Passed[filter]
        /\ run.cursor \in 0..NObjects
        /\ Past(run.cursor, filter)
    <3>1. N \in SUBSET Obj /\ B = {o \in N : Cardinality({p \in N : p < o}) < BatchSize}
      BY DEF Needing, fetchBatch
    <3>2. \A o \in Obj : o > run.cursor /\ o \notin N => o \in Passed[filter]
      BY <2>1, NotStale DEF Needing
    <3>. QED
      BY <2>1, <3>1, <3>2 DEF RunType, RunSound
  <2>4. (B = {} => N = {}) /\ \A o \in N, m \in B : o <= m => o \in B
    BY <2>3, FirstOnes
  <2>5. \A o \in Obj : o \in N \/ o \in Passed[filter]
    <3>1. ASSUME NEW o \in Obj, o <= run.cursor
          PROVE  o \in Passed[filter]
      <4>1. o \in 1..run.cursor
        BY <2>3, <3>1
      <4>. QED
        BY <2>3, <4>1 DEF Past
    <3>. QED
      BY <2>3, <3>1
  <2>6. CASE B = {}
    <3>1. Step(r, [run EXCEPT !.pc = "fin1"]) /\ UNCHANGED <<active, filter>>
      BY <1>3, <2>6, Zenon DEF execute
    <3>. PICK rec : rec = [run EXCEPT !.pc = "fin1"]
      OBVIOUS
    <3>2. rec.pc = "fin1" /\ rec.st = clock /\ rec.cursor = run.cursor
      BY <2>1 DEF RunType
    <3>3. runs'[r] = rec
      BY <2>1, <3>1
    <3>4. Past(NObjects, filter)
      BY <2>4, <2>5, <2>6 DEF Past
    <3>5. /\ active' = r /\ filter' = filter /\ clock' = clock /\ pers' = pers
          /\ pers.started # None => filter = pers.filter
      BY <1>1, <2>1, <3>1 DEF RunSound
    <3>6. RunSound(r)'
      BY <2>2, <2>3, <3>2, <3>3, <3>4, <3>5 DEF RunSound, Past
    <3>. QED
      BY <1>1, <2>1, <2>2, <3>1, <3>6, WorkSound
  <2>7. CASE B # {}
    <3>. DEFINE todo == [o \in Obj |-> IF o \in B THEN SlicesOf[o] ELSE {}]
                none == [o \in Obj |-> {}]
    <3>. PICK rec : rec = [run EXCEPT !.pc = "verify", !.batch = B, !.top = Max(B), !.todo = todo, !.done = none]
      OBVIOUS
    <3>1. Step(r, rec) /\ UNCHANGED <<active, filter>>
      <4>1. /\ Step(r, [run EXCEPT !.pc = "verify", !.batch = B, !.top = Max(B),
                                   !.todo = [o \in Obj |-> IF o \in B THEN SlicesOf[o] ELSE {}],
                                   !.done = [o \in Obj |-> {}]])
            /\ UNCHANGED <<active, filter>>
        BY <1>3, <2>7, Zenon DEF execute
      <4>. QED
        BY <4>1
    <3>2. /\ rec.pc = "verify" /\ rec.st = clock /\ rec.cursor = run.cursor /\ rec.batch = B /\ rec.top = Max(B)
          /\ rec.todo = todo /\ rec.done = none
      <4>. HIDE DEF todo, none
      <4>. QED
        BY <2>1 DEF RunType
    <3>3. runs'[r] = rec
      BY <2>1, <3>1
    <3>4. Max(B) \in B /\ B \subseteq Obj
      BY <2>3, <2>7, LargestObject
    <3>5. 1..Max(B) \subseteq B \cup Passed[filter]
      <4>1. PICK m \in Obj : m = Max(B) /\ m \in B
        BY <3>4
      <4>2. ASSUME NEW o \in 1..m, o \notin B
            PROVE  o \in Passed[filter]
        <5>1. o \in Obj /\ o <= m
          OBVIOUS
        <5>. QED
          BY <2>4, <2>5, <4>1, <4>2, <5>1
      <4>. QED
        BY <4>1, <4>2
    <3>6. \A o \in B : SlicesOf[o] \cap filter \cap steady \subseteq todo[o] \cup none[o]
      BY <3>4
    <3>7. /\ active' = r /\ filter' = filter /\ clock' = clock /\ pers' = pers /\ steady' = steady
          /\ pers.started # None => filter = pers.filter
      BY <1>1, <2>1, <3>1 DEF RunSound
    <3>. HIDE DEF todo, none
    <3>8. RunSound(r)'
      BY <2>2, <2>3, <3>2, <3>3, <3>5, <3>6, <3>7 DEF RunSound, Past
    <3>. QED
      BY <1>1, <2>1, <2>2, <3>1, <3>8, WorkSound
  <2>. QED
    BY <2>6, <2>7
<1>. QED
  BY <1>2, <1>3

\* A slice is verified, or its volume is out of service, and then was not steady.
LEMMA VerifySliceSound ==
    ASSUME Typed, Typed', Orderly, NEW r \in RunIds, NEW o \in Obj, verifySlice(r, o)
    PROVE  Orderly'
<1>. PICK run : run = runs[r]
  OBVIOUS
<1>1. /\ UNCHANGED <<pers, stamp, call, up, steady, lost, clock, active, filter>> /\ run.pc = "verify" /\ ~run.cancelled
      /\ o \in run.batch
  BY DEF verifySlice, bounds
<1>2. /\ Live(r) /\ RunSound(r) /\ active = r /\ run.st = clock /\ run \in RunType /\ filter \in SUBSET Vol
      /\ steady \subseteq up /\ \A rec : Step(r, rec) => runs'[r] = rec
  BY <1>1, AtWork
<1>3. Tide /\ Passed' = Passed
  BY <1>1, TideStill DEF Passed, Through
<1>. PICK v : v = Min(run.todo[o])
  OBVIOUS
<1>. DEFINE done == IF v \in verifiable THEN run.done[o] \cup {v} ELSE run.done[o]
<1>4. Step(r, [run EXCEPT !.todo[o] = @ \ {v}, !.done[o] = IF v \in verifiable THEN @ \cup {v} ELSE @])
  BY DEF verifySlice
<1>. PICK rec : rec = [run EXCEPT !.todo[o] = @ \ {v}, !.done[o] = IF v \in verifiable THEN @ \cup {v} ELSE @]
  OBVIOUS
<1>5. /\ rec.pc = run.pc /\ rec.st = run.st /\ rec.cursor = run.cursor /\ rec.batch = run.batch /\ rec.top = run.top
      /\ rec.todo = [run.todo EXCEPT ![o] = run.todo[o] \ {v}]
      /\ rec.done = [run.done EXCEPT ![o] = done]
  BY <1>2 DEF RunType
<1>6. runs'[r] = rec
  BY <1>2, <1>4
<1>7. /\ 1..run.top \subseteq run.batch \cup Passed[filter]
      /\ \A p \in run.batch : SlicesOf[p] \cap filter \cap steady \subseteq run.todo[p] \cup run.done[p]
      /\ run.todo \in [Obj -> SUBSET Vol] /\ run.done \in [Obj -> SUBSET Vol] /\ run.batch \subseteq Obj
  BY <1>1, <1>2 DEF RunSound, RunType
<1>8. \A p \in run.batch : SlicesOf[p] \cap filter \cap steady \subseteq rec.todo[p] \cup rec.done[p]
  <2>1. ASSUME NEW p \in run.batch, NEW x \in SlicesOf[p] \cap filter \cap steady
        PROVE  x \in rec.todo[p] \cup rec.done[p]
    <3>1. x \in run.todo[p] \cup run.done[p]
      BY <1>7
    <3>2. CASE p # o
      BY <1>5, <1>7, <3>1, <3>2
    <3>3. CASE p = o
      <4>1. rec.todo[p] = run.todo[o] \ {v} /\ rec.done[p] = done
        BY <1>5, <1>7, <3>3
      <4>2. x \in verifiable
        BY <1>2 DEF verifiable
      <4>. QED
        BY <3>1, <3>3, <4>1, <4>2
    <3>. QED
      BY <3>2, <3>3
  <2>. QED
    BY <2>1
<1>9. /\ active' = r /\ filter' = filter /\ clock' = clock /\ pers' = pers /\ steady' = steady
      /\ pers.started # None => filter = pers.filter
      /\ Past(run.cursor, filter)
  BY <1>1, <1>2 DEF RunSound
<1>. HIDE DEF done
<1>10. RunSound(r)'
  BY <1>1, <1>2, <1>3, <1>5, <1>6, <1>7, <1>8, <1>9 DEF RunSound, Past
<1>. QED
  BY <1>1, <1>2, <1>3, <1>4, <1>10, WorkSound

\* An object leaves the batch once the run is through with it.
LEMMA LeavesBatch ==
    ASSUME Typed, Typed', Orderly, NEW r \in RunIds, NEW o \in Obj, runs[r].pc = "verify", ~runs[r].cancelled,
           Step(r, [runs[r] EXCEPT !.batch = @ \ {o}]), Tide, o \in Passed'[filter],
           UNCHANGED <<pers, call, active, filter>>
    PROVE  Orderly'
<1>. PICK run : run = runs[r]
  OBVIOUS
<1>2. /\ Live(r) /\ RunSound(r) /\ active = r /\ run.st = clock /\ run \in RunType /\ filter \in SUBSET Vol
      /\ \A rec : Step(r, rec) => runs'[r] = rec
  BY AtWork
<1>3. Passed[filter] \subseteq Passed'[filter]
  BY <1>2, PassedKept
<1>. PICK rec : rec = [run EXCEPT !.batch = @ \ {o}]
  OBVIOUS
<1>4. Step(r, rec) /\ runs'[r] = rec
  BY <1>2
<1>5. /\ rec.pc = run.pc /\ rec.st = run.st /\ rec.cursor = run.cursor /\ rec.batch = run.batch \ {o} /\ rec.top = run.top
      /\ rec.todo = run.todo /\ rec.done = run.done
  BY <1>2 DEF RunType
<1>6. /\ 1..run.top \subseteq run.batch \cup Passed[filter]
      /\ \A p \in run.batch : SlicesOf[p] \cap filter \cap steady \subseteq run.todo[p] \cup run.done[p]
  BY <1>2 DEF RunSound
<1>7. 1..rec.top \subseteq rec.batch \cup Passed'[filter]
  BY <1>3, <1>5, <1>6
<1>8. /\ active' = r /\ filter' = filter /\ clock' = clock /\ pers' = pers /\ steady' \subseteq steady
      /\ pers.started # None => filter = pers.filter
      /\ Past(run.cursor, filter)
  BY <1>2 DEF RunSound, Tide
<1>9. RunSound(r)'
  BY <1>2, <1>3, <1>4, <1>5, <1>6, <1>7, <1>8 DEF RunSound, Past
<1>. QED
  BY <1>2, <1>4, <1>9, WorkSound

\* An object is stamped, or recorded as lost.
LEMMA VerifiedSound ==
    ASSUME Typed, Typed', Orderly, NEW r \in RunIds, NEW o \in Obj,
           updateObjectVerificationState(r, o) \/ LoadFails(r, o)
    PROVE  Orderly'
<1>. PICK run : run = runs[r]
  OBVIOUS
<1>1. /\ UNCHANGED <<pers, call, up, steady, clock, active, filter>> /\ run.pc = "verify" /\ ~run.cancelled
      /\ o \in run.batch /\ Step(r, [run EXCEPT !.batch = @ \ {o}])
  BY DEF updateObjectVerificationState, LoadFails, bounds
<1>2. /\ Live(r) /\ RunSound(r) /\ active = r /\ run.st = clock /\ run \in RunType /\ filter \in SUBSET Vol
      /\ steady \subseteq up /\ clock \in Nat /\ stamp \in [Obj -> [Vol -> 0..clock]]
  BY <1>1, AtWork
<1>3. CASE updateObjectVerificationState(r, o)
  <2>1. /\ stamp' = [stamp EXCEPT ![o] = [v \in Vol |-> IF v \in run.done[o] THEN clock ELSE stamp[o][v]]]
        /\ run.todo[o] = {} /\ lost' = lost
    BY <1>2, <1>3 DEF updateObjectVerificationState
  <2>2. \A p \in Obj, v \in Vol : stamp'[p][v] >= stamp[p][v]
    <3>1. ASSUME NEW p \in Obj, NEW v \in Vol
          PROVE  stamp'[p][v] >= stamp[p][v]
      <4>1. PICK a \in 0..clock : a = stamp[p][v]
        <5>1. stamp[p] \in [Vol -> 0..clock]
          BY <1>2
        <5>2. stamp[p][v] \in 0..clock
          BY <5>1
        <5>. QED
          BY <5>2
      <4>2. stamp'[p][v] = a \/ stamp'[p][v] = clock
        BY <1>2, <2>1, <4>1
      <4>. QED
        BY <1>2, <4>1, <4>2
    <3>. QED
      BY <3>1
  <2>3. Tide
    BY <1>1, <2>1, <2>2 DEF Tide
  <2>4. \A v \in SlicesOf[o] \cap filter \cap steady : stamp'[o][v] >= clock
    <3>1. ASSUME NEW v \in SlicesOf[o] \cap filter \cap steady
          PROVE  stamp'[o][v] = clock
      <4>1. v \in run.done[o]
        BY <1>1, <1>2, <2>1 DEF RunSound
      <4>. QED
        BY <1>2, <2>1, <4>1
    <3>. QED
      BY <1>2, <3>1
  <2>5. o \in Passed'[filter]
    <3>1. Through(o, clock, filter)'
      BY <1>1, <2>4 DEF Through
    <3>2. Passed' = [g \in SUBSET Vol |-> {p \in Obj : Through(p, clock, g)'}]
      BY DEF Passed
    <3>. QED
      BY <1>1, <1>2, <3>1, <3>2
  <2>. QED
    BY <1>1, <2>3, <2>5, LeavesBatch
<1>4. CASE LoadFails(r, o)
  <2>1. stamp' = stamp /\ lost' = lost \cup {o}
    BY <1>4 DEF LoadFails
  <2>2. Tide
    <3>1. ASSUME NEW p \in Obj, NEW v \in Vol
          PROVE  stamp'[p][v] >= stamp[p][v]
      <4>1. PICK a \in 0..clock : a = stamp[p][v]
        <5>1. stamp[p] \in [Vol -> 0..clock]
          BY <1>2
        <5>2. stamp[p][v] \in 0..clock
          BY <5>1
        <5>. QED
          BY <5>2
      <4>. QED
        BY <1>2, <2>1, <4>1
    <3>. QED
      BY <1>1, <2>1, <3>1 DEF Tide
  <2>3. o \in Passed'[filter]
    <3>1. \A g : Through(o, clock, g)'
      BY <2>1 DEF Through
    <3>2. Passed' = [g \in SUBSET Vol |-> {p \in Obj : Through(p, clock, g)'}]
      BY DEF Passed
    <3>. QED
      BY <1>1, <1>2, <3>1, <3>2
  <2>. QED
    BY <1>1, <2>2, <2>3, LeavesBatch
<1>. QED
  BY <1>3, <1>4

\* The cursor moves behind the batch.
LEMMA AdvanceSound ==
    ASSUME Typed, Typed', Orderly, NEW r \in RunIds, advanceCursor(r)
    PROVE  Orderly'
<1>. PICK run : run = runs[r]
  OBVIOUS
<1>1. UNCHANGED <<stamp, call, up, steady, lost, clock>> /\ run.pc = "verify"
  BY DEF advanceCursor, bounds
<1>2. CASE run.cancelled
  <2>1. Step(r, NoRun) /\ Settle(r) /\ UNCHANGED pers
    BY <1>2 DEF advanceCursor
  <2>. QED
    BY <1>1, <2>1, EndSound
<1>3. CASE ~run.cancelled
  <2>1. /\ Live(r) /\ RunSound(r) /\ active = r /\ run.st = clock /\ run \in RunType /\ filter \in SUBSET Vol
        /\ pers \in [started : 0..clock, filter : SUBSET Vol, cursor : 0..NObjects]
        /\ \A rec : Step(r, rec) => runs'[r] = rec
    BY <1>1, <1>3, AtWork
  <2>2. Passed' = Passed
    BY <1>1 DEF Passed, Through
  <2>3. /\ Step(r, [run EXCEPT !.pc = "batch", !.cursor = run.top]) /\ pers' = [pers EXCEPT !.cursor = run.top]
        /\ UNCHANGED <<active, filter>> /\ run.batch = {}
    BY <1>3, <2>1 DEF advanceCursor
  <2>. PICK rec : rec = [run EXCEPT !.pc = "batch", !.cursor = run.top]
    OBVIOUS
  <2>4. rec.pc = "batch" /\ rec.st = clock /\ rec.cursor = run.top
    BY <2>1 DEF RunType
  <2>5. runs'[r] = rec /\ Step(r, rec)
    BY <2>1, <2>3
  <2>6. pers'.started = pers.started /\ pers'.filter = pers.filter /\ pers'.cursor = run.top
    BY <2>1, <2>3
  <2>7. Past(run.top, filter) /\ (pers.started # None => filter = pers.filter)
    BY <1>1, <2>1, <2>3 DEF RunSound, Past
  <2>8. RunSound(r)'
    BY <1>1, <2>1, <2>2, <2>3, <2>4, <2>5, <2>6, <2>7 DEF RunSound, Past
  <2>9. Resumable'
    BY <1>1, <2>2, <2>6, <2>7 DEF Orderly, Resumable, Past
  <2>10. ASSUME NEW c \in Callers
         PROVE  CallSound(call[c])'
    <3>. PICK k : k = call[c]
      OBVIOUS
    <3>1. CallSound(k) /\ k.pc \notin Starting /\ (k.pc \in {"resumeFilter", "resumeCursor", "relaunch"} => pers.started # None)
      BY <1>1, <2>1, CallersWait DEF Orderly
    <3>2. /\ k.pc \in {"resumeFilter", "resumeCursor", "relaunch"} => k.ex = clock'
          /\ k.pc \in {"clear2", "clear3"} => pers'.started = None
          /\ k.pc \in {"resumeCursor", "relaunch"} => pers'.started = None \/ k.filter = pers'.filter
      BY <1>1, <2>6, <3>1 DEF CallSound
    <3>3. /\ k.pc = "resumeFilter" => Past(run.top, pers.filter)
          /\ k.pc = "resumeCursor" => Past(run.top, k.filter)
          /\ k.pc = "relaunch" => Past(k.cursor, k.filter)
      BY <2>7, <3>1 DEF CallSound
    <3>4. CallSound(k)'
      BY <2>2, <2>6, <3>1, <3>2, <3>3 DEF CallSound, Starting, Past
    <3>. QED
      BY <1>1, <3>4 DEF CallSound
  <2>. QED
    BY <1>1, <2>1, <2>3, <2>5, <2>8, <2>9, <2>10, OneMoves
<1>. QED
  BY <1>2, <1>3

\* The run completes: it clears the checkpoint, or leaves it to its owner.
LEMMA FinalizeSound ==
    ASSUME Typed, Typed', Orderly, NEW r \in RunIds, finalize(r)
    PROVE  Orderly'
<1>. PICK run : run = runs[r]
  OBVIOUS
<1>1. UNCHANGED <<stamp, call, up, steady, lost, clock>> /\ run.pc \in {"fin1", "fin2", "fin3"}
  BY DEF finalize, bounds
<1>2. CASE run.pc = "fin1" /\ (run.cancelled \/ active # r)
  <2>1. Step(r, NoRun) /\ Settle(r) /\ UNCHANGED pers
    BY <1>2 DEF finalize
  <2>. QED
    BY <1>1, <2>1, EndSound
<1>3. CASE run.pc = "fin3"
  <2>1. Step(r, NoRun) /\ Settle(r) /\ UNCHANGED pers
    BY <1>3 DEF finalize
  <2>. QED
    BY <1>1, <2>1, EndSound
<1>4. CASE (run.pc = "fin1" /\ ~(run.cancelled \/ active # r)) \/ run.pc = "fin2"
  <2>1. /\ Live(r) /\ RunSound(r) /\ active = r /\ run.st = clock /\ run \in RunType /\ filter \in SUBSET Vol
        /\ pers \in [started : 0..clock, filter : SUBSET Vol, cursor : 0..NObjects]
        /\ \A rec : Step(r, rec) => runs'[r] = rec
    BY <1>1, <1>4, AtWork
  <2>2. Passed' = Passed
    BY <1>1 DEF Passed, Through
  <2>3. Past(NObjects, filter) /\ Past(run.cursor, filter)
    BY <1>1, <2>1 DEF RunSound
  <2>4. /\ UNCHANGED <<active, filter>>
        /\ \/ Step(r, [run EXCEPT !.pc = "fin2"])
           \/ Step(r, [run EXCEPT !.pc = "fin3"])
        /\ pers'.started = None
    BY <1>4, <2>1 DEF finalize, RunSound
  <2>5. PICK rec : Step(r, rec) /\ rec.pc \in {"fin2", "fin3"} /\ rec.st = clock /\ rec.cursor = run.cursor
    <3>1. /\ [run EXCEPT !.pc = "fin2"].pc = "fin2" /\ [run EXCEPT !.pc = "fin2"].st = clock
          /\ [run EXCEPT !.pc = "fin2"].cursor = run.cursor
          /\ [run EXCEPT !.pc = "fin3"].pc = "fin3" /\ [run EXCEPT !.pc = "fin3"].st = clock
          /\ [run EXCEPT !.pc = "fin3"].cursor = run.cursor
      BY <2>1 DEF RunType
    <3>. QED
      BY <2>4, <3>1
  <2>6. runs'[r] = rec
    BY <2>1, <2>5
  <2>7. RunSound(r)'
    BY <1>1, <2>1, <2>2, <2>3, <2>4, <2>5, <2>6 DEF RunSound, Past
  <2>8. Resumable'
    BY <2>4 DEF Resumable
  <2>9. ASSUME NEW q \in RunIds, Live(q)'
        PROVE  runs'[q].pc \in {"fin2", "fin3"}
    <3>1. CASE q = r
      BY <2>5, <2>6, <3>1
    <3>2. CASE q # r
      <4>1. runs'[q] = runs[q]
        BY <2>5, <3>2 DEF Step, Typed, Machine
      <4>2. Live(q)
        BY <2>9, <4>1 DEF Live
      <4>. QED
        BY <2>1, <3>2, <4>2 DEF Orderly, RunSound
    <3>. QED
      BY <3>1, <3>2
  <2>10. ASSUME NEW c \in Callers
         PROVE  CallSound(call[c])'
    <3>. PICK k : k = call[c]
      OBVIOUS
    <3>1. CallSound(k) /\ k.pc \notin Starting
      BY <2>1, CallersWait DEF Orderly
    <3>2. /\ k.pc \in {"resumeFilter", "resumeCursor", "relaunch"} => k.ex = clock'
          /\ k.pc = "relaunch" => Past(k.cursor, k.filter)
      BY <1>1, <3>1 DEF CallSound
    <3>3. /\ k.pc = "resumeFilter" => Past(pers'.cursor, pers'.filter)
          /\ k.pc = "resumeCursor" => Past(pers'.cursor, k.filter)
      <4>1. CASE run.pc = "fin2"
        <5>1. pers'.cursor = None
          BY <1>4, <2>1, <4>1 DEF finalize
        <5>. QED
          BY <5>1 DEF Past
      <4>2. CASE run.pc # "fin2"
        <5>1. pers'.cursor = pers.cursor /\ pers'.filter = pers.filter
          BY <1>4, <2>1, <4>2 DEF finalize
        <5>. QED
          BY <3>1, <5>1 DEF CallSound
      <4>. QED
        BY <4>1, <4>2
    <3>4. CallSound(k)'
      BY <2>2, <2>4, <2>9, <3>1, <3>2, <3>3 DEF CallSound, Starting, Past
    <3>. QED
      BY <1>1, <3>4 DEF CallSound
  <2>. QED
    BY <1>1, <2>1, <2>4, <2>5, <2>7, <2>8, <2>10, OneMoves
<1>. QED
  BY <1>1, <1>2, <1>3, <1>4

\* Callers once tangled stay tangled.
LEMMA TangledStays ==
    ASSUME Next, ~tangled'
    PROVE  ~tangled
<1>1. ASSUME NEW c \in Callers, NEW k, goto(c, k)
      PROVE  ~tangled
  BY <1>1 DEF goto
<1>2. ASSUME NEW c \in Callers, StartEnter(c) \/ CallStep(c)
      PROVE  \E k : goto(c, k)
  BY <1>2 DEF StartEnter, CallStep, startGuard, StartRead,
      loadPersistedVolumeFilter, loadPersistedCursorId,
       persistVolumeFilter, DropCursor, PutStarted, StartLaunch, resumePendingJob,
           ResumeRead, ResumeLaunch,
       Drained, Abandon, clearPersistedRun, AfterDrain, leave
<1>3. ASSUME stop \/ pauseForRebalance \/ releaseForRebalance \/ setMaintenanceFrozen
      PROVE  \E c \in Callers : \E k : goto(c, k)
  BY <1>3 DEF stop, pauseForRebalance, releaseForRebalance, setMaintenanceFrozen,
      stopEnter, resumeEnter, leave
<1>4. ASSUME NEW r \in RunIds, RunStep(r)
      PROVE  tangled' = tangled
  BY <1>4 DEF RunStep, execute, verifySlice, updateObjectVerificationState,
      LoadFails, advanceCursor, finalize
<1>5. ASSUME Unfreeze \/ (\E v \in Vol : VolumeChanges(v)) \/ Restart
      PROVE  tangled' = tangled
  BY <1>5 DEF Unfreeze, VolumeChanges, Restart
<1>. QED
  BY <1>1, <1>2, <1>3, <1>4, <1>5 DEF Next

\* Every step keeps the histories orderly.
LEMMA SoundStep ==
    ASSUME Typed, Typed', Owned, Sound, [Next]_vars, Wedges \cap {"fin2", "fin3"} = {}
    PROVE  Sound'
<1>1. CASE UNCHANGED vars
  <2>1. ~tangled => Orderly'
    BY <1>1, OutsidersSound DEF Sound
  <2>2. tangled' = tangled
    BY <1>1 DEF vars
  <2>. QED
    BY <2>1, <2>2 DEF Sound
<1>2. CASE Next
  <2>1. SUFFICES ASSUME ~tangled' PROVE Orderly'
    BY DEF Sound
  <2>2. ~tangled /\ Orderly
    BY <1>2, <2>1, TangledStays DEF Sound
  <2>3. ASSUME NEW c \in Callers, StartEnter(c) \/ CallStep(c)
        PROVE  Orderly'
    BY <2>1, <2>2, <2>3, ReadsSound, WritesSound, LaunchesSound, DrainsSound DEF
        CallStep
  <2>4. ASSUME NEW r \in RunIds, RunStep(r)
        PROVE  Orderly'
    BY <2>2, <2>4, ExecuteSound, VerifySliceSound, VerifiedSound, AdvanceSound,
        FinalizeSound DEF RunStep
  <2>5. CASE stop \/ setMaintenanceFrozen \/ pauseForRebalance \/ releaseForRebalance
    BY <2>1, <2>2, <2>5, StopsSound
  <2>6. CASE Unfreeze \/ (\E v \in Vol : VolumeChanges(v)) \/ Restart
    BY <2>2, <2>6, OutsidersSound
  <2>. QED
    BY <1>2, <2>3, <2>4, <2>5, <2>6 DEF Next
<1>. QED
  BY <1>1, <1>2

\* The initial states.
LEMMA SoundInit ==
    ASSUME Init
    PROVE  Owned /\ OneOwner /\ Sound
<1>1. Idle.pc = "idle" /\ NoRun.pc = "done"
  BY DEF Idle, NoRun
<1>2. /\ \A c \in Callers : call[c].pc = "idle"
      /\ \A r \in RunIds : runs[r].pc = "done"
      /\ pers.started = None
  BY <1>1 DEF Init, NoPers
<1>3. Owned /\ OneOwner
  BY <1>2 DEF Owned, OneOwner
<1>4. \A c \in Callers : CallSound(call[c])
  BY <1>2, OutsideSound DEF Outside
<1>5. Apart
  BY <1>2 DEF Apart, InCheckpoint
<1>6. \A r \in RunIds : ~Live(r)
  BY <1>2 DEF Live
<1>7. Resumable
  BY <1>2 DEF Resumable
<1>. QED
  BY <1>3, <1>4, <1>5, <1>6, <1>7 DEF Sound, Orderly

\* The types imply TypeOK.
LEMMA TypedTypeOK ==
    ASSUME Typed
    PROVE  TypeOK
<1>1. /\ World /\ Machine /\ Talk /\ launched \in Nat /\ launched <= MaxStarts + MaxEvents
  BY LaunchedBound DEF Typed
<1>2. ASSUME NEW r \in RunIds
      PROVE  /\ runs[r].pc \in Phases /\ runs[r].batch \subseteq Obj
             /\ runs[r].st \in 0..clock /\ runs[r].cursor \in 0..NObjects
  BY <1>1 DEF Machine, RunType
<1>3. ASSUME NEW c \in Callers
      PROVE  call[c].run \in RunIds \cup {None}
  <2>1. call[c].run \in 0..launched
    BY <1>1 DEF Talk, CallType
  <2>. QED
    BY <1>1, <2>1
<1>4. active \in RunIds \cup {None}
  BY <1>1 DEF Machine
<1>. QED
  BY <1>1, <1>2, <1>3, <1>4 DEF TypeOK, World

\* Every run that is not cancelled owns the job: two are never at work together, whichever callers
\* overlap in start(), resumePendingJob() and stop(), and whatever outlives stop()'s wait
\* (verify-volumes-job.ts launch, stop).
THEOREM JobOwned == Spec => [](TypeOK /\ OneOwner)
<1>1. Init => Typed /\ Owned /\ OneOwner
  BY TypedInit, SoundInit
<1>2. Typed /\ Owned /\ OneOwner /\ [Next]_vars => (Typed /\ Owned /\ OneOwner)'
  BY TypedStep, OwnedStep
<1>3. Typed /\ Owned /\ OneOwner => TypeOK /\ OneOwner
  BY TypedTypeOK
<1>. QED
  BY <1>1, <1>2, <1>3, PTL DEF Spec

\* Orderly histories have a sound cursor.
LEMMA SoundCursor ==
    ASSUME Typed, Sound
    PROVE  CursorSound
<1>1. ASSUME pers.started # None, ~tangled, NEW o \in 1..pers.cursor
      PROVE  Through(o, pers.started, pers.filter)
  <2>1. pers.started = clock /\ o \in Passed[pers.filter]
    BY <1>1 DEF Sound, Orderly, Resumable, Past
  <2>2. pers.filter \in SUBSET Vol
    BY DEF Typed, World
  <2>. QED
    BY <2>1, <2>2 DEF Passed
<1>. QED
  BY <1>1 DEF CursorSound

\* The invariant holds, if no database write of finalize() outlives the ten seconds of stop().
LEMMA VInvariant ==
    ASSUME Wedges \cap {"fin2", "fin3"} = {}
    PROVE  Spec => []VInv
<1>1. Init => VInv
  BY TypedInit, SoundInit DEF VInv
<1>2. VInv /\ [Next]_vars => VInv'
  BY TypedStep, OwnedStep, SoundStep DEF VInv
<1>. QED
  BY <1>1, <1>2, PTL DEF Spec

\* What a restart would resume has passed only objects its run is through with (verify-volumes-job.ts
\* start, resumePendingJob, advanceCursor, clearPersistedRun), in histories where one caller at a time
\* was in the checkpoint, if no database write of finalize() outlives the ten seconds of stop().
THEOREM ResumeSafe ==
    ASSUME Wedges \cap {"fin2", "fin3"} = {}
    PROVE  Spec => []VerifySafe
<1>1. Spec => []VInv
  BY VInvariant
<1>2. VInv => VerifySafe
  BY TypedTypeOK, SoundCursor DEF VInv, VerifySafe
<1>. QED
  BY <1>1, <1>2, PTL

\* A run that records itself complete is through with every object.
LEMMA RecordedIsThrough ==
    ASSUME Typed, Sound, [Next]_vars, last' # last, ~tangled
    PROVE  \A o \in Obj : Through(o, last', Vol)
<1>1. PICK r \in RunIds : finalize(r) /\ runs[r].pc = "fin3" /\ filter = Vol /\ last' = runs[r].st
  <2>1. ASSUME NEW c \in Callers, StartEnter(c) \/ CallStep(c)
        PROVE  last' = last
    BY <2>1 DEF StartEnter, CallStep, startGuard, StartRead,
        loadPersistedVolumeFilter, loadPersistedCursorId,
         persistVolumeFilter, DropCursor, PutStarted, StartLaunch, resumePendingJob,
             ResumeRead, ResumeLaunch,
         Drained, Abandon, clearPersistedRun
  <2>2. ASSUME NEW r \in RunIds, RunStep(r)
        PROVE  finalize(r) /\ runs[r].pc = "fin3" /\ filter = Vol /\ last' = runs[r].st
    BY <2>2 DEF RunStep, execute, verifySlice, updateObjectVerificationState,
        LoadFails, advanceCursor, finalize
  <2>. QED
    BY <2>1, <2>2 DEF Next, stop, pauseForRebalance, releaseForRebalance,
        setMaintenanceFrozen, Unfreeze,
         VolumeChanges, Restart, vars
<1>2. RunSound(r)
  BY <1>1 DEF Sound, Orderly, Live
<1>3. last' = clock /\ Obj \subseteq Passed[Vol]
  BY <1>1, <1>2 DEF RunSound, Past
<1>4. ASSUME NEW o \in Obj
      PROVE  Through(o, clock, Vol)
  <2>1. o \in Passed[Vol] /\ Vol \in SUBSET Vol
    BY <1>3
  <2>. QED
    BY <2>1 DEF Passed
<1>5. ASSUME NEW o \in Obj
      PROVE  Through(o, last', Vol)
  BY <1>3, <1>4 DEF Through
<1>. QED
  BY <1>5

\* lastVerify is recorded only by a run that is through with every object of the store
\* (verify-volumes-job.ts execute, its finally), under the same conditions.
THEOREM FullRunsAreFull ==
    ASSUME Wedges \cap {"fin2", "fin3"} = {}
    PROVE  Spec => FullMeansFull
<1>1. Spec => []VInv
  BY VInvariant
<1>2. VInv /\ [Next]_vars => [last' # last /\ ~tangled => \A o \in Obj : Through(o, last', Vol)]_vars
  BY RecordedIsThrough DEF VInv
<1>. QED
  BY <1>1, <1>2, PTL DEF Spec, FullMeansFull
=============================================================================
