-------------------------- MODULE ListenersProofs --------------------------
(***************************************************************************)
(* Proofs about Listeners: every variable keeps its type, no redirect      *)
(* stays up after an apply that leaves no HTTPS listener, an address that  *)
(* cannot be bound costs no listener, a rollback starts only for a change  *)
(* nobody has confirmed, and a rollback nobody interfered with installs    *)
(* the configuration from before the change.                               *)
(***************************************************************************)
EXTENDS Listeners, TLAPS

\* Threads that hold something a later step of theirs will install.
Working(x) == thread[x].stage \notin {"idle", "ticking", "fired"}

\* With basis set a single save or rollback is under way, or a rollback waits
\* for its timer; and whatever it is, it leads back to basis.
Alone == \A x, y \in Thread : Working(x) /\ Working(y) => x = y

Waiting == pending => restore = basis /\ \A x \in Thread : ~Working(x)

SaveFrom(r) == Working(r) => Effective(thread[r].stored) = basis

LeadsBack(x) ==
  /\ At(x, "undo") => thread[x].form = basis
  /\ At(x, "reload") => Effective(table) = basis
  /\ At(x, "install") => thread[x].next = basis

RollbackInv ==
  basis # None => /\ Alone /\ Waiting
                  /\ \A r \in Request : SaveFrom(r)
                  /\ \A x \in Timer : LeadsBack(x)

PendingIsOpen == pending => open

-----------------------------------------------------------------------------
(* Sections, configurations and what a thread holds.                       *)

\* Over lists a section field by field.
LEMMA OverFields ==
  ASSUME NEW s, NEW f
  PROVE  Over(s, f) = [mode     |-> IF f.mode = Unset THEN s.mode ELSE f.mode,
                       addr     |-> IF f.addr = Unset THEN s.addr ELSE f.addr,
                       redirect |-> IF f.redirect = Unset THEN s.redirect ELSE f.redirect]
  BY DEF Over, Key, Default

\* An upsert keeps a section a section.
LEMMA OverType ==
  ASSUME NEW s \in Section, NEW f \in Section
  PROVE  Over(s, f) \in Section
  BY OverFields DEF Section

\* Defaults make a section a configuration.
LEMMA EffectiveType ==
  ASSUME NEW s \in Section
  PROVE  Effective(s) \in Config
<1>1. /\ s.mode \in Mode \cup {Unset} /\ s.addr \in Addr \cup {Unset} /\ s.redirect \in BOOLEAN \cup {Unset}
  BY DEF Section
<1>2. Effective(s) = [mode     |-> IF s.mode = Unset THEN "proxy" ELSE s.mode,
                      addr     |-> IF s.addr = Unset THEN DefaultAddr ELSE s.addr,
                      redirect |-> IF s.redirect = Unset THEN FALSE ELSE s.redirect]
  BY OverFields DEF Effective, Default
<1> DEFINE mode     == IF s.mode = Unset THEN "proxy" ELSE s.mode
           addr     == IF s.addr = Unset THEN DefaultAddr ELSE s.addr
           redirect == IF s.redirect = Unset THEN FALSE ELSE s.redirect
<1>3. mode \in Mode
  BY <1>1 DEF Mode
<1>4. addr \in Addr
  BY <1>1, AddrAssumption
<1>5. redirect \in BOOLEAN
  BY <1>1
<1>6. Effective(s) = [mode |-> mode, addr |-> addr, redirect |-> redirect]
  BY <1>2
<1> HIDE DEF mode, addr, redirect
<1> QED BY <1>3, <1>4, <1>5, <1>6 DEF Config

\* A configuration is a section with a row for every key, and saving all of
\* them brings it back whatever the table held.
LEMMA ConfigIsSection == Config \subseteq Section
  BY DEF Config, Section

LEMMA SavedWhole ==
  ASSUME NEW s, NEW c \in Config
  PROVE  Over(s, c) = c /\ Effective(c) = c
<1>1. c.mode # Unset /\ c.addr # Unset /\ c.redirect # Unset
  BY UnsetAssumption, AddrAssumption DEF Config, Mode
<1>2. c = [mode |-> c.mode, addr |-> c.addr, redirect |-> c.redirect]
  BY DEF Config
<1> QED BY <1>1, <1>2, OverFields DEF Effective
\* What a step changes of one thread keeps the thread a thread.
LEMMA ThreadFields ==
  ASSUME NEW t \in ThreadState, NEW stage \in Stage
  PROVE  /\ [t EXCEPT !.stage = stage] \in ThreadState
         /\ \A f \in Section : [t EXCEPT !.stage = stage, !.form = f] \in ThreadState
         /\ \A c \in Config : [t EXCEPT !.stage = stage, !.prev = c] \in ThreadState
         /\ \A c \in Config : [t EXCEPT !.stage = stage, !.next = c] \in ThreadState
         /\ \A f \in Section, c \in Config : [t EXCEPT !.stage = stage, !.form = f, !.next = c] \in ThreadState
  BY DEF ThreadState

LEMMA IdleType == Idle \in ThreadState /\ Blank \in Section /\ Default \in Config
<1>1. Blank \in Section
  BY DEF Blank, Section
<1>2. Default \in Config
  BY AddrAssumption DEF Default, Config, Mode
<1> QED BY <1>1, <1>2 DEF Idle, ThreadState, Stage
-----------------------------------------------------------------------------
(* Every variable keeps its type.                                          *)

LEMMA TypeInit == Init => TypeOK
<1> SUFFICES ASSUME Init PROVE TypeOK
  OBVIOUS
<1>1. armed \in 0 .. MaxArmed
  BY MaxArmedAssumption DEF Init
<1> QED BY <1>1, IdleType DEF Init, TypeOK

\* A step of one thread.
LEMMA StageTypes ==
  ASSUME TypeOK, NEW x \in Thread, NEW stage \in Stage
  PROVE  /\ Go(x, stage) => thread' \in [Thread -> ThreadState]
         /\ Finish(x) => thread' \in [Thread -> ThreadState]
         /\ \A f \in Section : thread' = [thread EXCEPT ![x].stage = stage, ![x].form = f]
                                 => thread' \in [Thread -> ThreadState]
         /\ \A c \in Config : thread' = [thread EXCEPT ![x].stage = stage, ![x].prev = c]
                                => thread' \in [Thread -> ThreadState]
         /\ \A c \in Config : thread' = [thread EXCEPT ![x].stage = stage, ![x].next = c]
                                => thread' \in [Thread -> ThreadState]
<1> DEFINE t == thread[x]
<1>1. t \in ThreadState /\ thread \in [Thread -> ThreadState]
  BY DEF TypeOK
<1>2. ASSUME NEW u \in ThreadState, thread' = [thread EXCEPT ![x] = u]
      PROVE  thread' \in [Thread -> ThreadState]
  BY <1>1, <1>2
<1>3. Go(x, stage) => thread' \in [Thread -> ThreadState]
  <2> SUFFICES ASSUME Go(x, stage) PROVE thread' \in [Thread -> ThreadState]
    OBVIOUS
  <2>1. thread' = [thread EXCEPT ![x] = [t EXCEPT !.stage = stage]]
    BY DEF Go
  <2> HIDE DEF t
  <2> QED BY <1>1, <1>2, <2>1, ThreadFields
<1>4. Finish(x) => thread' \in [Thread -> ThreadState]
  BY <1>2, IdleType DEF Finish
<1>5. ASSUME NEW f \in Section, thread' = [thread EXCEPT ![x].stage = stage, ![x].form = f]
      PROVE  thread' \in [Thread -> ThreadState]
  <2>1. thread' = [thread EXCEPT ![x] = [t EXCEPT !.stage = stage, !.form = f]]
    BY <1>1, <1>5
  <2> HIDE DEF t
  <2> QED BY <1>1, <1>2, <2>1, ThreadFields
<1>6. ASSUME NEW c \in Config, thread' = [thread EXCEPT ![x].stage = stage, ![x].prev = c]
      PROVE  thread' \in [Thread -> ThreadState]
  <2>1. thread' = [thread EXCEPT ![x] = [t EXCEPT !.stage = stage, !.prev = c]]
    BY <1>1, <1>6
  <2> HIDE DEF t
  <2> QED BY <1>1, <1>2, <2>1, ThreadFields
<1>7. ASSUME NEW c \in Config, thread' = [thread EXCEPT ![x].stage = stage, ![x].next = c]
      PROVE  thread' \in [Thread -> ThreadState]
  <2>1. thread' = [thread EXCEPT ![x] = [t EXCEPT !.stage = stage, !.next = c]]
    BY <1>1, <1>7
  <2> HIDE DEF t
  <2> QED BY <1>1, <1>2, <2>1, ThreadFields
<1> QED BY <1>3, <1>4, <1>5, <1>6, <1>7

\* A timer is stopped.
LEMMA StoppedType ==
  ASSUME TypeOK
  PROVE  Stopped(thread) \in [Thread -> ThreadState]
  BY IdleType DEF Stopped, TypeOK

\* What the listener is after apply has bound or stopped it.
LEMMA BoundType ==
  ASSUME TypeOK, NEW c \in Config, NEW ok \in BOOLEAN, Bound(c, ok)
  PROVE  tls' \in Addr \cup {None}
<1>1. c.addr \in Addr
  BY DEF Config
<1> QED BY <1>1 DEF Bound, TypeOK

LEMMA TypeStep == TypeOK /\ [Next]_vars => TypeOK'
<1> SUFFICES ASSUME TypeOK, [Next]_vars PROVE TypeOK'
  OBVIOUS
<1> USE DEF listener, commit, history
\* All but the table, the configuration and the threads stay as they are.
<1>1. ASSUME UNCHANGED <<listener, commit, armed, open>>,
             table' \in Section, conf' \in Config, basis' \in Config \cup {None},
             thread' \in [Thread -> ThreadState]
      PROVE  TypeOK'
  BY <1>1 DEF TypeOK
<1>2. /\ table \in Section /\ conf \in Config /\ basis \in Config \cup {None} /\ restore \in Section
      /\ \A x \in Thread : thread[x] \in ThreadState
      /\ \A x \in Thread : /\ thread[x].form \in Section /\ thread[x].stored \in Section
                           /\ thread[x].prev \in Config /\ thread[x].next \in Config
  BY DEF TypeOK, ThreadState
<1>3. \A x \in Request : x \in Thread
  BY DEF Thread
<1>4. \A x \in Timer : x \in Thread
  BY DEF Thread
<1>5. {"idle", "loaded", "reload", "install", "choose", "apply", "served", "kept",
      "arm", "ticking", "fired", "undo"} = Stage
  BY DEF Stage
<1>6. ASSUME NEW r \in Request, NEW form \in Form, Submit(r, form) PROVE TypeOK'
  <2>1. form \in Section
    BY FormAssumption DEF Section, Mode
  <2>2. [Idle EXCEPT !.stage = "loaded", !.form = form, !.stored = table] \in ThreadState
    BY <1>2, <1>5, <2>1, IdleType DEF ThreadState
  <2>3. thread' \in [Thread -> ThreadState]
    <3> DEFINE u == [Idle EXCEPT !.stage = "loaded", !.form = form, !.stored = table]
    <3>1. thread' = [thread EXCEPT ![r] = u] /\ u \in ThreadState
      BY <1>6, <2>2 DEF Submit
    <3> HIDE DEF u
    <3> QED BY <3>1 DEF TypeOK
  <2>4. basis' \in Config \cup {None}
    BY <1>2, <1>6 DEF Submit
  <2> QED BY <1>1, <1>2, <1>6, <2>3, <2>4 DEF Submit
<1>7. ASSUME NEW r \in Request, SubmitOther(r) PROVE TypeOK'
  BY <1>1, <1>2, <1>3, <1>5, <1>7, StageTypes DEF SubmitOther
<1>8. ASSUME NEW r \in Request, Write(r) PROVE TypeOK'
  <2>1. thread' \in [Thread -> ThreadState]
    BY <1>2, <1>3, <1>5, <1>8, StageTypes DEF Write
  <2>2. table' \in Section
    BY <1>2, <1>3, <1>8, OverType DEF Write
  <2> QED BY <1>1, <1>2, <1>8, <2>1, <2>2 DEF Write
<1>9. ASSUME NEW r \in Request, WriteFails(r) \/ Harmless(r) PROVE TypeOK'
  <2>1. Finish(r) /\ UNCHANGED <<table, conf, listener, commit, history>>
    BY <1>9 DEF WriteFails, Harmless
  <2> QED BY <1>1, <1>2, <1>3, <1>5, <2>1, StageTypes
<1>10. ASSUME NEW r \in Request, NEW x \in Timer, Arm(r, x) PROVE TypeOK'
  <2>1. Restoring(thread[r].stored) \in Section
    BY <1>2, <1>3, EffectiveType, ConfigIsSection DEF Restoring
  <2>2. thread' \in [Thread -> ThreadState]
    <3> DEFINE u == [Idle EXCEPT !.stage = "ticking"]
    <3>1. u \in ThreadState /\ Stopped(thread) \in [Thread -> ThreadState]
      BY <1>5, IdleType, ThreadFields, StoppedType
    <3>2. thread' = [Stopped(thread) EXCEPT ![r] = Idle, ![x] = u]
      BY <1>10 DEF Arm, Begin
    <3> HIDE DEF u
    <3> QED BY <3>1, <3>2, IdleType
  <2>3. armed' \in 0 .. MaxArmed
    BY <1>10, MaxArmedAssumption DEF Arm, TypeOK
  <2>4. /\ pending' \in BOOLEAN /\ timer' \in Timer \cup {None} /\ restore' \in Section /\ open' \in BOOLEAN
        /\ UNCHANGED <<table, conf, listener, basis>>
    BY <1>10, <2>1 DEF Arm, Begin
  <2> QED BY <2>2, <2>3, <2>4 DEF TypeOK
<1>11. ASSUME NEW x \in Timer, Fire(x) \/ ConsumeNothing(x) \/ UndoFails(x) PROVE TypeOK'
  <2>1. (Go(x, "fired") \/ Finish(x)) /\ UNCHANGED <<table, conf, listener, commit, history>>
    BY <1>11 DEF Fire, ConsumeNothing, UndoFails
  <2> QED BY <1>1, <1>2, <1>4, <1>5, <2>1, StageTypes
<1>12. ASSUME NEW x \in Timer, Consume(x) PROVE TypeOK'
  <2>1. thread' \in [Thread -> ThreadState]
    BY <1>2, <1>4, <1>5, <1>12, StageTypes DEF Consume
  <2> QED BY <1>12, <2>1, IdleType DEF Consume, TypeOK
<1>13. ASSUME NEW x \in Timer, Undo(x) PROVE TypeOK'
  <2>1. thread' \in [Thread -> ThreadState]
    BY <1>4, <1>5, <1>13, IdleType, StageTypes DEF Undo
  <2>2. table' \in Section
    BY <1>2, <1>4, <1>13, OverType DEF Undo
  <2> QED BY <1>1, <1>2, <1>13, <2>1, <2>2 DEF Undo
<1>14. ASSUME NEW x \in Thread, Reload(x) PROVE TypeOK'
  <2>1. Effective(table) \in Config
    BY <1>2, EffectiveType
  <2>2. thread' \in [Thread -> ThreadState]
    BY <1>5, <1>14, <2>1, StageTypes DEF Reload
  <2> QED BY <1>1, <1>2, <1>14, <2>2 DEF Reload
<1>15. ASSUME NEW x \in Thread, ReloadFails(x) PROVE TypeOK'
  <2>1. thread' \in [Thread -> ThreadState]
    BY <1>5, <1>15, IdleType, StageTypes DEF ReloadFails
  <2> QED BY <1>1, <1>2, <1>15, <2>1 DEF ReloadFails
<1>16. ASSUME NEW x \in Thread, Install(x) PROVE TypeOK'
  <2>1. [thread[x] EXCEPT !.stage = "choose", !.form = Blank, !.next = Default] \in ThreadState
    BY <1>2, <1>5, IdleType, ThreadFields
  <2>2. thread' \in [Thread -> ThreadState]
    <3> DEFINE u == [thread[x] EXCEPT !.stage = "choose", !.form = Blank, !.next = Default]
               v == IF Reconciles(x) THEN u ELSE Idle
    <3>1. thread' = [thread EXCEPT ![x] = v]
      BY <1>16 DEF Install
    <3>2. v \in ThreadState
      BY <2>1, IdleType
    <3> HIDE DEF v
    <3> QED BY <3>1, <3>2 DEF TypeOK
  <2> QED BY <1>1, <1>2, <1>16, <2>2 DEF Install
<1>17. ASSUME NEW x \in Thread, Choose(x) PROVE TypeOK'
  BY <1>1, <1>2, <1>5, <1>17, StageTypes DEF Choose
<1>18. ASSUME NEW x \in Thread, NEW ok \in BOOLEAN, Apply(x, ok) PROVE TypeOK'
  <2>1. thread' \in [Thread -> ThreadState]
    BY <1>5, <1>18, StageTypes DEF Apply
  <2>2. tls' \in Addr \cup {None}
    BY <1>2, <1>18, BoundType DEF Apply
  <2> QED BY <1>18, <2>1, <2>2 DEF Apply, TypeOK
<1>22. ASSUME NEW x \in Thread, SetFront(x) PROVE TypeOK'
  <2>1. thread' \in [Thread -> ThreadState]
    BY <1>5, <1>22, StageTypes DEF SetFront
  <2>2. front' \in BOOLEAN
    BY <1>2, <1>22 DEF SetFront, Redirects, Config
  <2> QED BY <1>22, <2>1, <2>2 DEF SetFront, TypeOK
<1>19. ASSUME Confirm PROVE TypeOK'
  BY <1>19, IdleType, StoppedType DEF Confirm, TypeOK
<1>20. ASSUME Restart PROVE TypeOK'
  <2>1. conf' \in Config
    BY <1>2, <1>20, EffectiveType DEF Restart
  <2>2. tls' \in Addr \cup {None} /\ front' \in BOOLEAN
    <3>1. conf'.addr \in Addr /\ conf'.redirect \in BOOLEAN
      BY <2>1 DEF Config
    <3> QED BY <1>20, <3>1 DEF Restart
  <2>3. thread' \in [Thread -> ThreadState]
    BY <1>20, IdleType DEF Restart
  <2> QED BY <1>20, <2>1, <2>2, <2>3, IdleType DEF Restart, TypeOK
<1>21. ASSUME UNCHANGED vars PROVE TypeOK'
  BY <1>21 DEF vars, TypeOK
<1> QED
  BY <1>6, <1>7, <1>8, <1>9, <1>10, <1>11, <1>12, <1>13, <1>14, <1>15, <1>16, <1>17, <1>18, <1>19,
     <1>20, <1>21, <1>22 DEF Next, Saving, Expiring, Reloading
-----------------------------------------------------------------------------
(* A rollback leads back to where its change came from.                    *)

LEMMA RollbackInit == Init => RollbackInv /\ PendingIsOpen
  BY DEF Init, RollbackInv, PendingIsOpen

\* A step of one thread that arms nothing and consumes nothing.
LEMMA ThreadStep ==
  ASSUME TypeOK, RollbackInv, NEW x \in Thread,
         \A y \in Thread \ {x} : thread'[y] = thread[y],
         UNCHANGED <<pending, restore, basis>>,
         Working(x)' => Working(x),
         x \in Request /\ Working(x)' => thread'[x].stored = thread[x].stored,
         Working(x) \/ UNCHANGED table,
         basis # None /\ x \in Timer => LeadsBack(x)'
  PROVE  RollbackInv'
<1> SUFFICES ASSUME basis # None
             PROVE  /\ Alone' /\ Waiting'
                    /\ \A r \in Request : SaveFrom(r)'
                    /\ \A c \in Timer : LeadsBack(c)'
  BY DEF RollbackInv
<1>1. /\ Alone /\ Waiting
      /\ \A r \in Request : SaveFrom(r)
      /\ \A c \in Timer : LeadsBack(c)
  BY DEF RollbackInv
<1>2. \A y \in Thread : Working(y)' => Working(y)
  BY DEF Working
<1>3. Alone' /\ Waiting'
  BY <1>1, <1>2 DEF Alone, Waiting
<1>4. ASSUME NEW r \in Request PROVE SaveFrom(r)'
  <2>1. r \in Thread
    BY DEF Thread
  <2>2. Working(r)' => Working(r) /\ thread'[r].stored = thread[r].stored
    BY <1>2, <2>1
  <2> QED BY <1>1, <2>2 DEF SaveFrom, Effective
<1>5. ASSUME NEW c \in Timer, c # x PROVE LeadsBack(c)'
  <2>1. c \in Thread /\ thread'[c] = thread[c]
    BY <1>5 DEF Thread
  <2>2. CASE Working(x)
    <3>1. ~Working(c)
      BY <1>1, <1>5, <2>1, <2>2 DEF Alone
    <3> QED BY <2>1, <3>1 DEF LeadsBack, At, Working
  <2>3. CASE UNCHANGED table
    BY <1>1, <2>1, <2>3 DEF LeadsBack, At, Effective
  <2> QED BY <2>2, <2>3
<1> QED BY <1>3, <1>4, <1>5

LEMMA RollbackStep == TypeOK /\ RollbackInv /\ [Next]_vars => RollbackInv'
<1> SUFFICES ASSUME TypeOK, RollbackInv, [Next]_vars PROVE RollbackInv'
  OBVIOUS
<1> USE DEF commit, history
<1>1. thread \in [Thread -> ThreadState] /\ Request \subseteq Thread /\ Timer \subseteq Thread
  BY DEF TypeOK, Thread
<1>2. \A x \in Timer : x \notin Request
  BY ThreadAssumption
<1>3. basis' = None => RollbackInv'
  BY DEF RollbackInv
<1>4. Idle.stage = "idle"
  BY DEF Idle
\* A thread ends, or goes on without touching the table.
<1>5. ASSUME NEW x \in Thread, Finish(x), UNCHANGED <<table, pending, restore, basis>> PROVE RollbackInv'
  <2>1. thread'[x] = Idle /\ \A y \in Thread \ {x} : thread'[y] = thread[y]
    BY <1>1, <1>5 DEF Finish
  <2>2. ~Working(x)' /\ (x \in Timer => LeadsBack(x)')
    BY <1>4, <2>1 DEF Working, LeadsBack, At
  <2> QED BY <1>5, <2>1, <2>2, ThreadStep
<1>6. ASSUME NEW x \in Thread, NEW stage, Go(x, stage), UNCHANGED <<table, pending, restore, basis>>,
             stage \notin {"undo", "reload", "install"},
             Working(x) \/ stage \in {"idle", "ticking", "fired"}
      PROVE  RollbackInv'
  <2>1. /\ thread'[x].stage = stage /\ thread'[x].stored = thread[x].stored
        /\ \A y \in Thread \ {x} : thread'[y] = thread[y]
    BY <1>1, <1>6 DEF Go, ThreadState
  <2>2. (Working(x)' => Working(x)) /\ LeadsBack(x)'
    BY <1>6, <2>1 DEF Working, LeadsBack, At
  <2> QED BY <1>6, <2>1, <2>2, ThreadStep
\* The only save since the portal rested comes from the configuration it had.
<1>7. ASSUME NEW r \in Request, NEW form \in Form, Submit(r, form), basis' # None PROVE RollbackInv'
  <2>1. /\ Resting /\ conf = Effective(table) /\ basis' = conf /\ pending' = pending
        /\ thread' = [thread EXCEPT ![r] = [Idle EXCEPT !.stage = "loaded", !.form = form, !.stored = table]]
    BY <1>7 DEF Submit
  <2>2. thread'[r].stored = table /\ \A y \in Thread \ {r} : thread'[y] = thread[y]
    BY <1>1, <2>1 DEF Idle
  <2>3. \A y \in Thread \ {r} : ~Working(y)'
    BY <2>1, <2>2 DEF Resting, Busy, Working
  <2>4. Alone' /\ Waiting'
    BY <2>1, <2>3 DEF Alone, Waiting, Resting
  <2>5. \A q \in Request : SaveFrom(q)'
    <3>1. SaveFrom(r)'
      BY <2>1, <2>2 DEF SaveFrom, Effective
    <3> QED BY <1>1, <2>3, <3>1 DEF SaveFrom
  <2>6. \A x \in Timer : LeadsBack(x)'
    BY <1>1, <1>2, <2>3 DEF LeadsBack, At, Working
  <2> QED BY <2>4, <2>5, <2>6 DEF RollbackInv
<1>8. ASSUME NEW r \in Request, Write(r) PROVE RollbackInv'
  <2>1. /\ thread[r].stage = "loaded" /\ thread'[r].stored = thread[r].stored
        /\ \A y \in Thread \ {r} : thread'[y] = thread[y]
    BY <1>1, <1>8 DEF Write, At, ThreadState
  <2> QED BY <1>1, <1>2, <1>8, <2>1, ThreadStep DEF Working, Write
\* A risky change: what it restores is what it came from.
<1>9. ASSUME NEW r \in Request, NEW x \in Timer, Arm(r, x) PROVE RollbackInv'
  <2> SUFFICES ASSUME basis # None PROVE RollbackInv'
    BY <1>3, <1>9 DEF Arm
  <2>1. /\ Working(r) /\ basis' = basis /\ restore' = Effective(thread[r].stored)
        /\ thread' = [Stopped(thread) EXCEPT ![r] = Idle, ![x] = [Idle EXCEPT !.stage = "ticking"]]
    BY <1>9 DEF Arm, Begin, Restoring, Working, At
  <2>2. restore' = basis /\ \A y \in Thread : y # r => ~Working(y)
    BY <1>1, <2>1 DEF RollbackInv, SaveFrom, Alone
  <2>3. \A y \in Thread : y # r => Stopped(thread)[y] = thread[y] \/ Stopped(thread)[y] = Idle
    BY <1>1 DEF Stopped
  <2>4. ASSUME NEW y \in Thread PROVE ~Working(y)'
    <3>1. Stopped(thread) \in [Thread -> ThreadState]
      BY StoppedType
    <3> DEFINE u == [Idle EXCEPT !.stage = "ticking"]
    <3>2. u.stage = "ticking"
      BY DEF Idle
    <3> HIDE DEF u
    <3>3. thread'[y] = u \/ thread'[y] = Idle \/ (y # r /\ thread'[y] = thread[y])
      BY <1>1, <2>1, <2>3, <3>1 DEF u
    <3> QED BY <1>4, <2>2, <3>2, <3>3 DEF Working
  <2> QED BY <1>1, <2>1, <2>2, <2>4 DEF RollbackInv, Alone, Waiting, SaveFrom, LeadsBack, At, Working
\* The pending rollback is taken up: only its timer is at work now.
<1>10. ASSUME NEW x \in Timer, Consume(x) PROVE RollbackInv'
  <2> SUFFICES ASSUME basis # None PROVE RollbackInv'
    BY <1>3, <1>10 DEF Consume
  <2>1. restore = basis /\ \A y \in Thread : ~Working(y)
    BY <1>10 DEF Consume, RollbackInv, Waiting
  <2>2. /\ thread'[x].stage = "undo" /\ thread'[x].form = basis
        /\ \A y \in Thread \ {x} : thread'[y] = thread[y]
    BY <1>1, <1>10, <2>1 DEF Consume, ThreadState
  <2>3. \A y \in Thread \ {x} : ~Working(y)'
    BY <2>1, <2>2 DEF Working
  <2>4. Alone' /\ Waiting'
    BY <1>10, <2>3 DEF Alone, Waiting, Consume
  <2>5. \A r \in Request : SaveFrom(r)'
    BY <1>1, <1>2, <2>3 DEF SaveFrom
  <2>6. \A y \in Timer : LeadsBack(y)'
    <3>1. basis' = basis
      BY <1>10 DEF Consume
    <3>2. LeadsBack(x)'
      BY <2>2, <3>1 DEF LeadsBack, At
    <3> QED BY <1>1, <2>3, <3>2 DEF LeadsBack, At, Working
  <2> QED BY <2>4, <2>5, <2>6 DEF RollbackInv
\* The rollback saves every key, so the table is what it came from.
<1>11. ASSUME NEW x \in Timer, Undo(x) PROVE RollbackInv'
  <2>1. /\ thread[x].stage = "undo" /\ thread'[x].stage = "reload"
        /\ \A y \in Thread \ {x} : thread'[y] = thread[y]
    BY <1>1, <1>11 DEF Undo, At, ThreadState
  <2>2. ASSUME basis # None PROVE LeadsBack(x)'
    <3>1. basis \in Config /\ thread[x].form = basis
      BY <2>1, <2>2 DEF TypeOK, RollbackInv, LeadsBack, At
    <3>2. table' = basis /\ basis' = basis
      BY <1>11, <3>1, SavedWhole DEF Undo
    <3>3. Effective(table)' = basis
      BY <3>1, <3>2, SavedWhole DEF Effective
    <3> QED BY <2>1, <3>2, <3>3 DEF LeadsBack, At
  <2> QED BY <1>1, <1>2, <1>11, <2>1, <2>2, ThreadStep DEF Working, Undo
<1>12. ASSUME NEW x \in Thread, Reload(x) PROVE RollbackInv'
  <2>1. /\ thread[x].stage = "reload" /\ thread'[x].stage = "install"
        /\ thread'[x].stored = thread[x].stored /\ thread'[x].next = Effective(table)
        /\ \A y \in Thread \ {x} : thread'[y] = thread[y]
    BY <1>1, <1>12 DEF Reload, At, ThreadState
  <2>2. basis # None /\ x \in Timer => LeadsBack(x)'
    BY <1>12, <2>1 DEF RollbackInv, LeadsBack, At, Reload
  <2> QED BY <1>12, <2>1, <2>2, ThreadStep DEF Working, Reload
<1>13. ASSUME NEW x \in Thread, ReloadFails(x) PROVE RollbackInv'
  <2>1. Working(x) /\ UNCHANGED <<table, pending, restore, basis>>
    BY <1>13 DEF ReloadFails, At, Working
  <2>2. CASE Reconciles(x)
    <3>1. /\ thread'[x].stage = "choose" /\ thread'[x].stored = thread[x].stored
          /\ \A y \in Thread \ {x} : thread'[y] = thread[y]
      BY <1>1, <1>13, <2>2 DEF ReloadFails, ThreadState
    <3>2. LeadsBack(x)'
      BY <3>1 DEF LeadsBack, At
    <3> QED BY <2>1, <3>1, <3>2, ThreadStep
  <2>3. CASE ~Reconciles(x)
    BY <1>5, <1>13, <2>1, <2>3 DEF ReloadFails
  <2> QED BY <2>2, <2>3
<1>14. ASSUME NEW x \in Thread, Install(x) PROVE RollbackInv'
  <2> DEFINE u == [thread[x] EXCEPT !.stage = "choose", !.form = Blank, !.next = Default]
  <2>1. /\ Working(x) /\ thread'[x] \in {u, Idle} /\ UNCHANGED <<table, pending, restore, basis>>
        /\ \A y \in Thread \ {x} : thread'[y] = thread[y]
    BY <1>1, <1>14 DEF Install, At, Working
  <2>2. u.stage = "choose" /\ u.stored = thread[x].stored
    BY <1>1 DEF ThreadState
  <2> HIDE DEF u
  <2>3. LeadsBack(x)' /\ (Working(x)' => thread'[x].stored = thread[x].stored)
    BY <1>4, <2>1, <2>2 DEF LeadsBack, At, Working
  <2> QED BY <2>1, <2>3, ThreadStep
<1>15. ASSUME NEW x \in Thread, Choose(x) PROVE RollbackInv'
  <2>1. /\ thread[x].stage = "choose" /\ thread'[x].stage = "apply"
        /\ thread'[x].stored = thread[x].stored
        /\ \A y \in Thread \ {x} : thread'[y] = thread[y]
    BY <1>1, <1>15 DEF Choose, At, ThreadState
  <2>2. LeadsBack(x)'
    BY <2>1 DEF LeadsBack, At
  <2> QED BY <1>15, <2>1, <2>2, ThreadStep DEF Working, Choose
<1>16. ASSUME NEW x \in Thread, NEW ok \in BOOLEAN, Apply(x, ok) PROVE RollbackInv'
  <2>1. /\ Go(x, "served") \/ Go(x, "kept")
        /\ Working(x) /\ UNCHANGED <<table, pending, restore, basis>>
    BY <1>16 DEF Apply, At, Working
  <2> QED BY <1>6, <2>1
<1>22. ASSUME NEW x \in Thread, SetFront(x) PROVE RollbackInv'
  <2>1. (Go(x, "arm") \/ Finish(x)) /\ Working(x) /\ UNCHANGED <<table, pending, restore, basis>>
    BY <1>22 DEF SetFront, Holds, Working
  <2> QED BY <1>5, <1>6, <2>1
<1>17. ASSUME NEW r \in Request, Saving(r) PROVE RollbackInv'
  <2>1. ASSUME WriteFails(r) \/ Harmless(r) PROVE RollbackInv'
    BY <1>1, <1>5, <2>1 DEF WriteFails, Harmless
  <2> QED BY <1>3, <1>7, <1>8, <1>9, <1>17, <2>1 DEF Saving, SubmitOther
<1>18. ASSUME NEW x \in Timer, Expiring(x) PROVE RollbackInv'
  <2>1. ASSUME Fire(x) PROVE RollbackInv'
    BY <1>1, <1>6, <2>1 DEF Fire
  <2>2. ASSUME ConsumeNothing(x) \/ UndoFails(x) PROVE RollbackInv'
    BY <1>1, <1>5, <2>2 DEF ConsumeNothing, UndoFails
  <2> QED BY <1>10, <1>11, <1>18, <2>1, <2>2 DEF Expiring
<1>19. ASSUME NEW x \in Thread, Reloading(x) PROVE RollbackInv'
  BY <1>12, <1>13, <1>14, <1>15, <1>16, <1>19, <1>22 DEF Reloading
<1>20. Confirm \/ Restart => RollbackInv'
  BY <1>3 DEF Confirm, Restart
<1>21. ASSUME UNCHANGED vars PROVE RollbackInv'
  BY <1>21 DEF vars, RollbackInv, Alone, Waiting, SaveFrom, LeadsBack, At, Working, Effective
<1> QED
  BY <1>17, <1>18, <1>19, <1>20, <1>21 DEF Next

LEMMA OpenStep == PendingIsOpen /\ [Next]_vars => PendingIsOpen'
<1> SUFFICES ASSUME PendingIsOpen, [Next]_vars PROVE PendingIsOpen'
  OBVIOUS
<1> USE DEF commit, history, PendingIsOpen
<1>1. ASSUME NEW r \in Request, Saving(r) PROVE PendingIsOpen'
  BY <1>1 DEF Saving, Submit, SubmitOther, Write, WriteFails, Harmless, Arm, Begin
<1>2. ASSUME NEW x \in Timer, Expiring(x) PROVE PendingIsOpen'
  BY <1>2 DEF Expiring, Fire, Consume, ConsumeNothing, Undo, UndoFails
<1>3. ASSUME NEW x \in Thread, Reloading(x) PROVE PendingIsOpen'
  BY <1>3 DEF Reloading, Reload, ReloadFails, Install, Choose, Apply, SetFront
<1> QED BY <1>1, <1>2, <1>3 DEF Next, Confirm, Restart, vars

-----------------------------------------------------------------------------
(* The two halves of apply.                                                *)

\* No step but SetFront and a restart ends the hold of the mutex.
LEMMA HoldStep ==
  ASSUME TypeOK, [Next]_vars, ~Restart, NEW h \in Thread, Holds(h), ~SetFront(h)
  PROVE  Holds(h)'
<1>1. thread \in [Thread -> ThreadState] /\ Request \subseteq Thread /\ Timer \subseteq Thread
  BY DEF TypeOK, Thread
<1>2. ASSUME thread'[h] = thread[h] PROVE Holds(h)'
  BY <1>2 DEF Holds
<1>3. thread[h].stage \notin {"idle", "loaded", "reload", "install", "choose", "apply", "arm",
                            "ticking", "fired", "undo"}
  BY DEF Holds
<1>4. Stopped(thread)[h] = thread[h]
  BY <1>1, <1>3 DEF Stopped
<1>5. ASSUME NEW r \in Request, Saving(r) PROVE thread'[h] = thread[h]
  <2>1. ASSUME NEW form \in Form, Submit(r, form) PROVE thread'[h] = thread[h]
    BY <1>1, <1>3, <2>1 DEF Submit, At
  <2>2. ASSUME NEW x \in Timer, Arm(r, x) PROVE thread'[h] = thread[h]
    <3>1. h # r /\ h # x
      BY <1>3, <2>2 DEF Arm, At
    <3>2. Stopped(thread) \in [Thread -> ThreadState]
      BY StoppedType
    <3> QED BY <1>4, <2>2, <3>1, <3>2 DEF Arm, Begin
  <2> QED BY <1>1, <1>3, <1>5, <2>1, <2>2
          DEF Saving, SubmitOther, Write, WriteFails, Harmless, At, Go, Finish
<1>6. ASSUME NEW x \in Timer, Expiring(x) PROVE thread'[h] = thread[h]
  BY <1>1, <1>3, <1>6 DEF Expiring, Fire, Consume, ConsumeNothing, Undo, UndoFails, At, Go, Finish
<1>7. ASSUME NEW x \in Thread, Reload(x) \/ ReloadFails(x) \/ Install(x) \/ Choose(x)
      PROVE  thread'[h] = thread[h]
  BY <1>1, <1>3, <1>7 DEF Reload, ReloadFails, Install, Choose, At, Go, Finish
<1>8. ASSUME NEW x \in Thread, NEW ok \in BOOLEAN, Apply(x, ok) PROVE thread'[h] = thread[h]
  BY <1>1, <1>3, <1>8 DEF Apply, At, Go
<1>9. ASSUME NEW x \in Thread, SetFront(x) PROVE thread'[h] = thread[h]
  <2>1. x # h
    BY <1>9
  <2> QED BY <1>1, <1>9, <2>1 DEF SetFront, Go, Finish
<1>10. Confirm => thread'[h] = thread[h]
  BY <1>4 DEF Confirm
<1>11. UNCHANGED vars => thread'[h] = thread[h]
  BY DEF vars
<1> QED BY <1>2, <1>5, <1>6, <1>7, <1>8, <1>9, <1>10, <1>11 DEF Next, Reloading

LEMMA RedirectStep == TypeOK /\ RedirectEndsWithListener /\ [Next]_vars => RedirectEndsWithListener'
<1> SUFFICES ASSUME TypeOK, RedirectEndsWithListener, [Next]_vars PROVE RedirectEndsWithListener'
  OBVIOUS
<1> USE DEF listener, RedirectEndsWithListener
<1>1. Restart => RedirectEndsWithListener'
  BY DEF Restart
<1>2. ASSUME NEW x \in Thread, SetFront(x) PROVE RedirectEndsWithListener'
  BY <1>2 DEF SetFront, Redirects
<1>3. ASSUME NEW x \in Thread, NEW ok \in BOOLEAN, Apply(x, ok) PROVE RedirectEndsWithListener'
  <2>1. thread'[x].stage \in {"served", "kept"}
    BY <1>3 DEF Apply, Go, TypeOK
  <2> QED BY <2>1 DEF Holds
\* Every other step leaves the listener, the front and the holder alone.
<1>4. ASSUME ~Restart, UNCHANGED listener, \A x \in Thread : ~SetFront(x) PROVE RedirectEndsWithListener'
  BY <1>4, HoldStep
<1>5. ASSUME NEW r \in Request, Saving(r) PROVE UNCHANGED listener
  BY <1>5 DEF Saving, Submit, SubmitOther, Write, WriteFails, Harmless, Arm
<1>6. ASSUME NEW x \in Timer, Expiring(x) PROVE UNCHANGED listener
  BY <1>6 DEF Expiring, Fire, Consume, ConsumeNothing, Undo, UndoFails
<1>7. ASSUME NEW x \in Thread, Reload(x) \/ ReloadFails(x) \/ Install(x) \/ Choose(x)
      PROVE  UNCHANGED listener
  BY <1>7 DEF Reload, ReloadFails, Install, Choose
<1>8. Confirm \/ UNCHANGED vars => UNCHANGED listener
  BY DEF Confirm, vars
<1> QED BY <1>1, <1>2, <1>3, <1>4, <1>5, <1>6, <1>7, <1>8 DEF Next, Reloading

-----------------------------------------------------------------------------
\* Every variable keeps its type.
THEOREM TypeCorrect == Spec => []TypeOK
  BY TypeInit, TypeStep, PTL DEF Spec

\* A redirect without an HTTPS listener is up only inside the apply that has
\* just stopped the listener, whatever binds have failed and whichever saves,
\* rollbacks and restarts have interleaved (listenerManager.apply).  Which port
\* the redirect names is not part of it: see RedirectReachesListener.
THEOREM RedirectEndsWithListenerTheorem == Spec => []RedirectEndsWithListener
<1>1. Init => RedirectEndsWithListener
  BY DEF Init, RedirectEndsWithListener
<1>2. TypeOK /\ RedirectEndsWithListener /\ [Next]_vars => RedirectEndsWithListener'
  BY RedirectStep
<1> QED BY <1>1, <1>2, TypeCorrect, PTL DEF Spec

\* An HTTPS listener that stands survives an address that cannot be bound:
\* it goes away only for a configuration that wants none (startTLSLocked).
THEOREM BindFailureTheorem == Spec => BindFailureKeepsListener
<1>1. ASSUME TypeOK, NEW x \in Thread, NEW ok \in BOOLEAN, Apply(x, ok),
             thread[x].next.mode = "standalone", tls # None
      PROVE  tls' # None
  <2>1. thread[x].next.addr # None
    <3>1. thread[x] \in ThreadState
      BY <1>1 DEF TypeOK
    <3>2. thread[x].next \in Config
      BY <3>1 DEF ThreadState
    <3> QED BY <3>2, AddrAssumption DEF Config
  <2> QED BY <1>1, <2>1 DEF Apply, Bound
<1>2. TypeOK /\ [Next]_vars =>
        [\A x \in Thread, ok \in BOOLEAN :
           Apply(x, ok) /\ thread[x].next.mode = "standalone" /\ tls # None => tls' # None]_vars
  BY <1>1
<1> QED BY <1>2, TypeCorrect, PTL DEF Spec, BindFailureKeepsListener

\* A rollback starts only for a change that is neither confirmed nor undone,
\* so never twice (listenerCommit.begin, confirm and its timer's callback).
THEOREM RollbackOnlyWhenOpenTheorem == Spec => RollbackOnlyWhenOpen
<1>1. PendingIsOpen => [\A x \in Timer : Consume(x) => open]_vars
  BY DEF PendingIsOpen, Consume
<1>2. Init => PendingIsOpen
  BY RollbackInit
<1> QED BY <1>1, <1>2, OpenStep, PTL DEF Spec, RollbackOnlyWhenOpen

\* A rollback nobody interfered with installs the configuration from before
\* the change, with the defaults for the keys that had no row
\* (applyListenerChange).
THEOREM RollbackIsExactTheorem == Spec => RollbackIsExact
<1>1. RollbackInv => [\A x \in Timer : basis # None /\ Install(x) => conf' = basis]_vars
  BY DEF RollbackInv, LeadsBack, Install
<1>2. TypeOK /\ RollbackInv /\ [Next]_vars => RollbackInv'
  BY RollbackStep
<1>3. Init => RollbackInv
  BY RollbackInit
<1> QED BY <1>1, <1>2, <1>3, TypeCorrect, PTL DEF Spec, RollbackIsExact
=============================================================================
