----------------------------- MODULE Listeners -----------------------------
(***************************************************************************)
(* The listeners of one portal process and the commit-confirm protocol     *)
(* around a change to them: the tls section of the settings table          *)
(* (internal/settings), the runtime configuration built from it            *)
(* (runtime.go), the listener manager (listeners.go) and listenerCommit    *)
(* (tls.go), as saveSettingsSection drives them.                           *)
(*                                                                         *)
(* A thread is a request that saves settings, or the callback goroutine of *)
(* a rollback timer.  Nothing serialises threads: each loads the section,  *)
(* writes it, re-reads every setting, installs the configuration it built  *)
(* (after OIDC discovery, seconds later), and reconciles the listeners     *)
(* under the manager's mutex.  Plain HTTP is answered without that mutex.  *)
(* Two adjacent steps of a thread are one where nothing another thread     *)
(* does in between could be told from its doing it before or after.        *)
(***************************************************************************)
EXTENDS Naturals, FiniteSets

CONSTANTS
  Addr,         \* addresses HTTPS may be told to listen on
  DefaultAddr,  \* the schema's default, 0.0.0.0:443
  Standard,     \* addresses where a browser that asks for port 443 arrives
  Request,      \* save requests served at the same time
  Form,         \* the forms of the tls section an administrator submits
  Timer,        \* rollback timers whose callback may still be outstanding
  Faults,       \* what may go wrong: subset of {"bind", "database", "crash"}
  MaxArmed,     \* bound on the changes that arm a rollback
  Unset,        \* a key with no row, or not in a submitted form
  None          \* no HTTPS listener, no timer

ASSUME AddrAssumption == DefaultAddr \in Addr /\ None \notin Addr /\ Unset \notin Addr
ASSUME StandardAssumption == Standard \subseteq Addr /\ DefaultAddr \in Standard
ASSUME UnsetAssumption == Unset \notin {"proxy", "standalone"} /\ Unset \notin BOOLEAN
ASSUME ThreadAssumption == Request \cap Timer = {} /\ None \notin Timer
ASSUME FormAssumption ==
  Form \subseteq [mode : {"proxy", "standalone", Unset}, addr : Addr \cup {Unset},
                 redirect : BOOLEAN \cup {Unset}]
ASSUME FaultsAssumption == Faults \subseteq {"bind", "database", "crash"}
ASSUME MaxArmedAssumption == MaxArmed \in Nat

VARIABLES
  table,    \* the rows of section tls
  conf,     \* the TLS part of the configuration behind rtPtr
  tls,      \* address of the HTTPS listener, or None
  front,    \* TRUE when plain HTTP answers with a redirect to port 443
  pending,  \* listenerCommit.pending
  timer,    \* listenerCommit.timer, the last one armed
  restore,  \* the section listenerCommit.rollback puts back
  thread,   \* thread[x]: what request or timer x is doing
  armed,    \* history: changes armed since the process started
  open,     \* history: the last armed change is neither confirmed nor undone
  basis     \* history: the configuration before the only save since the portal
            \* last rested, None after a second one

listener == <<tls, front>>
commit   == <<pending, timer, restore>>
history  == <<armed, open, basis>>
vars     == <<table, conf, tls, front, pending, timer, restore, thread,
              armed, open, basis>>

Thread   == Request \cup Timer
Mode     == {"proxy", "standalone"}
Config   == [mode : Mode, addr : Addr, redirect : BOOLEAN]
Section  == [mode : Mode \cup {Unset}, addr : Addr \cup {Unset}, redirect : BOOLEAN \cup {Unset}]
Default  == [mode |-> "proxy", addr |-> DefaultAddr, redirect |-> FALSE]
Blank    == [mode |-> Unset, addr |-> Unset, redirect |-> Unset]
Key      == DOMAIN Default

\* Save: an upsert of the keys given, the other rows are left alone.
Over(section, form) == [k \in Key |-> IF form[k] = Unset THEN section[k] ELSE form[k]]

\* Mutation: the listen address is read without its default.
EffectiveNoAddress(section) == [Over(Default, section) EXCEPT !.addr = section.addr]

\* applyRuntimeSettings: a key with no row has its default.
Effective(section) == Over(Default, section)

\* form: what is saved.  stored, prev: section and configuration before.
\* next: the configuration read back, then the one to apply.
Stage == {"idle", "loaded", "reload", "install", "choose", "apply", "served", "kept",
          "arm", "ticking", "fired", "undo"}
ThreadState == [stage : Stage, form : Section, stored : Section, prev : Config, next : Config]
Idle  == [stage |-> "idle", form |-> Blank, stored |-> Blank, prev |-> Default, next |-> Default]

At(x, stage) == thread[x].stage = stage
Go(x, stage) == thread' = [thread EXCEPT ![x].stage = stage]
Finish(x)    == thread' = [thread EXCEPT ![x] = Idle]
May(fault)   == fault \in Faults
Busy(x)      == thread[x].stage \notin {"idle", "ticking"}

\* x is inside apply, with the mutex: the listener is done, the front is not.
Holds(x) == thread[x].stage \in {"served", "kept"}

\* Nothing is running and nothing waits for a confirmation.
Resting == ~pending /\ \A x \in Thread : ~Busy(x)

-----------------------------------------------------------------------------
(* saveSettingsSection.                                                    *)

\* A form of the tls section arrives: LoadSection.
Submit(r, form) ==
  /\ At(r, "idle") /\ form # Blank
  /\ thread' = [thread EXCEPT ![r] = [Idle EXCEPT !.stage = "loaded", !.form = form, !.stored = table]]
  /\ basis'  = IF Resting /\ conf = Effective(table) THEN conf ELSE None
  /\ UNCHANGED <<table, conf, listener, commit, armed, open>>

\* Another section is saved; its reload re-reads the tls section too.
SubmitOther(r) ==
  /\ At(r, "idle")
  /\ Go(r, "reload")
  /\ basis' = None
  /\ UNCHANGED <<table, conf, listener, commit, armed, open>>

\* prevCfg is taken, then Save commits.
Write(r) ==
  /\ At(r, "loaded")
  /\ table'  = Over(table, thread[r].form)
  /\ thread' = [thread EXCEPT ![r].stage = "reload", ![r].prev = conf]
  /\ UNCHANGED <<conf, listener, commit, history>>

\* The save fails and the request with it.
WriteFails(r) ==
  /\ May("database") /\ At(r, "loaded")
  /\ Finish(r)
  /\ UNCHANGED <<table, conf, listener, commit, history>>

\* Whether a thread goes on to the listeners after its reload.
Reconciles(x) == x \in Timer \/ thread[x].form # Blank

\* reloadRuntime, LoadAll.
Reload(x) ==
  /\ At(x, "reload")
  /\ thread' = [thread EXCEPT ![x].stage = "install", ![x].next = Effective(table)]
  /\ UNCHANGED <<table, conf, listener, commit, history>>

\* LoadAll fails: the installed configuration is left alone, and the caller
\* carries on with it.
ReloadFails(x) ==
  /\ May("database") /\ At(x, "reload")
  /\ IF Reconciles(x) THEN thread' = [thread EXCEPT ![x].stage = "choose", ![x].form = Blank]
     ELSE Finish(x)
  /\ UNCHANGED <<table, conf, listener, commit, history>>

\* reloadRuntime, rtPtr.Store, after the clients have been built.
Install(x) ==
  /\ At(x, "install")
  /\ conf'   = thread[x].next
  /\ thread' = [thread EXCEPT ![x] = IF Reconciles(x) THEN [@ EXCEPT !.stage = "choose", !.form = Blank, !.next = Default]
                                     ELSE Idle]
  /\ UNCHANGED <<table, listener, commit, history>>

-----------------------------------------------------------------------------
(* The listeners: a.conf(), then listenerManager.apply under its mutex.    *)

\* The configuration to apply is read before apply waits for the mutex.
Choose(x) ==
  /\ At(x, "choose")
  /\ thread' = [thread EXCEPT ![x].stage = "apply", ![x].next = conf]
  /\ UNCHANGED <<table, conf, listener, commit, history>>

\* Mutation: the old listener is released before the new one is bound.
BoundStopFirst(c, ok) ==
  /\ ok \/ (May("bind") /\ c.mode = "standalone" /\ tls # c.addr)
  /\ tls' = IF c.mode = "standalone" /\ ok THEN c.addr ELSE None

\* Only binding a new address can fail (~ok); then the listener stays.
Bound(c, ok) ==
  /\ ok \/ (May("bind") /\ c.mode = "standalone" /\ tls # c.addr)
  /\ tls' = IF c.mode # "standalone" THEN None ELSE IF ok THEN c.addr ELSE tls

\* apply takes the mutex and starts, moves or stops the HTTPS listener.
Apply(x, ok) ==
  /\ At(x, "apply") /\ \A y \in Thread : ~Holds(y)
  /\ Bound(thread[x].next, ok)
  /\ Go(x, IF ok THEN "served" ELSE "kept")
  /\ UNCHANGED <<table, conf, front, commit, history>>

\* Mutation: the redirect is installed wherever HTTPS is wanted.
RedirectsAnyway(c) == c.mode = "standalone" /\ c.redirect

\* The redirect of c is installed if there is a listener on some address.
Redirects(c) == c.mode = "standalone" /\ c.redirect /\ tls # None

\* setFront, and apply returns; for a timer, the end of its rollback.
SetFront(x) ==
  /\ Holds(x)
  /\ front' = Redirects(thread[x].next)
  /\ IF At(x, "served") /\ x \in Request THEN Go(x, "arm") ELSE Finish(x)
  /\ UNCHANGED <<table, conf, tls, commit, history>>

-----------------------------------------------------------------------------
(* Commit-confirm.                                                         *)

\* listenerRisky: could the move take the console away?
Risky(prev, next) ==
  \/ prev.mode = "standalone" /\ next.mode # "standalone"
  \/ next.redirect /\ ~prev.redirect
  \/ prev.mode = "standalone" /\ next.mode = "standalone" /\ prev.addr # next.addr

\* Mutation: keys that had no row are left out of the restored section.
RestoringStored(stored) == stored

\* The section a rollback saves: the stored values over the defaults.
Restoring(stored) == Effective(stored)

\* Stop on a timer: no effect once its callback has begun.
Stopped(threads) ==
  IF timer # None /\ threads[timer].stage = "ticking"
  THEN [threads EXCEPT ![timer] = Idle] ELSE threads

\* Mutation: the old timer is stopped, but no new one started.
BeginKeepsTimer(r, x) ==
  /\ pending' = TRUE
  /\ restore' = Restoring(thread[r].stored)
  /\ timer'   = x
  /\ thread'  = IF pending THEN [Stopped(thread) EXCEPT ![r] = Idle]
                ELSE [Stopped(thread) EXCEPT ![r] = Idle, ![x] = [Idle EXCEPT !.stage = "ticking"]]

\* begin: supersede whatever is pending, on timer x.
Begin(r, x) ==
  /\ pending' = TRUE
  /\ restore' = Restoring(thread[r].stored)
  /\ timer'   = x
  /\ thread'  = [Stopped(thread) EXCEPT ![r] = Idle, ![x] = [Idle EXCEPT !.stage = "ticking"]]

\* AfterFunc makes a new timer; which of the free ones stands for it is immaterial.
FreeTimer == CHOOSE x \in Timer : At(x, "idle")

\* applyListenerChange after apply: arm a rollback if the change is risky.
Arm(r, x) ==
  /\ At(r, "arm") /\ Risky(thread[r].prev, thread[r].next)
  /\ armed < MaxArmed
  /\ At(x, "idle") /\ x = FreeTimer
  /\ Begin(r, x)
  /\ armed' = armed + 1 /\ open' = TRUE
  /\ UNCHANGED <<table, conf, listener, basis>>

Harmless(r) ==
  /\ At(r, "arm") /\ ~Risky(thread[r].prev, thread[r].next)
  /\ Finish(r)
  /\ UNCHANGED <<table, conf, listener, commit, history>>

\* Mutation: confirm only stops the timer.
ConfirmStopsTimer ==
  /\ pending
  /\ thread' = Stopped(thread)
  /\ open' = FALSE
  /\ UNCHANGED <<table, conf, listener, commit, armed, basis>>

\* tlsConfirm, from whatever address the administrator's browser reached.
Confirm ==
  /\ pending
  /\ pending' = FALSE /\ restore' = Blank
  /\ thread'  = Stopped(thread)
  /\ open'    = FALSE /\ basis' = None
  /\ UNCHANGED <<table, conf, listener, timer, armed>>

\* The window ends and the runtime starts the callback.
Fire(x) ==
  /\ At(x, "ticking")
  /\ Go(x, "fired")
  /\ UNCHANGED <<table, conf, listener, commit, history>>

\* The callback gets the mutex and takes whatever rollback is pending (which
\* nobody looks at again before the next begin replaces it).
Consume(x) ==
  /\ At(x, "fired") /\ pending
  /\ pending' = FALSE /\ restore' = Blank
  /\ thread'  = [thread EXCEPT ![x].stage = "undo", ![x].form = restore]
  /\ open'    = FALSE
  /\ UNCHANGED <<table, conf, listener, timer, armed, basis>>

ConsumeNothing(x) ==
  /\ At(x, "fired") /\ ~pending
  /\ Finish(x)
  /\ UNCHANGED <<table, conf, listener, commit, history>>

\* The rollback saves the section; the rest is Reload, Install and Apply.
Undo(x) ==
  /\ At(x, "undo")
  /\ table'  = Over(table, thread[x].form)
  /\ thread' = [thread EXCEPT ![x].stage = "reload", ![x].form = Blank]
  /\ UNCHANGED <<conf, listener, commit, history>>

UndoFails(x) ==
  /\ May("database") /\ At(x, "undo")
  /\ Finish(x)
  /\ UNCHANGED <<table, conf, listener, commit, history>>

\* The process dies and starts again: the table is all that is left.
Restart ==
  /\ May("crash")
  /\ conf' = Effective(table)
  /\ \E ok \in BOOLEAN :
       /\ ok \/ (May("bind") /\ conf'.mode = "standalone")
       /\ tls' = IF conf'.mode = "standalone" /\ ok THEN conf'.addr ELSE None
  /\ front'   = (conf'.redirect /\ tls' # None)
  /\ pending' = FALSE /\ timer' = None /\ restore' = Blank
  /\ thread'  = [x \in Thread |-> Idle]
  /\ open'    = FALSE /\ basis' = None
  /\ UNCHANGED <<table, armed>>

-----------------------------------------------------------------------------
Init ==
  /\ table = Blank /\ conf = Default
  /\ tls = None /\ front = FALSE
  /\ pending = FALSE /\ timer = None /\ restore = Blank
  /\ thread = [x \in Thread |-> Idle]
  /\ armed = 0 /\ open = FALSE /\ basis = None

Saving(r) ==
  \/ (\E form \in Form : Submit(r, form)) \/ SubmitOther(r)
  \/ Write(r) \/ WriteFails(r) \/ Harmless(r) \/ (\E x \in Timer : Arm(r, x))

Expiring(x) == Fire(x) \/ Consume(x) \/ ConsumeNothing(x) \/ Undo(x) \/ UndoFails(x)

Reloading(x) ==
  \/ Reload(x) \/ ReloadFails(x) \/ Install(x)
  \/ Choose(x) \/ (\E ok \in BOOLEAN : Apply(x, ok)) \/ SetFront(x)

Next ==
  \/ \E r \in Request : Saving(r)
  \/ \E x \in Timer : Expiring(x)
  \/ \E x \in Thread : Reloading(x)
  \/ Confirm
  \/ Restart

\* A timer fires and its callback gets the mutex.
Fairness == \A x \in Timer : WF_vars(Fire(x)) /\ WF_vars(Consume(x))

Spec     == Init /\ [][Next]_vars
FairSpec == Spec /\ Fairness

-----------------------------------------------------------------------------
(* Correctness.                                                            *)

TypeOK ==
  /\ table \in Section /\ conf \in Config
  /\ tls \in Addr \cup {None} /\ front \in BOOLEAN
  /\ pending \in BOOLEAN /\ timer \in Timer \cup {None} /\ restore \in Section
  /\ thread \in [Thread -> ThreadState]
  /\ armed \in 0 .. MaxArmed
  /\ open \in BOOLEAN /\ basis \in Config \cup {None}

\* apply: plain HTTP, answered without the mutex, redirects while there is no
\* HTTPS listener at all only inside the apply that has just stopped it; no
\* failed bind, rollback or restart leaves such a redirect behind.
RedirectEndsWithListener == front /\ tls = None => \E x \in Thread : Holds(x)

\* apply: the redirect is kept back where "an operator who mistyped the port
\* would be redirected to a port nothing is listening on".  Wherever an apply
\* leaves the redirect up, the port it names is served.
RedirectReachesListener == front /\ (\A x \in Thread : ~Holds(x)) => tls \in Standard

\* startTLSLocked: an address that cannot be bound "costs nothing": the HTTPS
\* listener only goes away for a configuration that wants none.
BindFailureKeepsListener ==
  [][\A x \in Thread, ok \in BOOLEAN :
       Apply(x, ok) /\ thread[x].next.mode = "standalone" /\ tls # None => tls' # None]_vars

\* "An unconfirmed change reverts and a confirmed one does not"
\* (tls_test.go): a rollback starts only for a change that is still open, so
\* never after its confirmation and never twice.
RollbackOnlyWhenOpen == [][\A x \in Timer : Consume(x) => open]_vars

\* applyListenerChange: the rollback "restores the values the portal was
\* actually running with", keys without a row included.  A rollback nobody
\* interfered with installs the configuration from before the change.
RollbackIsExact ==
  [][\A x \in Timer : basis # None /\ Install(x) => conf' = basis]_vars

\* "An unconfirmed change is rolled back automatically": no change stays
\* pending for ever, superseded and restarted portals included.
PendingIsSettled == pending ~> ~pending

\* listeners.go: "the state a portal reaches by being restarted and the state
\* it reaches by being reconfigured cannot diverge".
RestartChangesNothing == Resting => conf = Effective(table)
=============================================================================
