----------------------------- MODULE Admission -----------------------------
(***************************************************************************)
(* How one process lets devices in: the gates of /portal, /auth/proceed,   *)
(* the two callbacks and the guest-code handler (main.go), which look at   *)
(* the table of Denylist, and the guesses per device (failCounter,         *)
(* ratelimit.go) beside requests that reset, prune and evict them.         *)
(*                                                                         *)
(* A statement ends a step, with what its handler then does in memory      *)
(* until the next: a guest code is looked at by the gate and the counter   *)
(* in one step and redeemed in another, and others run between.  Whether a *)
(* code or an identity is good is chosen here and modelled in              *)
(* GuestCodeStore and SignIn; the cooldowns of addresses are in IpBan, and *)
(* appends to the event log, whose failure no handler sees, in EventLog.   *)
(***************************************************************************)
EXTENDS Denylist, Integers, FiniteSetsExt

CONSTANTS
  Session, \* browsers, each with one session cookie
  Window,  \* ratelimit.guest_code_mac_window an operator enters
  Limit,   \* GuestCodeMacFails
  MaxKeys, \* maxFailCounterEntries
  MaxTime  \* bound on the clock

ASSUME LimitAssumption  == Limit \in Nat \ {0} /\ MaxKeys \in Nat \ {0} /\ MaxTime \in Nat
ASSUME WindowAssumption == Window \subseteq Nat \ {0} /\ Window # {} /\ IsFiniteSet(Window)
ASSUME SessionAssumption == IsFiniteSet(Session) /\ IsFiniteSet(Mac)

VARIABLES
  session, \* session[s]: how far a browser is, and the device in its cookie
  fails,   \* fails[m][t]: the failures of m at time t in guestCodeFails
  window,  \* the window in the live configuration
  horizon, \* maxWindow: the window at the start of the process
  now,
  open,    \* history: open[s], the device was not denied, or not found, at
           \* some moment since the request of s arrived
  misses   \* history: misses[m][t], wrong guesses since the count of m was cleared,
           \* or evicted by as many others as an eviction leaves

gateVars == <<session, fails, window, horizon, now, misses>>
vars == <<denyVars, gateVars, open>>

Time  == 0 .. MaxTime
Stage == {"out", "cookie", "away", "returned", "asked", "guessing", "in"}
At(s, stages) == session[s].stage \in stages
Go(s, stage)  == session' = [session EXCEPT ![s].stage = stage]
MacOf(s)      == session[s].mac
Denied(s)     == MacOf(s) \in denied
Busy(s)       == At(s, {"returned", "asked", "guessing"})

Blank      == [t \in Time |-> 0]
Narrowest  == Min(Window)
Total(f, ts) == MapThenSumSet(LAMBDA t : f[t], ts)
KeysOf(f)  == {m \in Mac : Total(f[m], Time) > 0}
\* The failures after the cutoff.
Newer(f, cutoff)  == [m \in Mac |-> [t \in Time |-> IF t > cutoff THEN f[m][t] ELSE 0]]
Clear(f, ms)      == [m \in Mac |-> IF m \in ms THEN Blank ELSE f[m]]

\* Every request that is under way when its device is off the list had its moment.
Witness == open' = [s \in Session |-> open[s] \/ (Busy(s) /\ MacOf(s) \notin denied')]

-----------------------------------------------------------------------------
(* failCounter.                                                            *)

countIn(m, w) == Total(fails[m], {t \in Time : t > now - w})

Latest(f, m) == Max({t \in Time : f[m][t] > 0})

\* The nine tenths that an eviction leaves.
Target == (MaxKeys * 9) \div 10

\* Mutation: the keys with the latest failure go.
EvictionsLatest ==
  LET kept == KeysOf(Newer(fails, now - horizon))
  IN  IF Cardinality(kept) < MaxKeys THEN {Mac \ kept}
      ELSE {Mac \ ks : ks \in {ks \in SUBSET kept :
              /\ Cardinality(ks) = Target
              /\ \A k \in ks, m \in kept \ ks : Latest(fails, k) <= Latest(fails, m)}}

\* evictOldestLocked: prune, and if that is not enough keep the nine tenths
\* with the latest failure; keys with the same time go in any order.
Evictions ==
  LET kept == KeysOf(Newer(fails, now - horizon))
  IN  IF Cardinality(kept) < MaxKeys THEN {Mac \ kept}
      ELSE {Mac \ ks : ks \in {ks \in SUBSET kept :
              /\ Cardinality(ks) = Target
              /\ \A k \in ks, m \in kept \ ks : Latest(fails, m) <= Latest(fails, k)}}

\* Counted devices that failed no earlier than m; one that fails now joins them.
Later(m)     == {k \in KeysOf(fails) \ {m} : Latest(fails, m) <= Latest(fails, k)}
Overtaken(m) == m \in KeysOf(fails) /\ Cardinality(Later(m)) >= Target

\* A full counter evicts before it takes a key. The history forgives that only
\* where as many devices as the eviction leaves failed no earlier.
Record(m) ==
  IF m \in KeysOf(fails) \/ Cardinality(KeysOf(fails)) < MaxKeys
  THEN /\ fails'  = [fails EXCEPT ![m][now] = @ + 1]
       /\ misses' = [misses EXCEPT ![m][now] = @ + 1]
  ELSE \E gone \in Evictions :
         /\ fails'  = [Clear(Newer(fails, now - horizon), gone) EXCEPT ![m][now] = @ + 1]
         /\ misses' = [Clear(misses, {k \in gone : Overtaken(k)}) EXCEPT ![m][now] = @ + 1]

Reset(ms) == fails' = Clear(fails, ms) /\ misses' = Clear(misses, ms)

\* gcLoop, at a tick of its own.
Prune ==
  /\ fails # Newer(fails, now - horizon)
  /\ fails' = Newer(fails, now - horizon)
  /\ UNCHANGED <<denyVars, session, window, horizon, now, misses, open>>

-----------------------------------------------------------------------------
(* Requests of browsers.                                                   *)

\* Only the denylist and the history look at what is neither session nor counter.
Request == UNCHANGED <<denyVars, window, horizon, now>>
Quietly == UNCHANGED <<fails, misses>>

\* handlePortal: any device, a new cookie.
Portal(s) ==
  /\ At(s, {"out", "cookie", "away", "in"})
  /\ \E m \in Mac :
       /\ m \notin denied
       /\ session' = [session EXCEPT ![s] = [stage |-> "cookie", mac |-> m]]
  /\ Request /\ Quietly /\ UNCHANGED open

\* handleAuthStart, which looks at the same gate, and then handleAuthProceed.
Proceed(s) ==
  /\ At(s, {"cookie"}) /\ ~Denied(s)
  /\ Go(s, "away")
  /\ Request /\ Quietly /\ UNCHANGED open

\* handleCallback, handleDuoCallback: the exchange takes its time.
Callback(s) ==
  /\ At(s, {"away"})
  /\ Go(s, "returned")
  /\ open' = [open EXCEPT ![s] = ~Denied(s)]
  /\ Request /\ Quietly

\* The exchange fails, or finds a guest of the tenant.
CallbackFails(s) ==
  /\ At(s, {"returned"})
  /\ Go(s, "cookie")
  /\ Request /\ Quietly /\ UNCHANGED open

\* clearSuccessfulAuthState and the redirect to the router.
Grant(s) == Go(s, "in") /\ Reset({MacOf(s)}) /\ Request

\* Mutation: the callbacks rely on the gates of /portal and /auth/proceed.
AdmitUngated(s) == At(s, {"returned"}) /\ Grant(s) /\ UNCHANGED open

\* The gate of the callbacks.
Admit(s) == At(s, {"returned"}) /\ ~Denied(s) /\ Grant(s) /\ UNCHANGED open

\* handleGuestCode.
Submit(s) ==
  /\ At(s, {"cookie"})
  /\ Go(s, "asked")
  /\ open' = [open EXCEPT ![s] = ~Denied(s)]
  /\ Request /\ Quietly

\* Mutation: one failure too many.
SpentOff(m) == countIn(m, window) > Limit

\* Rule 5.
Spent(m) == countIn(m, window) >= Limit

Lookup(s) ==
  /\ At(s, {"asked"})
  /\ Go(s, IF Denied(s) \/ Spent(MacOf(s)) THEN "cookie" ELSE "guessing")
  /\ Request /\ Quietly /\ UNCHANGED open

\* IsMACDenied fails open, at every gate.
LookupFails(s) ==
  /\ \/ /\ At(s, {"out"})
        /\ \E m \in Mac : session' = [session EXCEPT ![s] = [stage |-> "cookie", mac |-> m]]
        /\ Quietly
     \/ At(s, {"cookie"}) /\ Go(s, "away") /\ Quietly
     \/ At(s, {"asked"}) /\ Go(s, IF Spent(MacOf(s)) THEN "cookie" ELSE "guessing") /\ Quietly
     \/ At(s, {"returned"}) /\ Go(s, "in") /\ Reset({MacOf(s)})
  /\ open' = [open EXCEPT ![s] = TRUE]
  /\ Request

Accept(s) == At(s, {"guessing"}) /\ Grant(s) /\ UNCHANGED open

Miss(s) ==
  /\ At(s, {"guessing"})
  /\ Go(s, "cookie")
  /\ Record(MacOf(s))
  /\ Request /\ UNCHANGED open

-----------------------------------------------------------------------------
(* The console, the operator and the process.                              *)

\* handleDenyMACCreate resets the count of the device.
Banning == \E m \in Mac : Ban(m) /\ Reset({m}) /\ UNCHANGED <<session, window, horizon, now>>

\* handleDenyMACDelete, DeleteAll, handleDenylistImportCSV.
Listing == (Unbanning \/ \E u \in Upload : Uploading(u)) /\ UNCHANGED gateVars

Console == (Banning \/ Listing) /\ Witness

\* handleRateLimitReset and ResetAll.
ClearCounts ==
  /\ \E ms \in {Mac} \cup {{m} : m \in Mac} : Reset(ms)
  /\ UNCHANGED <<denyVars, session, window, horizon, now, open>>

SaveWindow(w) ==
  /\ window' = w
  /\ UNCHANGED <<denyVars, session, fails, horizon, now, open, misses>>

\* Cookies outlive the process; its counter and its requests do not.
Restart ==
  /\ StopUploads
  /\ session' = [s \in Session |-> IF Busy(s)
                                   THEN [session[s] EXCEPT !.stage = "cookie"] ELSE session[s]]
  /\ Reset(Mac)
  /\ horizon' = window
  /\ UNCHANGED <<window, now, open>>

Tick ==
  /\ now < MaxTime
  /\ now' = now + 1
  /\ misses' = Newer(misses, now' - Narrowest)
  /\ UNCHANGED <<denyVars, session, fails, window, horizon, open>>

Init ==
  /\ DenyInit
  /\ \E m \in Mac : session = [s \in Session |-> [stage |-> "out", mac |-> m]]
  /\ fails = [m \in Mac |-> Blank] /\ misses = [m \in Mac |-> Blank]
  /\ window \in Window /\ horizon = window
  /\ now = 0
  /\ open = [s \in Session |-> FALSE]

Browsing(s) ==
  \/ Portal(s) \/ Proceed(s) \/ Callback(s) \/ CallbackFails(s) \/ Admit(s)
  \/ Submit(s) \/ Lookup(s) \/ LookupFails(s) \/ Accept(s) \/ Miss(s)

Next ==
  \/ \E s \in Session : Browsing(s)
  \/ Console \/ ClearCounts \/ Prune \/ Restart \/ Tick
  \/ \E w \in Window : SaveWindow(w)

Spec == Init /\ [][Next]_vars

-----------------------------------------------------------------------------
(* Correctness.                                                            *)

TypeOK ==
  /\ DenyTypeOK
  /\ session \in [Session -> [stage : Stage, mac : Mac]]
  /\ fails \in [Mac -> [Time -> Nat]] /\ misses \in [Mac -> [Time -> Nat]]
  /\ window \in Window /\ horizon \in Window /\ now \in Time
  /\ open \in [Session -> BOOLEAN]

\* A device that is denied all the while a request of its browser is served is
\* not let in by it, by whichever way and however long it was away at the
\* identity provider: the ban came before the request, or no lookup failed.
DeniedStaysOut == \A s \in Session : At(s, {"in"}) => open[s]

\* Within the narrowest window in force a device guesses no more often than the
\* limit and once more per request that was counted beside another, whatever
\* window the operator has saved since the counter was made. The count starts
\* again when the device is let in, banned or reset, when the process restarts,
\* and when the full counter drops it (evictOldestLocked): but of a device with
\* a miss in the window it drops the count only if nine tenths of its room are
\* other devices that failed no earlier.
MacBudget ==
  \A m \in Mac : Total(misses[m], Time) <= Limit + Cardinality(Session) - 1
=============================================================================
