------------------------------- MODULE SignIn -------------------------------
(***************************************************************************)
(* Signing a device in through Entra or Duo, on one portal process: the    *)
(* signed session cookie (session.go), the opaque token of /auth/start and *)
(* /auth/proceed (auth_proceed.go), the failure counter of an email and    *)
(* the set of consumed states (ratelimit.go), and the handlers of main.go  *)
(* that use them while settings saves swap the runtime (runtime.go).       *)
(*                                                                         *)
(* A handler that waits for the identity provider, or that takes a mutex   *)
(* twice, is a thread of several steps; one with a single critical section *)
(* is an action.  A refusal that changes nothing here (a device on the     *)
(* denylist, an address in cooldown, a bad email) is a step not taken, and *)
(* so is handleLogin, which only sends the browser on to Entra.            *)
(***************************************************************************)
EXTENDS Integers, FiniteSets

CONSTANTS
  Device,       \* browsers
  Email,        \* addresses people sign in with
  Request,      \* multi-step handlers running at the same time
  Slot,         \* room in proceedStore: maxProceedEntries tokens
  MaxStates,    \* bound on the sessions issued
  MaxUsed,      \* maxUsedStates
  SessionTTL,   \* sessionTTL
  ProceedTTL,   \* AuthProceedTTL
  Short, Long,  \* the two rules for an email, as configured at the start
  Setup,        \* what an administrator may save: clients and rules
  MaxReloads,   \* bound on the runtime swaps
  MaxTime,      \* bound on the clock
  None          \* no cookie, no browser, no email, no handler, an empty slot

ASSUME BoundAssumption ==
  /\ MaxStates \in Nat /\ MaxUsed \in Nat \ {0} /\ MaxReloads \in Nat /\ MaxTime \in Nat \ {0}
  /\ SessionTTL \in Nat \ {0} /\ ProceedTTL \in Nat

\* Nothing relates the windows to each other or bounds the limits from below;
\* a negative number acts like 0.
Rule == [window : Nat, limit : Nat]
ASSUME RuleAssumption == Short \in Rule /\ Long \in Rule
ASSUME SetupAssumption == Setup \subseteq [oidc : BOOLEAN, duo : BOOLEAN, short : Rule, long : Rule]
ASSUME RequestAssumption == IsFiniteSet(Request) /\ Request # {}
ASSUME NoneAssumption == None \notin Email \cup Device \cup Request

VARIABLES
  cookie,   \* cookie[d]: the session cookie of browser d
  issued,   \* sessions issued so far, each with a state of its own
  fails,    \* fails[e]: the attempts on record in authEmailFails
  tokens,   \* tokens[x]: proceedStore
  used,     \* used[s]: expiry of s in usedStates, 0 if it is not there
  rt,       \* the runtimeState behind rtPtr
  prompts,  \* Duo prompts a browser was sent to and may return from
  req,      \* req[q]: what handler q is doing
  now,      \* wall clock, from 1
  last,     \* history: when a callback last consumed state s, within SessionTTL
  tries     \* history: tries[e]: the tokens handed out for e within MaxWindow
            \* and since the last sign-in that forgave it

stores  == <<fails, tokens, used>>
history == <<last, tries>>
vars    == <<cookie, issued, fails, tokens, used, rt, prompts, req, now, last, tries>>

State   == 1 .. MaxStates
Time    == 1 .. MaxTime
Attempt == Time \X Nat   \* when, and a number that tells those of one instant apart
Expiry  == 0 .. MaxTime + SessionTTL + ProceedTTL
Via     == {"entra", "duo"}
Session == [state : State, exp : Expiry, email : Email \cup {None}, purpose : {"wifi", "admin"}]
\* with: the handler that has not yet answered with the token, or None.
Entry   == [via : Via, state : State, email : Email, exp : Expiry, with : Request \cup {None}]
Prompted == [state : State, who : Email]

\* Every rule that is, or may come to be, in force, and what the garbage
\* collector of authEmailFails covers: the long window at the start.
ShortRules == {Short} \cup {s.short : s \in Setup}
LongRules  == {Long} \cup {s.long : s \in Setup}
MaxWindow  == Long.window
Runtime == [gen : 0 .. MaxReloads, oidc : BOOLEAN, duo : BOOLEAN,
            short : ShortRules, long : LongRules]

\* dev, sess: the browser and the cookie it sent.  via: where it is routed,
\* or where it returns from, and who: for whom Duo was asked.  client: the
\* generation of the client in use, which is missing at stage "exchange".
Stage   == {"idle", "preauth", "put", "record", "verify", "exchange", "decide"}
Handler == [stage : Stage, dev : Device \cup {None}, sess : Session \cup {None},
            via : Via, who : Email \cup {None}, client : 0 .. MaxReloads]
Idle    == [stage |-> "idle", dev |-> None, sess |-> None,
            via |-> "entra", who |-> None, client |-> 0]

At(q, stage) == req[q].stage = stage
Go(q, stage) == req' = [req EXCEPT ![q].stage = stage]
Finish(q)    == req' = [req EXCEPT ![q] = Idle]

\* readSessionCookie: signed by this portal and not past its expiry.
Valid(c) == c # None /\ now <= c.exp

\* countIn: the attempts after the cutoff.
CountIn(times, window) == Cardinality({a \in times : a[1] + window > now})
OneMore(times) ==
  times \cup {CHOOSE a \in {now} \X (0 .. Cardinality(times)) : a \notin times}
\* What the window of the garbage collector covers at an instant.
Kept(times, instant) == {a \in times : a[1] + MaxWindow > instant}

\* The sets an insert may drop first from a map with these expiries: nothing
\* below the cap, else what has expired, else also the oldest entries down to
\* nine tenths.
Target(cap) == (cap * 9) \div 10
Evictions(exp, cap) ==
  LET keys == DOMAIN exp
      dead == {k \in keys : now > exp[k]}
      left == keys \ dead
  IN  IF Cardinality(keys) < cap THEN {{}}
      ELSE IF Cardinality(left) < cap THEN {dead}
      ELSE {dead \cup old : old \in {S \in SUBSET left :
              /\ Cardinality(left \ S) = Target(cap)
              /\ \A k \in S, l \in left \ S : exp[k] <= exp[l]}}

-----------------------------------------------------------------------------
(* Sessions.                                                               *)

\* newSession, newAdminPreloginSession: a random state, unlike any other.
Issue(d, purpose) ==
  /\ issued < MaxStates
  /\ issued' = issued + 1
  /\ cookie' = [cookie EXCEPT ![d] = [state |-> issued + 1, exp |-> now + SessionTTL,
                                      email |-> None, purpose |-> purpose]]

\* handlePortal: the router sends a device here; any visit is a new session.
Portal(d) ==
  /\ Issue(d, "wifi")
  /\ UNCHANGED <<stores, rt, prompts, req, now, history>>

\* handleAdminLoginStart: straight on to Entra, if there is a client for it.
AdminLoginStart(d) ==
  /\ rt.oidc
  /\ Issue(d, "admin")
  /\ UNCHANGED <<stores, rt, prompts, req, now, history>>

-----------------------------------------------------------------------------
(* handleAuthStart.                                                        *)

Room(e, rule) == CountIn(fails[e], rule.window) < rule.limit

\* Mutation: an email is only refused once both windows are full.
WithinBudgetEither(e) == Room(e, rt.short) \/ Room(e, rt.long)

\* Rule 1, by the windows and limits in force.
WithinBudget(e) == Room(e, rt.short) /\ Room(e, rt.long)

\* Mutation: the session is passed on before it has been given the email.
AuthStartNoEmail(q, d, e) ==
  /\ At(q, "idle") /\ Valid(cookie[d])
  /\ WithinBudget(e)
  /\ req' = [req EXCEPT ![q] = [Idle EXCEPT !.stage = IF rt.duo THEN "preauth" ELSE "put", !.dev = d,
                                            !.sess = cookie[d]]]
  /\ UNCHANGED <<cookie, issued, stores, rt, prompts, now, history>>

\* The cookie, the count and the nil check of the Duo clients.
AuthStart(q, d, e) ==
  /\ At(q, "idle") /\ Valid(cookie[d])
  /\ WithinBudget(e)
  /\ req' = [req EXCEPT ![q] = [Idle EXCEPT !.stage = IF rt.duo THEN "preauth" ELSE "put", !.dev = d,
                                            !.sess = [cookie[d] EXCEPT !.email = e]]]
  /\ UNCHANGED <<cookie, issued, stores, rt, prompts, now, history>>

\* Where Duo's answer to Preauth may lead.  An account with a device is sent to
\* its prompt, if AuthURL succeeds; any other answer (an error and a denial
\* included) and a failed AuthURL lead to Entra, as does having no Duo client.
\* The clients are loaded again for either call: a load that found them is
\* one that came before a reload.
Route(q) == IF At(q, "preauth") THEN Via ELSE {"entra"}

\* proceedTokenStore.put (which may fail for want of randomness).
Put(q) ==
  LET kept == {x \in Slot : tokens[x] # None}
      sess == req[q].sess
  IN  /\ At(q, "preauth") \/ At(q, "put")
      /\ \E out \in Evictions([x \in kept |-> tokens[x].exp], Cardinality(Slot)), via \in Route(q) :
           LET x == CHOOSE x \in Slot : x \notin kept \ out
           IN  tokens' = [y \in Slot |->
                 IF y = x THEN [via |-> via, state |-> sess.state, email |-> sess.email,
                                exp |-> now + ProceedTTL, with |-> q]
                 ELSE IF y \in out THEN None ELSE tokens[y]]
      /\ tries' = [tries EXCEPT ![sess.email] = OneMore(@)]
      /\ Go(q, "record")
      /\ UNCHANGED <<cookie, issued, fails, used, rt, prompts, now, last>>

\* The error answer carries the cookie with the email all the same.
PutFails(q) ==
  /\ At(q, "preauth") \/ At(q, "put")
  /\ cookie' = [cookie EXCEPT ![req[q].dev] = req[q].sess]
  /\ Finish(q)
  /\ UNCHANGED <<issued, stores, rt, prompts, now, history>>

\* The attempt is counted, and the answer carries the cookie with the email
\* (over whatever cookie the browser has got in the meantime) and the token.
Record(q) ==
  /\ At(q, "record")
  /\ fails'  = [fails EXCEPT ![req[q].sess.email] = OneMore(@)]
  /\ cookie' = [cookie EXCEPT ![req[q].dev] = req[q].sess]
  /\ tokens' = [x \in Slot |-> IF tokens[x] # None /\ tokens[x].with = q
                              THEN [tokens[x] EXCEPT !.with = None] ELSE tokens[x]]
  /\ Finish(q)
  /\ UNCHANGED <<issued, used, rt, prompts, now, history>>

-----------------------------------------------------------------------------
(* On to the identity provider.                                            *)

\* handleAuthProceed: the token is consumed before it is looked at.
AuthProceed(d, x) ==
  /\ Valid(cookie[d]) /\ tokens[x] # None /\ tokens[x].with = None
  /\ tokens' = [tokens EXCEPT ![x] = None]
  /\ prompts' = IF now <= tokens[x].exp /\ tokens[x].state = cookie[d].state /\ tokens[x].via = "duo"
                THEN prompts \cup {[state |-> tokens[x].state, who |-> tokens[x].email]}
                ELSE prompts
  /\ UNCHANGED <<cookie, issued, fails, used, rt, req, now, history>>

-----------------------------------------------------------------------------
(* handleCallback and handleDuoCallback.                                   *)

\* Mutation: the entry is stored with the time of use for its expiry.
MarkUsedNoTTL(s) ==
  /\ used[s] = 0 \/ now >= used[s]
  /\ \E out \in Evictions([x \in {y \in State : used[y] # 0} |-> used[x]], MaxUsed) :
       used' = [x \in State |-> IF x = s THEN now ELSE IF x \in out THEN 0 ELSE used[x]]

\* usedStateSet.markUsed returns true.
MarkUsed(s) ==
  /\ used[s] = 0 \/ now >= used[s]
  /\ \E out \in Evictions([x \in {y \in State : used[y] # 0} |-> used[x]], MaxUsed) :
       used' = [x \in State |-> IF x = s THEN now + SessionTTL ELSE IF x \in out THEN 0 ELSE used[x]]

\* The browser returns, perhaps once more, with a state that is the one in
\* its cookie: to handleCallback, from wherever handleLogin sent it, which
\* then loads a.rt().oidc for the exchange ...
EntraCallback(q, d) ==
  /\ At(q, "idle") /\ Valid(cookie[d])
  /\ MarkUsed(cookie[d].state)
  /\ last' = [last EXCEPT ![cookie[d].state] = now]
  /\ req'  = [req EXCEPT ![q] = [Idle EXCEPT !.stage = IF rt.oidc THEN "verify" ELSE "exchange",
                                            !.dev = d, !.sess = cookie[d], !.client = rt.gen]]
  /\ UNCHANGED <<cookie, issued, fails, tokens, rt, prompts, now, tries>>

\* ... or to handleDuoCallback, which looks for its client first and wants an
\* email in the session.
DuoCallback(q, d, p) ==
  /\ At(q, "idle") /\ p \in prompts
  /\ rt.duo /\ Valid(cookie[d]) /\ cookie[d].state = p.state
  /\ MarkUsed(p.state)
  /\ last' = [last EXCEPT ![p.state] = now]
  /\ req'  = [req EXCEPT ![q] =
       IF cookie[d].email = None THEN Idle
       ELSE [Idle EXCEPT !.stage = "decide", !.dev = d, !.sess = cookie[d],
                         !.via = "duo", !.who = p.who]]
  /\ UNCHANGED <<cookie, issued, fails, tokens, rt, prompts, now, tries>>

\* *a.conf(), whose tenant the claims are compared with.
TakeConf(q) ==
  /\ At(q, "verify")
  /\ req' = [req EXCEPT ![q].stage = "decide", ![q].client = 0]
  /\ UNCHANGED <<cookie, issued, stores, rt, prompts, now, history>>

Leave(q) ==
  /\ cookie' = [cookie EXCEPT ![req[q].dev] = None]
  /\ Finish(q)
  /\ UNCHANGED <<issued, tokens, used, rt, prompts, now, last>>

\* The exchange fails or the user is not let in: a guest account, a denied
\* device, somebody who is no administrator.
Refuse(q) ==
  /\ At(q, "decide")
  /\ Finish(q)
  /\ UNCHANGED <<cookie, issued, stores, rt, prompts, now, history>>

\* The device is admitted, and the email of the session and of the user
\* forgiven.  Duo must have been asked about the email of the session.
Admit(q, user) ==
  /\ At(q, "decide")
  /\ IF req[q].via = "duo" THEN user = req[q].sess.email /\ user = req[q].who
     ELSE req[q].sess.purpose = "wifi"
  /\ LET forgiven == {req[q].sess.email, user}
     IN  /\ fails' = [e \in Email |-> IF e \in forgiven THEN {} ELSE fails[e]]
         /\ tries' = [e \in Email |-> IF e \in forgiven THEN {} ELSE tries[e]]
  /\ Leave(q)

\* finishAdminLogin: the administrator's cookie instead.
AdmitAdmin(q) ==
  /\ At(q, "decide") /\ req[q].via = "entra" /\ req[q].sess.purpose = "admin"
  /\ Leave(q)
  /\ UNCHANGED <<fails, tries>>

\* A client that was there a moment ago, or that nobody looked for, is nil
\* when a handler loads it: the goroutine panics, and net/http drops the
\* connection.
Panic(q) ==
  /\ \/ At(q, "preauth") /\ ~rt.duo
     \/ At(q, "decide") /\ req[q].via = "duo" /\ ~rt.duo
     \/ At(q, "exchange")
  /\ Finish(q)
  /\ UNCHANGED <<cookie, issued, stores, rt, prompts, now, history>>

-----------------------------------------------------------------------------
(* The rest of the process.                                                *)

\* reloadRuntime: a configuration and the clients it allows, in one store.
Reload ==
  /\ rt.gen < MaxReloads
  /\ \E s \in Setup : rt' = [gen |-> rt.gen + 1, oidc |-> s.oidc, duo |-> s.duo,
                             short |-> s.short, long |-> s.long]
  /\ UNCHANGED <<cookie, issued, stores, prompts, req, now, history>>

\* The three gcLoops, each in a critical section of its own.
CollectTokens ==
  /\ tokens' = [x \in Slot |-> IF tokens[x] # None /\ now > tokens[x].exp THEN None ELSE tokens[x]]
  /\ tokens' # tokens
  /\ UNCHANGED <<cookie, issued, fails, used, rt, prompts, req, now, history>>

CollectStates ==
  /\ used' = [s \in State |-> IF now > used[s] THEN 0 ELSE used[s]]
  /\ used' # used
  /\ UNCHANGED <<cookie, issued, fails, tokens, rt, prompts, req, now, history>>

CollectFails ==
  /\ fails' = [e \in Email |-> Kept(fails[e], now)]
  /\ fails' # fails
  /\ UNCHANGED <<cookie, issued, tokens, used, rt, prompts, req, now, history>>

Tick ==
  /\ now < MaxTime
  /\ now' = now + 1
  /\ last'  = [s \in State |-> IF now + 1 < last[s] + SessionTTL THEN last[s] ELSE 0]
  /\ tries' = [e \in Email |-> Kept(tries[e], now + 1)]
  /\ UNCHANGED <<cookie, issued, stores, rt, prompts, req>>

Init ==
  /\ cookie = [d \in Device |-> None] /\ issued = 0
  /\ fails = [e \in Email |-> {}] /\ tokens = [x \in Slot |-> None]
  /\ used = [s \in State |-> 0]
  /\ rt = [gen |-> 0, oidc |-> TRUE, duo |-> TRUE, short |-> Short, long |-> Long]
  /\ prompts = {}
  /\ req = [q \in Request |-> Idle]
  /\ now = 1
  /\ last = [s \in State |-> 0] /\ tries = [e \in Email |-> {}]

Starting(q) ==
  \/ (\E d \in Device, e \in Email : AuthStart(q, d, e))
  \/ Put(q) \/ PutFails(q) \/ Record(q)

Returning(q) ==
  \/ (\E d \in Device : EntraCallback(q, d) \/ (\E p \in prompts : DuoCallback(q, d, p)))
  \/ TakeConf(q)
  \/ Refuse(q) \/ (\E user \in Email : Admit(q, user)) \/ AdmitAdmin(q)

Next ==
  \/ \E d \in Device : Portal(d) \/ AdminLoginStart(d) \/ (\E x \in Slot : AuthProceed(d, x))
  \/ \E q \in Request : Starting(q) \/ Returning(q) \/ Panic(q)
  \/ Reload
  \/ CollectTokens \/ CollectStates \/ CollectFails
  \/ Tick

Spec == Init /\ [][Next]_vars

-----------------------------------------------------------------------------
(* Correctness.                                                            *)

TypeOK ==
  /\ cookie \in [Device -> Session \cup {None}] /\ issued \in 0 .. MaxStates
  /\ fails \in [Email -> SUBSET Attempt] /\ tries \in [Email -> SUBSET Attempt]
  /\ tokens \in [Slot -> Entry \cup {None}]
  /\ used \in [State -> Expiry] /\ last \in [State -> 0 .. MaxTime]
  /\ rt \in Runtime /\ prompts \subseteq Prompted
  /\ req \in [Request -> Handler] /\ now \in Time

\* markUsed: "a second use is rejected".  Until it has expired a consumed
\* state is accepted again only if the set was full and has evicted it, which
\* takes more than nine tenths of its capacity in states consumed no earlier.
StateUsedOnce ==
  [][\A s \in State :
       MarkUsed(s) /\ last[s] # 0 =>
         Cardinality({x \in State \ {s} : last[x] >= last[s]}) > Target(MaxUsed)]_vars

\* In the last w the tokens for e are at most a limit in force and the
\* handlers that ran side by side.
Bounded(e, w, rules) ==
  \E r \in rules : CountIn(tries[e], w) <= r.limit + Cardinality(Request) - 1

\* Rule 1, which checks the counts before a token is made and adds to them
\* after, by windows and limits that change at runtime: between two sign-ins
\* that bounds the tokens of an email in every window that the collector
\* covers and that no rule in force has been narrower than.
EmailBudget ==
  \A e \in Email, w \in 1 .. MaxWindow :
    /\ (\A r \in ShortRules : w <= r.window) => Bounded(e, w, ShortRules)
    /\ (\A r \in LongRules : w <= r.window) => Bounded(e, w, LongRules)

\* runtime.go: "there is no window in which a handler reads the new Entra
\* tenant and the old OIDC client".
OneWorld == [][\A q \in Request : TakeConf(q) => req[q].client = rt.gen]_vars
=============================================================================
