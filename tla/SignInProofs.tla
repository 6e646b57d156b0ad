---------------------------- MODULE SignInProofs ----------------------------
(***************************************************************************)
(* What signing in promises for every number of browsers, emails, handlers *)
(* at work, states and reloads, every size of the stores, every window and *)
(* every limit: the budget of an email and the single use of a state.      *)
(***************************************************************************)
EXTENDS SignIn, FiniteSetTheorems, TLAPS

\* A handler at work has a browser and the session it sent, and one that has
\* begun to route an email carries it.
Proper(r) ==
  /\ r.stage # "idle" => r.dev \in Device /\ r.sess \in Session
  /\ r.stage \in {"preauth", "put", "record"} => r.sess.email \in Email

HandlerInv == \A q \in Request : Proper(req[q])

\* The handlers that have been let through by the count and will make a token
\* for e, and those that have made it and will add to the count.
Putting(e)   == {q \in Request : (At(q, "preauth") \/ At(q, "put")) /\ req[q].sess.email = e}
Recording(e) == {q \in Request : At(q, "record") /\ req[q].sess.email = e}

From(times, c) == {a \in times : a[1] >= c}
Cutoff == 1 - MaxWindow .. MaxTime

\* Nothing is on record for a time to come, and only so much.
RecordInv ==
  \A e \in Email :
    /\ IsFiniteSet(fails[e]) /\ IsFiniteSet(tries[e])
    /\ \A a \in tries[e] : a[1] <= now

\* Since any time that MaxWindow covers, the tokens that are not on record are
\* those of handlers about to record them.
CountedInv ==
  \A e \in Email, c \in Cutoff :
    c <= now /\ now < c + MaxWindow =>
      Cardinality(From(tries[e], c)) <= Cardinality(From(fails[e], c)) + Cardinality(Recording(e))

\* A handler let through finds room, whoever makes a token first, in every
\* window that no rule in force has been narrower than.
Fits(e, w, limit) ==
  CountIn(tries[e], w) + Cardinality(Putting(e)) <= limit + Cardinality(Request) - 1

NoWider(w, rules) == \A r \in rules : w <= r.window

FitsOne(e, w, rules) == \E r \in rules : Fits(e, w, r.limit)

RoomInv ==
  \A e \in Email, w \in 1 .. MaxWindow :
    /\ NoWider(w, ShortRules) => FitsOne(e, w, ShortRules)
    /\ NoWider(w, LongRules) => FitsOne(e, w, LongRules)

\* The states consumed no earlier than s, but for s.
NoEarlier(s) == {x \in State \ {s} : last[x] >= last[s]}

\* A state whose session has not expired is in usedStates with its own expiry, or
\* was evicted; and what is there and has not expired was consumed.
UsedAt(s) ==
  /\ last[s] # 0 =>
       /\ last[s] <= now /\ now < last[s] + SessionTTL
       /\ used[s] = last[s] + SessionTTL \/ Cardinality(NoEarlier(s)) > Target(MaxUsed)
  /\ used[s] > now => last[s] # 0 /\ used[s] = last[s] + SessionTTL

UsedInv == \A s \in State : UsedAt(s)

SignInInv == TypeOK /\ HandlerInv /\ RecordInv /\ CountedInv /\ RoomInv /\ UsedInv

-----------------------------------------------------------------------------
LEMMA Numbers ==
  /\ MaxStates \in Nat /\ MaxUsed \in Nat \ {0} /\ MaxReloads \in Nat /\ MaxTime \in Nat \ {0}
  /\ SessionTTL \in Nat \ {0} /\ ProceedTTL \in Nat
  /\ MaxWindow \in Nat
  /\ None \notin Email /\ None \notin Device /\ None \notin Request
BY BoundAssumption, RuleAssumption, NoneAssumption DEF MaxWindow, Rule

LEMMA Rules ==
  /\ Short \in ShortRules /\ Long \in LongRules
  /\ \A r \in ShortRules \cup LongRules : r.window \in Nat /\ r.limit \in Nat
BY RuleAssumption, SetupAssumption DEF ShortRules, LongRules, Rule

LEMMA RequestCount == IsFiniteSet(Request) /\ Cardinality(Request) \in Nat \ {0}
BY RequestAssumption, FS_CardinalityType, FS_EmptySet

LEMMA Instants ==
  \A t \in Time : /\ t \in Nat /\ t >= 1 /\ t <= MaxTime /\ t \in 0 .. MaxTime
                  /\ t + SessionTTL \in Expiry /\ t + ProceedTTL \in Expiry
BY Numbers DEF Time, Expiry

LEMMA IdleIsHandler == Idle \in Handler /\ Proper(Idle)
BY Numbers DEF Idle, Handler, Stage, Via, Proper

\* What the steps make of a handler that is idle.
Sending(s, d, c)   == [Idle EXCEPT !.stage = s, !.dev = d, !.sess = c]
Loading(s, d, c, k) == [Idle EXCEPT !.stage = s, !.dev = d, !.sess = c, !.client = k]
Asking(s, d, c, w)  == [Idle EXCEPT !.stage = s, !.dev = d, !.sess = c, !.via = "duo", !.who = w]

LEMMA HandlerMade ==
  ASSUME NEW s \in Stage, NEW d \in Device, NEW c \in Session,
         s \in {"preauth", "put", "record"} => c.email \in Email
  PROVE  /\ Sending(s, d, c) \in Handler /\ Proper(Sending(s, d, c))
         /\ \A k \in 0 .. MaxReloads : /\ Loading(s, d, c, k) \in Handler
                                      /\ Proper(Loading(s, d, c, k))
         /\ \A w \in Email : Asking(s, d, c, w) \in Handler /\ Proper(Asking(s, d, c, w))
<1>1. Idle \in Handler /\ "duo" \in Via
  BY IdleIsHandler DEF Via
<1>2. ASSUME NEW r \in Handler, r.stage = s, r.dev = d, r.sess = c PROVE Proper(r)
  BY <1>2 DEF Proper
<1>3. Sending(s, d, c) \in Handler /\ Proper(Sending(s, d, c))
  BY <1>1, <1>2 DEF Handler, Sending
<1>4. ASSUME NEW k \in 0 .. MaxReloads
      PROVE  Loading(s, d, c, k) \in Handler /\ Proper(Loading(s, d, c, k))
  BY <1>1, <1>2 DEF Handler, Loading
<1>5. ASSUME NEW w \in Email
      PROVE  Asking(s, d, c, w) \in Handler /\ Proper(Asking(s, d, c, w))
  BY <1>1, <1>2 DEF Handler, Asking
<1> QED BY <1>3, <1>4, <1>5

LEMMA SessionParts ==
  ASSUME NEW c \in Session
  PROVE  /\ c.state \in State /\ c.exp \in Expiry /\ c.email \in Email \cup {None}
         /\ c.purpose \in {"wifi", "admin"}
         /\ \A e \in Email : /\ [c EXCEPT !.email = e] \in Session
                             /\ [c EXCEPT !.email = e].email = e
BY DEF Session

LEMMA HandlerParts ==
  ASSUME NEW r \in Handler
  PROVE  /\ r.stage \in Stage /\ r.dev \in Device \cup {None} /\ r.sess \in Session \cup {None}
         /\ r.via \in Via /\ r.who \in Email \cup {None} /\ r.client \in 0 .. MaxReloads
         /\ \A s \in Stage : /\ [r EXCEPT !.stage = s] \in Handler
                             /\ [r EXCEPT !.stage = s, !.client = 0] \in Handler
<1>1. 0 \in 0 .. MaxReloads
  BY Numbers
<1> QED BY <1>1 DEF Handler

-----------------------------------------------------------------------------
(* Counting attempts.                                                      *)

\* There is a number for one more attempt.
LEMMA OneMoreIsMore ==
  ASSUME now \in Time, NEW times, times \subseteq Attempt, IsFiniteSet(times)
  PROVE  \E a \in Attempt : /\ a[1] = now /\ a \notin times
                            /\ OneMore(times) = times \cup {a}
<1> DEFINE n == Cardinality(times)
           fresh == {now} \X (0 .. n)
<1>1. n \in Nat
  BY FS_CardinalityType
<1>2. \E a \in fresh : a \notin times
  <2> SUFFICES ASSUME \A a \in fresh : a \in times PROVE FALSE
    OBVIOUS
  <2> DEFINE f == [k \in 0 .. n |-> <<now, k>>]
  <2>1. f \in [0 .. n -> times]
    OBVIOUS
  <2>2. IsFiniteSet(0 .. n) /\ n < Cardinality(0 .. n)
    BY <1>1, FS_Interval
  <2>3. PICK k, m \in 0 .. n : k # m /\ f[k] = f[m]
    <3> HIDE DEF f
    <3> QED BY <2>1, <2>2, FS_PigeonHole
  <2> QED BY <2>3
<1>3. PICK a \in fresh : a \notin times /\ OneMore(times) = times \cup {a}
  <2> DEFINE c == CHOOSE a \in fresh : a \notin times
  <2>1. c \in fresh /\ c \notin times
    BY <1>2
  <2>2. OneMore(times) = times \cup {c}
    BY DEF OneMore
  <2> HIDE DEF c
  <2> QED BY <2>1, <2>2
<1>4. a \in Attempt /\ a[1] = now
  BY <1>1, <1>3 DEF Attempt
<1> QED BY <1>3, <1>4

LEMMA Whens ==
  ASSUME NEW times, times \subseteq Attempt
  PROVE  \A a \in times : a[1] \in Int
BY Instants DEF Attempt

LEMMA FromPart ==
  ASSUME NEW times, IsFiniteSet(times), NEW c
  PROVE  /\ IsFiniteSet(From(times, c)) /\ Cardinality(From(times, c)) \in Nat
         /\ \A part \in SUBSET times :
              /\ IsFiniteSet(part)
              /\ Cardinality(From(part, c)) \in Nat
              /\ Cardinality(From(part, c)) <= Cardinality(From(times, c))
<1>1. From(times, c) \in SUBSET times
  BY DEF From
<1>2. IsFiniteSet(From(times, c))
  BY <1>1, FS_Subset
<1>3. ASSUME NEW part \in SUBSET times PROVE From(part, c) \in SUBSET From(times, c)
  BY DEF From
<1> QED BY <1>2, <1>3, FS_Subset, FS_CardinalityType

LEMMA FromMore ==
  ASSUME now \in Time, NEW times, times \subseteq Attempt, IsFiniteSet(times),
         NEW c \in Int, c <= now
  PROVE  /\ OneMore(times) \subseteq Attempt /\ IsFiniteSet(OneMore(times))
         /\ \A a \in OneMore(times) : a \in times \/ a[1] = now
         /\ Cardinality(From(OneMore(times), c)) = Cardinality(From(times, c)) + 1
<1>1. PICK a \in Attempt : a[1] = now /\ a \notin times /\ OneMore(times) = times \cup {a}
  BY OneMoreIsMore
<1>2. From(OneMore(times), c) = From(times, c) \cup {a} /\ a \notin From(times, c)
  BY <1>1, Instants DEF From
<1>3. IsFiniteSet(From(times, c))
  BY FromPart
<1>4. Cardinality(From(OneMore(times), c)) = Cardinality(From(times, c)) + 1
  BY <1>2, <1>3, FS_AddElement
<1>5. IsFiniteSet(OneMore(times))
  BY <1>1, FS_AddElement
<1> QED BY <1>1, <1>4, <1>5

\* A window that MaxWindow covers counts from a cutoff that it covers.
LEMMA CountIsFrom ==
  ASSUME now \in Time, NEW w \in 1 .. MaxWindow
  PROVE  /\ now - w + 1 \in Cutoff /\ now - w + 1 <= now /\ now < now - w + 1 + MaxWindow
         /\ \A times : times \subseteq Attempt =>
              CountIn(times, w) = Cardinality(From(times, now - w + 1))
<1>1. w \in Nat \ {0} /\ w <= MaxWindow
  BY Numbers
<1>2. ASSUME NEW times, times \subseteq Attempt
      PROVE  {a \in times : a[1] + w > now} = From(times, now - w + 1)
  <2>1. \A a \in times : a[1] \in Nat
    BY <1>2, Instants DEF Attempt
  <2> QED BY <1>1, <2>1, Instants DEF From
<1>3. now - w + 1 \in Cutoff /\ now - w + 1 <= now /\ now < now - w + 1 + MaxWindow
  BY <1>1, Instants, Numbers DEF Cutoff
<1>4. ASSUME NEW times, times \subseteq Attempt
      PROVE  CountIn(times, w) = Cardinality(From(times, now - w + 1))
  BY <1>2, <1>4 DEF CountIn
<1> QED BY <1>3, <1>4

\* Handlers are few.
LEMMA Handlers ==
  ASSUME NEW e
  PROVE  /\ IsFiniteSet(Putting(e)) /\ IsFiniteSet(Recording(e))
         /\ Cardinality(Putting(e)) \in Nat /\ Cardinality(Recording(e)) \in Nat
         /\ Cardinality(Putting(e)) <= Cardinality(Request)
<1>1. Putting(e) \in SUBSET Request /\ Recording(e) \in SUBSET Request
  BY DEF Putting, Recording
<1> QED BY <1>1, RequestCount, FS_Subset, FS_CardinalityType

-----------------------------------------------------------------------------
(* Types.                                                                  *)

Takes(q, r) == req' = [req EXCEPT ![q] = r]

\* What a handler becomes in a step.
LEMMA HandlerMoves ==
  ASSUME TypeOK, HandlerInv, [Next]_vars
  PROVE  req' = req \/ \E q \in Request, r \in Handler : Proper(r) /\ Takes(q, r)
<1> DEFINE Moves == \E q \in Request, r \in Handler : Proper(r) /\ Takes(q, r)
<1> SUFFICES req' = req \/ Moves
  OBVIOUS
<1>0. \A q \in Request : req[q] \in Handler /\ Proper(req[q])
  BY DEF TypeOK, HandlerInv
<1>1. ASSUME NEW q \in Request, Finish(q) PROVE Moves
  <2>1. Takes(q, Idle)
    BY <1>1 DEF Finish, Takes
  <2> QED BY <2>1, IdleIsHandler
<1>3. ASSUME NEW q \in Request, NEW d \in Device, NEW e \in Email, AuthStart(q, d, e) PROVE Moves
  <2> DEFINE c == [cookie[d] EXCEPT !.email = e]
             s == IF rt.duo THEN "preauth" ELSE "put"
  <2>1. cookie[d] \in Session
    BY <1>3 DEF AuthStart, Valid, TypeOK
  <2>2. c \in Session /\ c.email \in Email
    BY <2>1, SessionParts
  <2>3. s \in Stage
    BY DEF Stage
  <2>4. Takes(q, Sending(s, d, c))
    BY <1>3 DEF AuthStart, Takes, Sending
  <2> HIDE DEF c, s
  <2> QED BY <2>2, <2>3, <2>4, HandlerMade
<1>4. ASSUME NEW q \in Request, Put(q) PROVE Moves
  <2>1. Takes(q, [req[q] EXCEPT !.stage = "record"])
    BY <1>4, <1>0 DEF Put, Go, Takes, TypeOK
  <2>2. At(q, "preauth") \/ At(q, "put")
    BY <1>4 DEF Put
  <2>3. [req[q] EXCEPT !.stage = "record"] \in Handler
    BY <1>0, HandlerParts DEF Stage
  <2>4. Proper([req[q] EXCEPT !.stage = "record"])
    BY <1>0, <2>2 DEF Proper, At, Handler
  <2> QED BY <2>1, <2>3, <2>4
<1>5. ASSUME NEW q \in Request, PutFails(q) \/ Record(q) \/ Refuse(q) \/ AdmitAdmin(q) \/ Panic(q)
                                \/ \E user \in Email : Admit(q, user)
      PROVE  Moves
  BY <1>1, <1>5 DEF PutFails, Record, Refuse, AdmitAdmin, Panic, Admit, Leave
<1>6. ASSUME NEW q \in Request, NEW d \in Device, EntraCallback(q, d) PROVE Moves
  <2> DEFINE s == IF rt.oidc THEN "verify" ELSE "exchange"
  <2>1. cookie[d] \in Session
    BY <1>6 DEF EntraCallback, Valid, TypeOK
  <2>2. s \in Stage /\ s \notin {"preauth", "put", "record"} /\ rt.gen \in 0 .. MaxReloads
    BY DEF Stage, TypeOK, Runtime
  <2>3. Takes(q, Loading(s, d, cookie[d], rt.gen))
    BY <1>6 DEF EntraCallback, Takes, Loading
  <2> HIDE DEF s
  <2> QED BY <2>1, <2>2, <2>3, HandlerMade
<1>7. ASSUME NEW q \in Request, NEW d \in Device, NEW p \in prompts, DuoCallback(q, d, p)
      PROVE  Moves
  <2>1. cookie[d] \in Session /\ p.who \in Email
    BY <1>7 DEF DuoCallback, Valid, TypeOK, Prompted
  <2>2. CASE cookie[d].email = None
    <3>1. Takes(q, Idle)
      BY <1>7, <2>2 DEF DuoCallback, Takes
    <3> QED BY <3>1, IdleIsHandler
  <2>3. CASE cookie[d].email # None
    <3>1. Takes(q, Asking("decide", d, cookie[d], p.who))
      BY <1>7, <2>3 DEF DuoCallback, Takes, Asking
    <3> QED BY <2>1, <3>1, HandlerMade DEF Stage
  <2> QED BY <2>2, <2>3
<1>8. ASSUME NEW q \in Request, TakeConf(q) PROVE Moves
  <2> DEFINE r == [req[q] EXCEPT !.stage = "decide", !.client = 0]
  <2>1. Takes(q, r)
    BY <1>8, <1>0 DEF TakeConf, Takes, TypeOK
  <2>2. r \in Handler
    BY <1>0, HandlerParts, Numbers DEF Stage
  <2>3. Proper(r)
    BY <1>0, <1>8 DEF TakeConf, Proper, At, Handler
  <2> HIDE DEF r
  <2> QED BY <2>1, <2>2, <2>3
<1>9. CASE UNCHANGED req
  BY <1>9
<1>10. ASSUME NEW q \in Request, Starting(q) \/ Returning(q) \/ Panic(q) PROVE Moves
  BY <1>3, <1>4, <1>5, <1>6, <1>7, <1>8, <1>10 DEF Starting, Returning
<1>11. CASE \E d \in Device : Portal(d) \/ AdminLoginStart(d) \/ (\E x \in Slot : AuthProceed(d, x))
  BY <1>11 DEF Portal, AdminLoginStart, AuthProceed
<1>12. CASE Reload \/ CollectTokens \/ CollectStates \/ CollectFails \/ Tick \/ UNCHANGED vars
  BY <1>12 DEF Reload, CollectTokens, CollectStates, CollectFails, Tick, vars
<1> HIDE DEF Moves
<1> QED BY <1>10, <1>11, <1>12 DEF Next

LEMMA HandlerStep ==
  TypeOK /\ HandlerInv /\ [Next]_vars => HandlerInv' /\ req' \in [Request -> Handler]
<1> SUFFICES ASSUME TypeOK, HandlerInv, [Next]_vars
             PROVE  HandlerInv' /\ req' \in [Request -> Handler]
  OBVIOUS
<1>1. CASE req' = req
  BY <1>1 DEF HandlerInv, TypeOK
<1>2. ASSUME NEW q \in Request, NEW r \in Handler, Proper(r), Takes(q, r)
      PROVE  HandlerInv' /\ req' \in [Request -> Handler]
  BY <1>2 DEF HandlerInv, TypeOK, Takes
<1> QED BY <1>1, <1>2, HandlerMoves

LEMMA MoreAttempts ==
  ASSUME TypeOK, RecordInv, NEW e \in Email
  PROVE  /\ OneMore(fails[e]) \subseteq Attempt /\ OneMore(tries[e]) \subseteq Attempt
         /\ IsFiniteSet(OneMore(fails[e])) /\ IsFiniteSet(OneMore(tries[e]))
         /\ \A a \in OneMore(tries[e]) : a[1] <= now
<1>1. /\ now \in Time /\ now \in Int /\ now <= now
      /\ fails[e] \subseteq Attempt /\ tries[e] \subseteq Attempt
      /\ IsFiniteSet(fails[e]) /\ IsFiniteSet(tries[e]) /\ \A a \in tries[e] : a[1] <= now
  BY Instants DEF TypeOK, RecordInv
<1> QED BY <1>1, FromMore

LEMMA UsedType ==
  ASSUME TypeOK, NEW s \in State, MarkUsed(s)
  PROVE  used' \in [State -> Expiry]
<1>1. now + SessionTTL \in Expiry /\ 0 \in Expiry
  BY Instants, Numbers DEF TypeOK, Expiry
<1> QED BY <1>1 DEF MarkUsed, TypeOK

LEMMA IssueType ==
  ASSUME TypeOK, NEW d \in Device, NEW p \in {"wifi", "admin"}, Issue(d, p)
  PROVE  cookie' \in [Device -> Session \cup {None}] /\ issued' \in 0 .. MaxStates
<1>1. issued' \in 0 .. MaxStates /\ issued + 1 \in State
  BY Numbers DEF Issue, TypeOK, State
<1>2. [state |-> issued + 1, exp |-> now + SessionTTL, email |-> None, purpose |-> p] \in Session
  BY <1>1, Instants DEF Session, TypeOK
<1> QED BY <1>1, <1>2 DEF Issue, TypeOK

\* Every action keeps every variable in its type.
LEMMA TypeStep == TypeOK /\ HandlerInv /\ RecordInv /\ [Next]_vars => TypeOK'
<1> SUFFICES ASSUME TypeOK, HandlerInv, RecordInv, [Next]_vars PROVE TypeOK'
  OBVIOUS
<1>0. req' \in [Request -> Handler]
  BY HandlerStep
<1> USE DEF stores, history
<1>1. ASSUME NEW d \in Device, Portal(d) \/ AdminLoginStart(d) PROVE TypeOK'
  <2>1. cookie' \in [Device -> Session \cup {None}] /\ issued' \in 0 .. MaxStates
    BY <1>1, IssueType DEF Portal, AdminLoginStart
  <2> QED BY <1>1, <2>1 DEF Portal, AdminLoginStart, TypeOK
<1>2. ASSUME NEW d \in Device, NEW x \in Slot, AuthProceed(d, x) PROVE TypeOK'
  <2>1. tokens[x].state \in State /\ tokens[x].email \in Email
    BY <1>2 DEF AuthProceed, TypeOK, Entry
  <2>2. prompts' \subseteq Prompted
    BY <1>2, <2>1 DEF AuthProceed, TypeOK, Prompted
  <2>3. tokens' \in [Slot -> Entry \cup {None}]
    BY <1>2 DEF AuthProceed, TypeOK
  <2> QED BY <1>0, <1>2, <2>2, <2>3 DEF AuthProceed, TypeOK
<1>3. ASSUME NEW q \in Request, NEW d \in Device, NEW e \in Email, AuthStart(q, d, e) PROVE TypeOK'
  BY <1>0, <1>3 DEF AuthStart, TypeOK
<1>4. ASSUME NEW q \in Request, Put(q) PROVE TypeOK'
  <2> DEFINE sess == req[q].sess
  <2>1. sess \in Session /\ sess.email \in Email
    BY <1>4 DEF Put, HandlerInv, Proper, At
  <2>2. tokens' \in [Slot -> Entry \cup {None}]
    <3>1. sess.state \in State /\ now + ProceedTTL \in Expiry
      BY <2>1, SessionParts, Instants DEF TypeOK
    <3>2. ASSUME NEW via \in Route(q)
          PROVE  [via |-> via, state |-> sess.state, email |-> sess.email,
                  exp |-> now + ProceedTTL, with |-> q] \in Entry
      BY <2>1, <3>1, <3>2 DEF Entry, Route, Via
    <3> DEFINE Placed(via, out, x) ==
                 tokens' = [y \in Slot |->
                   IF y = x THEN [via |-> via, state |-> sess.state, email |-> sess.email,
                                  exp |-> now + ProceedTTL, with |-> q]
                   ELSE IF y \in out THEN None ELSE tokens[y]]
               kept   == {x \in Slot : tokens[x] # None}
               at(out) == CHOOSE x \in Slot : x \notin kept \ out
    <3>3. PICK via \in Route(q) : \E out : Placed(via, out, at(out))
      BY <1>4 DEF Put
    <3>4. PICK out : Placed(via, out, at(out))
      BY <3>3
    <3> HIDE DEF sess
    <3> QED BY <3>2, <3>4 DEF TypeOK
  <2>3. tries' \in [Email -> SUBSET Attempt]
    <3>1. tries' = [tries EXCEPT ![sess.email] = OneMore(tries[sess.email])]
      BY <1>4 DEF Put
    <3> HIDE DEF sess
    <3> QED BY <2>1, <3>1, MoreAttempts DEF TypeOK
  <2> QED BY <1>0, <1>4, <2>2, <2>3 DEF Put, TypeOK
<1>5. ASSUME NEW q \in Request, PutFails(q) PROVE TypeOK'
  <2>1. req[q].dev \in Device /\ req[q].sess \in Session
    BY <1>5 DEF PutFails, HandlerInv, Proper, At
  <2> QED BY <1>0, <1>5, <2>1 DEF PutFails, TypeOK
<1>6. ASSUME NEW q \in Request, Record(q) PROVE TypeOK'
  <2>1. req[q].dev \in Device /\ req[q].sess \in Session /\ req[q].sess.email \in Email
    BY <1>6 DEF Record, HandlerInv, Proper, At
  <2>2. cookie' \in [Device -> Session \cup {None}]
    BY <1>6, <2>1 DEF Record, TypeOK
  <2>3. tokens' \in [Slot -> Entry \cup {None}]
    BY <1>6 DEF Record, TypeOK, Entry
  <2>4. fails' \in [Email -> SUBSET Attempt]
    <3>1. fails' = [fails EXCEPT ![req[q].sess.email] = OneMore(fails[req[q].sess.email])]
      BY <1>6 DEF Record
    <3> QED BY <2>1, <3>1, MoreAttempts DEF TypeOK
  <2> QED BY <1>0, <1>6, <2>2, <2>3, <2>4 DEF Record, TypeOK
<1>7. ASSUME NEW q \in Request, NEW d \in Device, EntraCallback(q, d) PROVE TypeOK'
  <2>1. cookie[d].state \in State
    BY <1>7, SessionParts DEF EntraCallback, Valid, TypeOK
  <2>2. used' \in [State -> Expiry] /\ last' \in [State -> 0 .. MaxTime]
    BY <1>7, <2>1, UsedType, Instants DEF EntraCallback, TypeOK
  <2> QED BY <1>0, <1>7, <2>2 DEF EntraCallback, TypeOK
<1>8. ASSUME NEW q \in Request, NEW d \in Device, NEW p \in prompts, DuoCallback(q, d, p)
      PROVE  TypeOK'
  <2>1. p.state \in State
    BY DEF TypeOK, Prompted
  <2>2. used' \in [State -> Expiry] /\ last' \in [State -> 0 .. MaxTime]
    BY <1>8, <2>1, UsedType, Instants DEF DuoCallback, TypeOK
  <2> QED BY <1>0, <1>8, <2>2 DEF DuoCallback, TypeOK
<1>9. ASSUME NEW q \in Request, TakeConf(q) \/ Refuse(q) \/ Panic(q) PROVE TypeOK'
  BY <1>0, <1>9 DEF TakeConf, Refuse, Panic, TypeOK
<1>10. ASSUME NEW q \in Request, AdmitAdmin(q) \/ \E user \in Email : Admit(q, user) PROVE TypeOK'
  <2>1. fails' \in [Email -> SUBSET Attempt] /\ tries' \in [Email -> SUBSET Attempt]
    BY <1>10 DEF AdmitAdmin, Admit, TypeOK
  <2>2. cookie' \in [Device -> Session \cup {None}]
    BY <1>10 DEF AdmitAdmin, Admit, Leave, TypeOK
  <2> QED BY <1>0, <1>10, <2>1, <2>2 DEF AdmitAdmin, Admit, Leave, TypeOK
<1>11. CASE Reload
  <2>1. rt' \in Runtime
    BY <1>11, SetupAssumption, Numbers DEF Reload, TypeOK, Runtime, ShortRules, LongRules
  <2> QED BY <1>11, <2>1 DEF Reload, TypeOK
<1>12. CASE CollectTokens \/ CollectStates \/ CollectFails
  <2>1. 0 \in Expiry
    BY Numbers DEF Expiry
  <2> QED BY <1>12, <2>1 DEF CollectTokens, CollectStates, CollectFails, Kept, TypeOK
<1>13. CASE Tick
  <2>1. now' \in Time /\ 0 \in 0 .. MaxTime
    BY <1>13, Numbers DEF Tick, TypeOK, Time
  <2> QED BY <1>13, <2>1 DEF Tick, Kept, TypeOK
<1>14. CASE UNCHANGED vars
  BY <1>14 DEF vars, TypeOK
<1> QED BY <1>1, <1>2, <1>3, <1>4, <1>5, <1>6, <1>7, <1>8, <1>9, <1>10, <1>11, <1>12, <1>13, <1>14
        DEF Next, Starting, Returning

-----------------------------------------------------------------------------
(* The budget.                                                             *)

\* What a handler's step makes of the two sets.
LEMMA HandlersChange ==
  ASSUME TypeOK, NEW q \in Request, NEW r, Takes(q, r), NEW e
  PROVE  /\ Putting(e)' = IF r.stage \in {"preauth", "put"} /\ r.sess.email = e
                          THEN Putting(e) \cup {q} ELSE Putting(e) \ {q}
         /\ Recording(e)' = IF r.stage = "record" /\ r.sess.email = e
                            THEN Recording(e) \cup {q} ELSE Recording(e) \ {q}
<1>1. \A x \in Request : req'[x] = IF x = q THEN r ELSE req[x]
  BY DEF Takes, TypeOK
<1>2. Putting(e)' = {x \in Request : req'[x].stage \in {"preauth", "put"} /\ req'[x].sess.email = e}
  BY DEF Putting, At
<1>3. Recording(e)' = {x \in Request : req'[x].stage = "record" /\ req'[x].sess.email = e}
  BY DEF Recording, At
<1> QED BY <1>1, <1>2, <1>3 DEF Putting, Recording, At

\* No token is about to be made that was not, and none recorded.
Still == \A e \in Email : Recording(e)' = Recording(e) /\ Putting(e)' \subseteq Putting(e)

LEMMA Passing ==
  ASSUME TypeOK, NEW q \in Request, NEW r, Takes(q, r), ~At(q, "record"),
         r.stage \notin {"preauth", "put", "record"}
  PROVE  Still
<1> SUFFICES ASSUME NEW e \in Email
             PROVE  Recording(e)' = Recording(e) /\ Putting(e)' \subseteq Putting(e)
  BY DEF Still
<1>1. Recording(e)' = Recording(e) \ {q} /\ Putting(e)' = Putting(e) \ {q}
  BY HandlersChange
<1>2. q \notin Recording(e)
  BY DEF Recording
<1> QED BY <1>1, <1>2

LEMMA Alike == UNCHANGED req => Still
BY DEF Still, Recording, Putting, At

\* The steps that the budget is about, and the others.
LEMMA BudgetSteps ==
  ASSUME TypeOK, [Next]_vars
  PROVE  \/ \E q \in Request : \/ Put(q) \/ Record(q) \/ (\E user \in Email : Admit(q, user))
                              \/ \E d \in Device, e \in Email : AuthStart(q, d, e)
         \/ CollectFails \/ Tick
         \/ UNCHANGED <<fails, tries, now>> /\ Still
<1> DEFINE Other == UNCHANGED <<fails, tries, now>> /\ Still
<1> USE DEF stores, history
<1>1. ASSUME NEW q \in Request, PutFails(q) \/ Refuse(q) \/ AdmitAdmin(q) \/ Panic(q) PROVE Other
  <2>1. Takes(q, Idle) /\ ~At(q, "record") /\ UNCHANGED <<fails, tries, now>>
    BY <1>1 DEF PutFails, Refuse, AdmitAdmin, Panic, Leave, Finish, Takes, At
  <2> QED BY <2>1, Passing DEF Idle
<1>2. ASSUME NEW q \in Request, TakeConf(q) PROVE Other
  <2>1. /\ Takes(q, [req[q] EXCEPT !.stage = "decide", !.client = 0])
        /\ ~At(q, "record") /\ UNCHANGED <<fails, tries, now>>
    BY <1>2 DEF TakeConf, Takes, At, TypeOK
  <2>2. [req[q] EXCEPT !.stage = "decide", !.client = 0].stage = "decide"
    BY DEF TypeOK, Handler
  <2> QED BY <2>1, <2>2, Passing
<1>3. ASSUME NEW q \in Request, NEW d \in Device, EntraCallback(q, d) PROVE Other
  <2> DEFINE s == IF rt.oidc THEN "verify" ELSE "exchange"
  <2>1. /\ Takes(q, Loading(s, d, cookie[d], rt.gen))
        /\ ~At(q, "record") /\ UNCHANGED <<fails, tries, now>>
    BY <1>3 DEF EntraCallback, Takes, Loading, At
  <2>2. Loading(s, d, cookie[d], rt.gen).stage = s /\ s \notin {"preauth", "put", "record"}
    BY DEF Loading, Idle
  <2> HIDE DEF s
  <2> QED BY <2>1, <2>2, Passing
<1>4. ASSUME NEW q \in Request, NEW d \in Device, NEW p \in prompts, DuoCallback(q, d, p)
      PROVE  Other
  <2>1. /\ Takes(q, Idle) \/ Takes(q, Asking("decide", d, cookie[d], p.who))
        /\ ~At(q, "record") /\ UNCHANGED <<fails, tries, now>>
    BY <1>4 DEF DuoCallback, Takes, Asking, At
  <2>2. Asking("decide", d, cookie[d], p.who).stage = "decide"
    BY DEF Asking, Idle
  <2> QED BY <2>1, <2>2, Passing DEF Idle
<1>5. ASSUME NEW d \in Device,
             Portal(d) \/ AdminLoginStart(d) \/ (\E x \in Slot : AuthProceed(d, x))
      PROVE  Other
  BY <1>5, Alike DEF Portal, AdminLoginStart, Issue, AuthProceed
<1>6. ASSUME Reload \/ CollectTokens \/ CollectStates \/ UNCHANGED vars PROVE Other
  BY <1>6, Alike DEF Reload, CollectTokens, CollectStates, vars
<1> HIDE DEF Other
<1>7. \/ \E q \in Request : \/ Put(q) \/ Record(q) \/ (\E user \in Email : Admit(q, user))
                            \/ \E d \in Device, e \in Email : AuthStart(q, d, e)
      \/ CollectFails \/ Tick \/ Other
  BY <1>1, <1>2, <1>3, <1>4, <1>5, <1>6 DEF Next, Starting, Returning
<1> QED BY <1>7 DEF Other

LEMMA RecordStep ==
  TypeOK /\ HandlerInv /\ RecordInv /\ [Next]_vars => RecordInv'
<1> SUFFICES ASSUME TypeOK, HandlerInv, RecordInv, [Next]_vars, NEW e \in Email
             PROVE  /\ IsFiniteSet(fails'[e]) /\ IsFiniteSet(tries'[e])
                    /\ \A a \in tries'[e] : a[1] <= now'
  BY DEF RecordInv
<1>0. /\ IsFiniteSet(fails[e]) /\ IsFiniteSet(tries[e]) /\ tries[e] \subseteq Attempt
      /\ \A a \in tries[e] : a[1] <= now
  BY DEF RecordInv, TypeOK
<1>1. ASSUME NEW q \in Request, Put(q) PROVE tries'[e] \in {tries[e], OneMore(tries[e])}
  BY <1>1 DEF Put, TypeOK
<1>2. ASSUME NEW q \in Request, Record(q) PROVE fails'[e] \in {fails[e], OneMore(fails[e])}
  BY <1>2 DEF Record, TypeOK
<1>3. ASSUME NEW q \in Request, Put(q) \/ Record(q)
      PROVE  /\ IsFiniteSet(fails'[e]) /\ IsFiniteSet(tries'[e])
             /\ \A a \in tries'[e] : a[1] <= now'
  <2>1. Put(q) => UNCHANGED <<fails, now>>
    BY DEF Put
  <2>2. Record(q) => UNCHANGED <<tries, now>>
    BY DEF Record, history
  <2> QED BY <1>0, <1>1, <1>2, <1>3, <2>1, <2>2, MoreAttempts
<1>4. ASSUME NEW q \in Request, NEW user \in Email, Admit(q, user)
      PROVE  /\ fails'[e] \subseteq fails[e] /\ tries'[e] \subseteq tries[e] /\ now' = now
  BY <1>4 DEF Admit, Leave, TypeOK
<1>5. ASSUME NEW q \in Request, NEW d \in Device, NEW x \in Email, AuthStart(q, d, x)
      PROVE  UNCHANGED <<fails, tries, now>>
  BY <1>5 DEF AuthStart, stores, history
<1>6. CollectFails => fails'[e] \subseteq fails[e] /\ UNCHANGED <<tries, now>>
  BY DEF CollectFails, Kept, history
<1>7. CASE Tick
  <2>1. /\ fails'[e] = fails[e] /\ tries'[e] \subseteq tries[e] /\ now' = now + 1
    BY <1>7 DEF Tick, Kept, stores
  <2>2. \A a \in tries[e] : a[1] <= now + 1
    BY <1>0, Instants DEF Attempt, TypeOK
  <2> QED BY <1>0, <2>1, <2>2, FS_Subset
<1>8. ASSUME fails'[e] \subseteq fails[e], tries'[e] \subseteq tries[e], now' = now
      PROVE  /\ IsFiniteSet(fails'[e]) /\ IsFiniteSet(tries'[e])
             /\ \A a \in tries'[e] : a[1] <= now'
  BY <1>0, <1>8, FS_Subset
<1> QED BY <1>3, <1>4, <1>5, <1>6, <1>7, <1>8, BudgetSteps

\* What the four steps of the budget do to an email.
LEMMA PutFor ==
  ASSUME TypeOK, NEW q \in Request, Put(q), NEW e \in Email
  PROVE  /\ UNCHANGED <<fails, now>>
         /\ IF req[q].sess.email = e
            THEN /\ tries'[e] = OneMore(tries[e])
                 /\ q \notin Recording(e) /\ Recording(e)' = Recording(e) \cup {q}
                 /\ q \in Putting(e) /\ Putting(e)' = Putting(e) \ {q}
            ELSE /\ tries'[e] = tries[e]
                 /\ Recording(e)' = Recording(e) /\ Putting(e)' = Putting(e)
<1> DEFINE r == [req[q] EXCEPT !.stage = "record"]
<1>1. r.stage = "record" /\ r.sess = req[q].sess
  BY DEF TypeOK, Handler
<1>2. Takes(q, r) /\ (At(q, "preauth") \/ At(q, "put"))
  BY DEF Put, Go, Takes, TypeOK
<1>3. tries' = [tries EXCEPT ![req[q].sess.email] = OneMore(tries[req[q].sess.email])]
  BY DEF Put
<1>4. /\ Recording(e)' = IF req[q].sess.email = e THEN Recording(e) \cup {q} ELSE Recording(e) \ {q}
      /\ Putting(e)' = Putting(e) \ {q}
  <2> HIDE DEF r
  <2> QED BY <1>1, <1>2, HandlersChange
<1>5. q \notin Recording(e) /\ (q \in Putting(e) <=> req[q].sess.email = e)
  BY <1>2 DEF Recording, Putting, At
<1>6. tries'[e] = IF req[q].sess.email = e THEN OneMore(tries[e]) ELSE tries[e]
  BY <1>3 DEF TypeOK
<1>7. UNCHANGED <<fails, now>>
  BY DEF Put
<1> QED BY <1>4, <1>5, <1>6, <1>7

LEMMA RecordFor ==
  ASSUME TypeOK, NEW q \in Request, Record(q), NEW e \in Email
  PROVE  /\ UNCHANGED <<tries, now>> /\ Putting(e)' = Putting(e)
         /\ IF req[q].sess.email = e
            THEN /\ fails'[e] = OneMore(fails[e])
                 /\ q \in Recording(e) /\ Recording(e)' = Recording(e) \ {q}
            ELSE fails'[e] = fails[e] /\ Recording(e)' = Recording(e)
<1>1. Takes(q, Idle) /\ At(q, "record")
  BY DEF Record, Finish, Takes
<1>2. fails' = [fails EXCEPT ![req[q].sess.email] = OneMore(fails[req[q].sess.email])]
  BY DEF Record
<1>3. Recording(e)' = Recording(e) \ {q} /\ Putting(e)' = Putting(e) \ {q}
  BY <1>1, HandlersChange DEF Idle
<1>4. q \notin Putting(e) /\ (q \in Recording(e) <=> req[q].sess.email = e)
  BY <1>1 DEF Recording, Putting, At
<1>5. fails'[e] = IF req[q].sess.email = e THEN OneMore(fails[e]) ELSE fails[e]
  BY <1>2 DEF TypeOK
<1>6. UNCHANGED <<tries, now>>
  BY DEF Record, history
<1> QED BY <1>3, <1>4, <1>5, <1>6

LEMMA StartFor ==
  ASSUME TypeOK, NEW q \in Request, NEW d \in Device, NEW x \in Email, AuthStart(q, d, x),
         NEW e \in Email
  PROVE  /\ UNCHANGED <<fails, tries, now>>
         /\ q \notin Recording(e) /\ Recording(e)' = Recording(e)
         /\ IF x = e THEN WithinBudget(e) /\ Putting(e)' = Putting(e) \cup {q}
            ELSE Putting(e)' = Putting(e)
<1> DEFINE c == [cookie[d] EXCEPT !.email = x]
           s == IF rt.duo THEN "preauth" ELSE "put"
<1>1. Takes(q, Sending(s, d, c)) /\ At(q, "idle") /\ WithinBudget(x)
  BY DEF AuthStart, Takes, Sending
<1>2. cookie[d] \in Session
  BY DEF AuthStart, Valid, TypeOK
<1>3. c.email = x
  BY <1>2, SessionParts
<1>4. Sending(s, d, c).stage = s /\ Sending(s, d, c).sess = c
  BY DEF Sending, Idle
<1>5. s \in {"preauth", "put"} /\ s # "record"
  OBVIOUS
<1>6. /\ Putting(e)' = IF x = e THEN Putting(e) \cup {q} ELSE Putting(e) \ {q}
      /\ Recording(e)' = Recording(e) \ {q}
  <2> DEFINE r == Sending(s, d, c)
  <2>1. r.stage \in {"preauth", "put"} /\ r.stage # "record" /\ r.sess.email = x /\ Takes(q, r)
    BY <1>1, <1>3, <1>4, <1>5
  <2> HIDE DEF r
  <2> QED BY <2>1, HandlersChange
<1>7. q \notin Recording(e) /\ q \notin Putting(e)
  BY <1>1 DEF Recording, Putting, At
<1>8. UNCHANGED <<fails, tries, now>>
  BY DEF AuthStart, stores, history
<1> QED BY <1>1, <1>6, <1>7, <1>8

LEMMA AdmitFor ==
  ASSUME TypeOK, NEW q \in Request, NEW user \in Email, Admit(q, user), NEW e \in Email
  PROVE  /\ Still /\ now' = now
         /\ \/ fails'[e] = {} /\ tries'[e] = {}
            \/ fails'[e] = fails[e] /\ tries'[e] = tries[e]
<1>1. Takes(q, Idle) /\ ~At(q, "record") /\ now' = now
  BY DEF Admit, Leave, Finish, Takes, At
<1>2. Still
  BY <1>1, Passing DEF Idle
<1>3. \/ fails'[e] = {} /\ tries'[e] = {}
      \/ fails'[e] = fails[e] /\ tries'[e] = tries[e]
  BY DEF Admit
<1> QED BY <1>1, <1>2, <1>3

LEMMA CountedStep ==
  TypeOK /\ HandlerInv /\ RecordInv /\ CountedInv /\ [Next]_vars => CountedInv'
<1> SUFFICES ASSUME TypeOK, HandlerInv, RecordInv, CountedInv, [Next]_vars,
                    NEW e \in Email, NEW c \in Cutoff, c <= now', now' < c + MaxWindow
             PROVE  Cardinality(From(tries'[e], c))
                      <= Cardinality(From(fails'[e], c)) + Cardinality(Recording(e)')
  BY DEF CountedInv
<1> DEFINE Counted(t, f, r) ==
             Cardinality(From(t, c)) <= Cardinality(From(f, c)) + Cardinality(r)
<1>0. /\ IsFiniteSet(fails[e]) /\ IsFiniteSet(tries[e])
      /\ fails[e] \subseteq Attempt /\ tries[e] \subseteq Attempt
      /\ \A a \in tries[e] : a[1] <= now /\ a[1] \in Int
      /\ now \in Time /\ now \in Int /\ c \in Int
      /\ IsFiniteSet(Recording(e)) /\ Cardinality(Recording(e)) \in Nat
  BY Handlers, Instants, Numbers DEF RecordInv, TypeOK, Attempt, Cutoff
<1>1. c <= now /\ now < c + MaxWindow => Counted(tries[e], fails[e], Recording(e))
  BY DEF CountedInv
<1>2. Cardinality(From(tries[e], c)) \in Nat /\ Cardinality(From(fails[e], c)) \in Nat
  BY <1>0, FromPart
<1>3. ASSUME NEW q \in Request, Put(q) PROVE Counted(tries'[e], fails'[e], Recording(e)')
  <2>1. now' = now /\ fails'[e] = fails[e]
    BY <1>3, PutFor
  <2>2. Counted(tries[e], fails[e], Recording(e))
    BY <1>1, <2>1
  <2>3. CASE req[q].sess.email = e
    <3>1. /\ tries'[e] = OneMore(tries[e])
          /\ q \notin Recording(e) /\ Recording(e)' = Recording(e) \cup {q}
      BY <1>3, <2>3, PutFor
    <3>2. Cardinality(From(tries'[e], c)) = Cardinality(From(tries[e], c)) + 1
      BY <1>0, <2>1, <3>1, FromMore
    <3>3. Cardinality(Recording(e)') = Cardinality(Recording(e)) + 1
      BY <1>0, <3>1, FS_AddElement
    <3> QED BY <1>0, <1>2, <2>1, <2>2, <3>2, <3>3
  <2>4. CASE req[q].sess.email # e
    BY <1>3, <2>1, <2>2, <2>4, PutFor
  <2> QED BY <2>3, <2>4
<1>4. ASSUME NEW q \in Request, Record(q) PROVE Counted(tries'[e], fails'[e], Recording(e)')
  <2>1. now' = now /\ tries'[e] = tries[e]
    BY <1>4, RecordFor
  <2>2. Counted(tries[e], fails[e], Recording(e))
    BY <1>1, <2>1
  <2>3. CASE req[q].sess.email = e
    <3>1. /\ fails'[e] = OneMore(fails[e])
          /\ q \in Recording(e) /\ Recording(e)' = Recording(e) \ {q}
      BY <1>4, <2>3, RecordFor
    <3>2. Cardinality(From(fails'[e], c)) = Cardinality(From(fails[e], c)) + 1
      BY <1>0, <2>1, <3>1, FromMore
    <3>3. Cardinality(Recording(e)') = Cardinality(Recording(e)) - 1
      BY <1>0, <3>1, FS_RemoveElement
    <3> QED BY <1>0, <1>2, <2>1, <2>2, <3>2, <3>3
  <2>4. CASE req[q].sess.email # e
    BY <1>4, <2>1, <2>2, <2>4, RecordFor
  <2> QED BY <2>3, <2>4
<1>5. ASSUME NEW q \in Request, NEW d \in Device, NEW x \in Email, AuthStart(q, d, x)
      PROVE  Counted(tries'[e], fails'[e], Recording(e)')
  BY <1>1, <1>5, StartFor
<1>6. ASSUME NEW q \in Request, NEW user \in Email, Admit(q, user)
      PROVE  Counted(tries'[e], fails'[e], Recording(e)')
  <2>1. now' = now /\ Recording(e)' = Recording(e)
    BY <1>6, AdmitFor DEF Still
  <2>2. Counted({}, {}, Recording(e))
    BY <1>0, FS_EmptySet DEF From
  <2> QED BY <1>1, <1>6, <2>1, <2>2, AdmitFor
<1>7. ASSUME CollectFails PROVE Counted(tries'[e], fails'[e], Recording(e)')
  <2>1. now' = now /\ tries' = tries /\ fails'[e] = Kept(fails[e], now) /\ UNCHANGED req
    BY <1>7 DEF CollectFails, history
  <2>2. From(fails'[e], c) = From(fails[e], c)
    <3>1. \A a \in fails[e] : a[1] \in Int /\ (a[1] >= c => a[1] + MaxWindow > now)
      <4>1. \A a \in fails[e] : a[1] \in Int
        BY <1>0, Whens
      <4>2. now < c + MaxWindow /\ MaxWindow \in Int
        BY <2>1, Numbers
      <4> QED BY <1>0, <4>1, <4>2
    <3> QED BY <2>1, <3>1 DEF Kept, From
  <2>3. Recording(e)' = Recording(e)
    BY <2>1, Alike DEF Still
  <2> QED BY <1>1, <2>1, <2>2, <2>3
<1>8. ASSUME Tick PROVE Counted(tries'[e], fails'[e], Recording(e)')
  <2>1. now' = now + 1 /\ tries'[e] \in SUBSET tries[e] /\ fails'[e] = fails[e] /\ UNCHANGED req
    BY <1>8 DEF Tick, Kept, stores
  <2>2. Recording(e)' = Recording(e)
    BY <2>1, Alike DEF Still
  <2>3. Cardinality(From(tries'[e], c)) <= Cardinality(From(tries[e], c))
        /\ Cardinality(From(tries'[e], c)) \in Nat
    BY <1>0, <2>1, FromPart
  <2>4. CASE c <= now
    BY <1>0, <1>1, <1>2, <2>1, <2>2, <2>3, <2>4, Numbers
  <2>5. CASE c = now + 1
    <3>1. From(tries'[e], c) = {}
      BY <1>0, <2>1, <2>5 DEF From
    <3> QED BY <1>0, <1>2, <2>1, <2>2, <3>1, FS_EmptySet
  <2> QED BY <1>0, <2>1, <2>4, <2>5
<1>9. ASSUME UNCHANGED <<fails, tries, now>>, Still
      PROVE  Counted(tries'[e], fails'[e], Recording(e)')
  BY <1>1, <1>9 DEF Still
<1>10. Counted(tries'[e], fails'[e], Recording(e)')
  <2> HIDE DEF Counted
  <2> QED BY <1>3, <1>4, <1>5, <1>6, <1>7, <1>8, <1>9, BudgetSteps
<1> QED BY <1>10

\* Handlers at one stage and those at another are no more than all of them.
LEMMA Apart ==
  ASSUME NEW P \in SUBSET Request, NEW R \in SUBSET Request, P \cap R = {}
  PROVE  /\ Cardinality(P) \in Nat /\ Cardinality(R) \in Nat
         /\ Cardinality(P) + Cardinality(R) <= Cardinality(Request)
<1>1. IsFiniteSet(P) /\ IsFiniteSet(R) /\ IsFiniteSet(P \cup R)
  BY RequestCount, FS_Subset
<1>2. /\ Cardinality(P \cup R) = Cardinality(P) + Cardinality(R) - Cardinality({})
      /\ Cardinality({}) = 0
  BY <1>1, FS_Union, FS_EmptySet
<1>3. Cardinality(P \cup R) <= Cardinality(Request)
  BY RequestCount, FS_Subset
<1> QED BY <1>1, <1>2, <1>3, FS_CardinalityType

\* A rule in force lets a handler through only with room in its window, and so
\* in any that is no wider.
LEMMA PassedRules ==
  ASSUME TypeOK, RecordInv, NEW e \in Email, NEW w \in Nat, WithinBudget(e)
  PROVE  /\ NoWider(w, ShortRules) => \E r \in ShortRules : CountIn(fails[e], w) < r.limit
         /\ NoWider(w, LongRules) => \E r \in LongRules : CountIn(fails[e], w) < r.limit
<1>1. rt.short \in ShortRules /\ rt.long \in LongRules
  BY DEF TypeOK, Runtime
<1>2. ASSUME NEW r \in ShortRules \cup LongRules, w <= r.window, Room(e, r)
      PROVE  CountIn(fails[e], w) < r.limit
  <2> DEFINE narrow == {a \in fails[e] : a[1] + w > now}
             wide == {a \in fails[e] : a[1] + r.window > now}
  <2>1. /\ \A a \in fails[e] : a[1] \in Int
        /\ now \in Int /\ r.window \in Nat /\ r.limit \in Nat
    BY Whens, Instants, Rules DEF TypeOK
  <2>2. narrow \in SUBSET wide /\ wide \in SUBSET fails[e]
    BY <1>2, <2>1
  <2>3. IsFiniteSet(wide) /\ IsFiniteSet(narrow) /\ Cardinality(narrow) <= Cardinality(wide)
    BY <2>2, FS_Subset DEF RecordInv
  <2>4. Cardinality(wide) \in Nat /\ Cardinality(narrow) \in Nat
    BY <2>3, FS_CardinalityType
  <2>5. Cardinality(wide) < r.limit
    BY <1>2 DEF Room, CountIn
  <2>6. Cardinality(narrow) < r.limit
    <3> HIDE DEF narrow, wide
    <3> QED BY <2>1, <2>3, <2>4, <2>5
  <2> QED BY <2>6 DEF CountIn
<1> QED BY <1>1, <1>2 DEF WithinBudget, NoWider

\* What both lemmas about a window start from.
LEMMA FitsBasics ==
  ASSUME TypeOK, RecordInv, NEW e \in Email, NEW w \in 1 .. MaxWindow
  PROVE  /\ now \in Time /\ now \in Int /\ w \in Nat \ {0}
         /\ fails[e] \subseteq Attempt /\ tries[e] \subseteq Attempt
         /\ IsFiniteSet(tries[e]) /\ IsFiniteSet({a \in tries[e] : a[1] + w > now})
         /\ CountIn(tries[e], w) \in Nat /\ CountIn(fails[e], w) \in Nat
         /\ Cardinality(Request) \in Nat
         /\ Putting(e) \in SUBSET Request /\ Recording(e) \in SUBSET Request
<1>1. /\ now \in Time /\ fails[e] \subseteq Attempt /\ tries[e] \subseteq Attempt
      /\ IsFiniteSet(tries[e]) /\ IsFiniteSet(fails[e])
  BY DEF TypeOK, RecordInv
<1>2. /\ {a \in tries[e] : a[1] + w > now} \in SUBSET tries[e]
      /\ {a \in fails[e] : a[1] + w > now} \in SUBSET fails[e]
  OBVIOUS
<1>3. /\ IsFiniteSet({a \in tries[e] : a[1] + w > now})
      /\ IsFiniteSet({a \in fails[e] : a[1] + w > now})
  BY <1>1, <1>2, FS_Subset
<1>4. CountIn(tries[e], w) \in Nat /\ CountIn(fails[e], w) \in Nat
  BY <1>3, FS_CardinalityType DEF CountIn
<1>5. Putting(e) \in SUBSET Request /\ Recording(e) \in SUBSET Request
  BY DEF Putting, Recording
<1> QED BY <1>1, <1>3, <1>4, <1>5, Instants, Numbers, RequestCount

\* A handler let through below a limit leaves room for those on their way.
LEMMA FitsStart ==
  ASSUME TypeOK, RecordInv, CountedInv,
         NEW e \in Email, NEW w \in 1 .. MaxWindow, NEW limit \in Nat,
         NEW q \in Request, NEW d \in Device, AuthStart(q, d, e), CountIn(fails[e], w) < limit
  PROVE  Fits(e, w, limit)'
<1>0. /\ now \in Time /\ fails[e] \subseteq Attempt /\ tries[e] \subseteq Attempt
      /\ CountIn(tries[e], w) \in Nat /\ CountIn(fails[e], w) \in Nat
      /\ Cardinality(Request) \in Nat
      /\ Putting(e) \in SUBSET Request /\ Recording(e) \in SUBSET Request
  BY FitsBasics
<1>1. /\ now' = now /\ tries' = tries
      /\ Putting(e)' = Putting(e) \cup {q} /\ q \notin Recording(e)
  BY StartFor
<1>2. /\ Cardinality(Putting(e) \cup {q}) + Cardinality(Recording(e)) <= Cardinality(Request)
      /\ Cardinality(Putting(e) \cup {q}) \in Nat /\ Cardinality(Recording(e)) \in Nat
  <2>1. Putting(e) \cup {q} \in SUBSET Request
    BY <1>0
  <2>2. (Putting(e) \cup {q}) \cap Recording(e) = {}
    BY <1>1 DEF Putting, Recording, At
  <2> QED BY <1>0, <2>1, <2>2, Apart
<1>3. CountIn(tries[e], w) <= CountIn(fails[e], w) + Cardinality(Recording(e))
  <2> DEFINE c == now - w + 1
  <2>1. /\ c \in Cutoff /\ c <= now /\ now < c + MaxWindow
        /\ CountIn(tries[e], w) = Cardinality(From(tries[e], c))
        /\ CountIn(fails[e], w) = Cardinality(From(fails[e], c))
    BY <1>0, CountIsFrom
  <2> HIDE DEF c
  <2> QED BY <2>1 DEF CountedInv
<1>4. CountIn(tries[e], w)' = CountIn(tries[e], w)
  BY <1>1 DEF CountIn
<1> QED BY <1>0, <1>1, <1>2, <1>3, <1>4 DEF Fits

\* Every other step leaves that room.
LEMMA FitsStep ==
  ASSUME TypeOK, RecordInv, [Next]_vars,
         NEW e \in Email, NEW w \in 1 .. MaxWindow, NEW limit \in Nat,
         \A q \in Request, d \in Device : ~AuthStart(q, d, e),
         Fits(e, w, limit)
  PROVE  Fits(e, w, limit)'
<1> DEFINE In(times, t) == {a \in times : a[1] + w > t}
           Below(t, p) == Cardinality(t) + Cardinality(p) <= limit + Cardinality(Request) - 1
           Left       == Below(In(tries'[e], now'), Putting(e)')
<1>0. /\ now \in Time /\ now \in Int /\ w \in Nat \ {0} /\ limit \in Int
      /\ fails[e] \subseteq Attempt /\ tries[e] \subseteq Attempt
      /\ IsFiniteSet(tries[e]) /\ IsFiniteSet(In(tries[e], now))
      /\ Cardinality(In(tries[e], now)) \in Nat /\ Cardinality(Request) \in Nat
      /\ Putting(e) \in SUBSET Request /\ Recording(e) \in SUBSET Request
  <2>1. CountIn(tries[e], w) = Cardinality(In(tries[e], now))
    BY DEF CountIn
  <2> QED BY <2>1, FitsBasics
<1>1. /\ Fits(e, w, limit)  = Below(In(tries[e], now), Putting(e))
      /\ Fits(e, w, limit)' = Below(In(tries'[e], now'), Putting(e)')
  BY DEF Fits, CountIn
<1>2. Below(In(tries[e], now), Putting(e))
  BY <1>1
<1>3. ASSUME In(tries'[e], now') \subseteq In(tries[e], now), Putting(e)' \subseteq Putting(e)
      PROVE  Left
  <2> DEFINE new == In(tries'[e], now')
             old == In(tries[e], now)
  <2>1. /\ IsFiniteSet(Putting(e)) /\ IsFiniteSet(Putting(e)') /\ IsFiniteSet(new)
        /\ Cardinality(new) <= Cardinality(old)
        /\ Cardinality(Putting(e)') <= Cardinality(Putting(e))
    BY <1>0, <1>3, RequestCount, FS_Subset
  <2>2. /\ Cardinality(new) \in Nat
        /\ Cardinality(Putting(e)) \in Nat /\ Cardinality(Putting(e)') \in Nat
    BY <2>1, FS_CardinalityType
  <2> HIDE DEF new, old
  <2> QED BY <1>0, <1>2, <2>1, <2>2 DEF new, old
<1>4. ASSUME NEW q \in Request, Put(q) PROVE Left
  <2>1. now' = now
    BY <1>4, PutFor
  <2>2. CASE req[q].sess.email = e
    <3>1. /\ tries'[e] = OneMore(tries[e])
          /\ q \in Putting(e) /\ Putting(e)' = Putting(e) \ {q}
      BY <1>4, <2>2, PutFor
    <3>2. PICK a \in Attempt : a[1] = now /\ a \notin tries[e] /\ tries'[e] = tries[e] \cup {a}
      BY <1>0, <3>1, OneMoreIsMore
    <3>3. /\ In(tries'[e], now') = In(tries[e], now) \cup {a}
          /\ a \notin In(tries[e], now)
      BY <1>0, <2>1, <3>2, Numbers
    <3>4. Cardinality(In(tries'[e], now')) = Cardinality(In(tries[e], now)) + 1
      BY <1>0, <3>3, FS_AddElement
    <3>5. Cardinality(Putting(e)') = Cardinality(Putting(e)) - 1 /\ Cardinality(Putting(e)) \in Nat
      <4>1. IsFiniteSet(Putting(e)) /\ Cardinality(Putting(e)) \in Nat
        BY Handlers
      <4>2. Cardinality(Putting(e) \ {q}) = Cardinality(Putting(e)) - 1
        BY <3>1, <4>1, FS_RemoveElement
      <4> QED BY <3>1, <4>1, <4>2
    <3>6. /\ Cardinality(In(tries[e], now)) + Cardinality(Putting(e))
               <= limit + Cardinality(Request) - 1
          /\ Cardinality(In(tries[e], now)) \in Nat /\ Cardinality(Request) \in Nat
      BY <1>0, <1>2
    <3> HIDE DEF In
    <3> QED BY <3>4, <3>5, <3>6
  <2>3. CASE req[q].sess.email # e
    BY <1>2, <1>4, <2>1, <2>3, PutFor
  <2> QED BY <2>2, <2>3
<1>5. ASSUME NEW q \in Request, NEW d \in Device, NEW x \in Email, AuthStart(q, d, x)
      PROVE  Left
  <2>1. now' = now /\ tries' = tries /\ x # e
    BY <1>5, StartFor
  <2> QED BY <1>2, <1>5, <2>1, StartFor
<1>6. ASSUME NEW q \in Request, NEW user \in Email, Admit(q, user)
      PROVE  Left
  <2>1. now' = now /\ Putting(e)' \subseteq Putting(e) /\ tries'[e] \subseteq tries[e]
    BY <1>6, AdmitFor DEF Still
  <2> QED BY <1>3, <2>1
<1>7. ASSUME CollectFails PROVE Left
  <2>1. now' = now /\ tries' = tries /\ UNCHANGED req
    BY <1>7 DEF CollectFails, history
  <2>2. Putting(e)' \subseteq Putting(e)
    BY <2>1, Alike DEF Still
  <2> QED BY <1>3, <2>1, <2>2
<1>8. ASSUME Tick PROVE Left
  <2>1. now' = now + 1 /\ tries'[e] \subseteq tries[e] /\ UNCHANGED req
    BY <1>8 DEF Tick, Kept, stores
  <2>2. Putting(e)' \subseteq Putting(e)
    BY <2>1, Alike DEF Still
  <2>3. \A a \in tries[e] : a[1] \in Int
    BY <1>0, Whens
  <2>4. In(tries'[e], now') \subseteq In(tries[e], now)
    BY <1>0, <2>1, <2>3
  <2> QED BY <1>3, <2>2, <2>4
<1>9. ASSUME UNCHANGED <<fails, tries, now>>, Still PROVE Left
  BY <1>3, <1>9 DEF Still
<1>10. ASSUME NEW q \in Request, Record(q) PROVE Left
  BY <1>3, <1>10, RecordFor
<1>11. Left
  <2> HIDE DEF Left
  <2> QED BY <1>4, <1>5, <1>6, <1>7, <1>8, <1>9, <1>10, BudgetSteps
<1> QED BY <1>1, <1>11

LEMMA RoomStep ==
  TypeOK /\ RecordInv /\ CountedInv /\ RoomInv /\ [Next]_vars => RoomInv'
<1> SUFFICES ASSUME TypeOK, RecordInv, CountedInv, RoomInv, [Next]_vars,
                    NEW e \in Email, NEW w \in 1 .. MaxWindow
             PROVE  /\ NoWider(w, ShortRules) => FitsOne(e, w, ShortRules)'
                    /\ NoWider(w, LongRules) => FitsOne(e, w, LongRules)'
  BY DEF RoomInv, NoWider
<1>0. /\ w \in Nat
      /\ \A r \in ShortRules \cup LongRules : r.limit \in Nat
  BY Rules
<1>1. CASE \E q \in Request, d \in Device : AuthStart(q, d, e)
  <2>1. PICK q \in Request, d \in Device : AuthStart(q, d, e)
    BY <1>1
  <2>2. WithinBudget(e)
    BY <2>1 DEF AuthStart
  <2>3. ASSUME NEW r \in ShortRules \cup LongRules, CountIn(fails[e], w) < r.limit
        PROVE  Fits(e, w, r.limit)'
    BY <1>0, <2>1, <2>3, FitsStart
  <2> QED BY <1>0, <2>2, <2>3, PassedRules DEF FitsOne
<1>2. CASE \A q \in Request, d \in Device : ~AuthStart(q, d, e)
  <2>1. ASSUME NEW r \in ShortRules \cup LongRules, Fits(e, w, r.limit)
        PROVE  Fits(e, w, r.limit)'
    BY <1>0, <1>2, <2>1, FitsStep
  <2>2. /\ NoWider(w, ShortRules) => FitsOne(e, w, ShortRules)
        /\ NoWider(w, LongRules) => FitsOne(e, w, LongRules)
    BY DEF RoomInv
  <2> QED BY <2>1, <2>2 DEF FitsOne
<1> QED BY <1>1, <1>2

-----------------------------------------------------------------------------
(* Consumed states.                                                        *)

LEMMA StatesFinite == IsFiniteSet(State)
BY Numbers, FS_Interval DEF State

\* An eviction of what has not expired spares nine tenths, none of it older.
LEMMA Spared ==
  ASSUME NEW exp, NEW cap, NEW out \in Evictions(exp, cap), NEW y \in out, ~(now > exp[y])
  PROVE  \E rest \in SUBSET DOMAIN exp :
           /\ Cardinality(rest) = Target(cap) /\ y \notin rest
           /\ \A l \in rest : exp[y] <= exp[l]
<1> DEFINE keys == DOMAIN exp
           dead == {k \in keys : now > exp[k]}
           left == keys \ dead
<1>1. PICK old \in SUBSET left :
        /\ y \in dead \cup old
        /\ Cardinality(left \ old) = Target(cap)
        /\ \A k \in old, l \in left \ old : exp[k] <= exp[l]
  BY DEF Evictions
<1>2. y \in old /\ left \ old \in SUBSET keys
  BY <1>1
<1> QED BY <1>1, <1>2

\* A state consumed no earlier than s stays one.
LEMMA NoFewer ==
  ASSUME NEW s \in State, \A x \in State : last[x] >= last[s] => last'[x] >= last'[s]
  PROVE  Cardinality(NoEarlier(s)) <= Cardinality(NoEarlier(s)')
<1>1. NoEarlier(s) \in SUBSET (NoEarlier(s)') /\ NoEarlier(s)' \in SUBSET State
  BY DEF NoEarlier
<1> QED BY <1>1, StatesFinite, FS_Subset

LEMMA CardinalitiesUsed ==
  ASSUME NEW s
  PROVE  Cardinality(NoEarlier(s)) \in Nat /\ Cardinality(NoEarlier(s)') \in Nat
<1>1. NoEarlier(s) \in SUBSET State /\ NoEarlier(s)' \in SUBSET State
  BY DEF NoEarlier
<1> QED BY <1>1, StatesFinite, FS_Subset, FS_CardinalityType

LEMMA TargetType == Target(MaxUsed) \in Int
BY Numbers DEF Target

\* Consuming a state.
LEMMA MarkStep ==
  ASSUME TypeOK, UsedInv, NEW s \in State, MarkUsed(s), last' = [last EXCEPT ![s] = now],
         now' = now, NEW y \in State
  PROVE  UsedAt(y)'
<1> DEFINE exp == [x \in {z \in State : used[z] # 0} |-> used[x]]
<1>0. /\ now \in Nat /\ now >= 1 /\ SessionTTL \in Nat \ {0} /\ Target(MaxUsed) \in Int
      /\ \A x \in State : last[x] \in Nat /\ used[x] \in Int /\ UsedAt(x)
      /\ \A x \in State : last'[x] = IF x = s THEN now ELSE last[x]
  <2>1. now \in Time
    BY DEF TypeOK
  <2>2. \A x \in State : last[x] \in Nat /\ used[x] \in Int
    BY DEF TypeOK, Expiry
  <2> QED BY <2>1, <2>2, Instants, Numbers, TargetType DEF TypeOK, UsedInv
<1>1. PICK out \in Evictions(exp, MaxUsed) :
        used' = [x \in State |-> IF x = s THEN now + SessionTTL
                               ELSE IF x \in out THEN 0 ELSE used[x]]
  BY DEF MarkUsed
<1>2. used[s] = 0 \/ now >= used[s]
  BY DEF MarkUsed
<1>3. CASE y = s
  <2>1. used'[y] = now + SessionTTL /\ last'[y] = now
    BY <1>0, <1>1, <1>3
  <2> QED BY <1>0, <2>1 DEF UsedAt
<1>4. CASE y # s
  <2>1. last'[y] = last[y] /\ used'[y] = IF y \in out THEN 0 ELSE used[y]
    BY <1>0, <1>1, <1>4
  <2>2. last[y] # 0 => /\ last[y] <= now /\ now < last[y] + SessionTTL
                       /\ \/ used[y] = last[y] + SessionTTL
                          \/ Cardinality(NoEarlier(y)) > Target(MaxUsed)
    BY <1>0 DEF UsedAt
  <2>3. used[y] > now => last[y] # 0 /\ used[y] = last[y] + SessionTTL
    BY <1>0 DEF UsedAt
  <2>4. last[y] # 0 => Cardinality(NoEarlier(y)) <= Cardinality(NoEarlier(y)')
    <3>1. last[y] # 0 => \A x \in State : last[x] >= last[y] => last'[x] >= last'[y]
      BY <1>0, <2>1, <2>2
    <3> QED BY <3>1, NoFewer
  <2>5. ASSUME last[y] # 0, y \in out, used[y] = last[y] + SessionTTL
        PROVE  Cardinality(NoEarlier(y)') > Target(MaxUsed)
    <3>1. used[y] > now /\ used[y] # 0 /\ exp[y] = used[y] /\ ~(now > exp[y])
      BY <1>0, <2>2, <2>5
    <3>2. PICK rest \in SUBSET DOMAIN exp :
            /\ Cardinality(rest) = Target(MaxUsed) /\ y \notin rest
            /\ \A l \in rest : exp[y] <= exp[l]
      <4> HIDE DEF exp
      <4> QED BY <1>1, <2>5, <3>1, Spared
    <3>3. \A l \in rest : l \in State /\ used[l] >= used[y]
      BY <3>1, <3>2
    <3>4. \A l \in rest : l \in State /\ l # s /\ l # y /\ last[l] >= last[y]
      <4> SUFFICES ASSUME NEW l \in rest PROVE l \in State /\ l # s /\ l # y /\ last[l] >= last[y]
        OBVIOUS
      <4>1. l \in State /\ used[l] >= used[y] /\ used[l] > now
        BY <1>0, <3>1, <3>3
      <4>2. used[l] = last[l] + SessionTTL
        BY <1>0, <4>1 DEF UsedAt
      <4> QED BY <1>0, <1>2, <2>5, <3>2, <4>1, <4>2
    <3>5. rest \cup {s} \in SUBSET (NoEarlier(y)')
      BY <1>0, <1>4, <2>1, <2>2, <2>5, <3>4 DEF NoEarlier
    <3>6. s \notin rest /\ IsFiniteSet(rest) /\ IsFiniteSet(NoEarlier(y)')
      <4>1. rest \in SUBSET State /\ NoEarlier(y)' \in SUBSET State
        BY <3>4 DEF NoEarlier
      <4> QED BY <3>4, <4>1, StatesFinite, FS_Subset
    <3>7. Cardinality(rest \cup {s}) = Cardinality(rest) + 1
      BY <3>6, FS_AddElement
    <3>8. Cardinality(rest \cup {s}) <= Cardinality(NoEarlier(y)')
      BY <3>5, <3>6, FS_Subset
    <3> QED BY <1>0, <3>2, <3>7, <3>8, CardinalitiesUsed
  <2>6. last[y] # 0 => \/ used'[y] = last[y] + SessionTTL
                       \/ Cardinality(NoEarlier(y)') > Target(MaxUsed)
    BY <1>0, <2>1, <2>2, <2>4, <2>5, CardinalitiesUsed
  <2>7. used'[y] > now => last[y] # 0 /\ used'[y] = last[y] + SessionTTL
    BY <1>0, <2>1, <2>3
  <2> QED BY <2>1, <2>2, <2>6, <2>7 DEF UsedAt
<1> QED BY <1>3, <1>4

\* The steps that the set of consumed states is about, and the others.
LEMMA UsedSteps ==
  ASSUME TypeOK, [Next]_vars
  PROVE  \/ \E s \in State : MarkUsed(s) /\ last' = [last EXCEPT ![s] = now] /\ now' = now
         \/ CollectStates \/ Tick \/ UNCHANGED <<used, last, now>>
<1> DEFINE Marks == \E s \in State : /\ MarkUsed(s) /\ last' = [last EXCEPT ![s] = now]
                                     /\ now' = now
           Other == UNCHANGED <<used, last, now>>
<1> USE DEF stores, history
<1>1. ASSUME NEW q \in Request, NEW d \in Device, EntraCallback(q, d) PROVE Marks
  <2>1. cookie[d].state \in State
    BY <1>1, SessionParts DEF EntraCallback, Valid, TypeOK
  <2> QED BY <1>1, <2>1 DEF EntraCallback
<1>2. ASSUME NEW q \in Request, NEW d \in Device, NEW p \in prompts, DuoCallback(q, d, p)
      PROVE  Marks
  <2>1. p.state \in State
    BY DEF TypeOK, Prompted
  <2> QED BY <1>2, <2>1 DEF DuoCallback
<1>3. ASSUME NEW q \in Request, Starting(q) PROVE Other
  BY <1>3 DEF Starting, AuthStart, Put, PutFails, Record
<1>4. ASSUME NEW q \in Request, \/ TakeConf(q) \/ Refuse(q) \/ AdmitAdmin(q) \/ Panic(q)
                                \/ \E user \in Email : Admit(q, user)
      PROVE  Other
  BY <1>4 DEF TakeConf, Refuse, AdmitAdmin, Panic, Admit, Leave
<1>5. ASSUME NEW d \in Device,
             Portal(d) \/ AdminLoginStart(d) \/ (\E x \in Slot : AuthProceed(d, x))
      PROVE  Other
  BY <1>5 DEF Portal, AdminLoginStart, AuthProceed
<1>6. ASSUME Reload \/ CollectTokens \/ CollectFails \/ UNCHANGED vars PROVE Other
  BY <1>6 DEF Reload, CollectTokens, CollectFails, vars
<1>7. Marks \/ CollectStates \/ Tick \/ Other
  <2> HIDE DEF Marks, Other
  <2> QED BY <1>1, <1>2, <1>3, <1>4, <1>5, <1>6 DEF Next, Returning
<1> QED BY <1>7

LEMMA UsedStep == TypeOK /\ UsedInv /\ [Next]_vars => UsedInv'
<1> SUFFICES ASSUME TypeOK, UsedInv, [Next]_vars, NEW s \in State PROVE UsedAt(s)'
  BY DEF UsedInv
<1>0. /\ now \in Nat /\ now >= 1 /\ SessionTTL \in Nat \ {0} /\ Target(MaxUsed) \in Int
      /\ \A x \in State : last[x] \in Nat /\ used[x] \in Int
      /\ UsedAt(s)
  <2>1. now \in Time
    BY DEF TypeOK
  <2>2. \A x \in State : last[x] \in Nat /\ used[x] \in Int
    BY DEF TypeOK, Expiry
  <2> QED BY <2>1, <2>2, Instants, Numbers, TargetType DEF UsedInv
<1>1. ASSUME NEW x \in State, MarkUsed(x), last' = [last EXCEPT ![x] = now], now' = now
      PROVE  UsedAt(s)'
  BY <1>1, MarkStep
<1>2. ASSUME UNCHANGED <<last, now>> PROVE NoEarlier(s)' = NoEarlier(s)
  BY <1>2 DEF NoEarlier
<1>3. CASE CollectStates
  <2>1. UNCHANGED <<last, now>> /\ used'[s] = IF now > used[s] THEN 0 ELSE used[s]
    BY <1>3 DEF CollectStates, history
  <2> QED BY <1>0, <1>2, <2>1 DEF UsedAt
<1>4. CASE Tick
  <2>1. /\ now' = now + 1 /\ used' = used
        /\ \A x \in State : last'[x] = IF now + 1 < last[x] + SessionTTL THEN last[x] ELSE 0
    BY <1>4 DEF Tick, stores
  <2>2. last'[s] # 0 => Cardinality(NoEarlier(s)) <= Cardinality(NoEarlier(s)')
    <3>1. last'[s] # 0 => \A x \in State : last[x] >= last[s] => last'[x] >= last'[s]
      BY <1>0, <2>1
    <3> QED BY <3>1, NoFewer
  <2>3. last'[s] # 0 => /\ last[s] # 0 /\ last'[s] = last[s] /\ now + 1 < last[s] + SessionTTL
    BY <2>1
  <2>4. last'[s] # 0 =>
          /\ last'[s] <= now' /\ now' < last'[s] + SessionTTL
          /\ \/ used'[s] = last'[s] + SessionTTL
             \/ Cardinality(NoEarlier(s)') > Target(MaxUsed)
    BY <1>0, <2>1, <2>2, <2>3, CardinalitiesUsed DEF UsedAt
  <2>5. used'[s] > now' => last'[s] # 0 /\ used'[s] = last'[s] + SessionTTL
    BY <1>0, <2>1 DEF UsedAt
  <2> QED BY <2>4, <2>5 DEF UsedAt
<1>5. CASE UNCHANGED <<used, last, now>>
  BY <1>0, <1>2, <1>5 DEF UsedAt
<1> QED BY <1>1, <1>3, <1>4, <1>5, UsedSteps

-----------------------------------------------------------------------------
(* The theorems.                                                           *)

LEMMA InitSignIn == Init => SignInInv
<1> SUFFICES ASSUME Init PROVE SignInInv
  OBVIOUS
<1>1. TypeOK
  <2>1. /\ issued \in 0 .. MaxStates /\ now \in Time
        /\ 0 \in Expiry /\ 0 \in 0 .. MaxTime /\ 0 \in 0 .. MaxReloads
    BY Numbers DEF Init, Time, Expiry
  <2>2. rt \in Runtime
    BY <2>1, Rules DEF Init, Runtime
  <2> QED BY <2>1, <2>2, IdleIsHandler DEF Init, TypeOK
<1>2. HandlerInv
  BY IdleIsHandler DEF Init, HandlerInv
<1>3. RecordInv
  BY FS_EmptySet DEF Init, RecordInv
<1>4. \A e \in Email : Putting(e) = {} /\ Recording(e) = {}
  BY DEF Init, Putting, Recording, At, Idle
<1>5. CountedInv
  <2> SUFFICES ASSUME NEW e \in Email, NEW c \in Cutoff
               PROVE  Cardinality(From(tries[e], c))
                        <= Cardinality(From(fails[e], c)) + Cardinality(Recording(e))
    BY DEF CountedInv
  <2>1. From(tries[e], c) = {} /\ From(fails[e], c) = {}
    BY DEF Init, From
  <2> QED BY <1>4, <2>1, FS_EmptySet
<1>6. RoomInv
  <2> SUFFICES ASSUME NEW e \in Email, NEW w \in 1 .. MaxWindow
               PROVE  FitsOne(e, w, ShortRules) /\ FitsOne(e, w, LongRules)
    BY DEF RoomInv
  <2>1. CountIn(tries[e], w) = 0
    BY FS_EmptySet DEF Init, CountIn
  <2>2. Cardinality(Putting(e)) = 0
    BY <1>4, FS_EmptySet
  <2>3. ASSUME NEW limit \in Nat PROVE Fits(e, w, limit)
    BY <2>1, <2>2, RequestCount DEF Fits
  <2> QED BY <2>3, Rules DEF FitsOne
<1>7. UsedInv
  BY DEF Init, UsedInv, UsedAt
<1> QED BY <1>1, <1>2, <1>3, <1>5, <1>6, <1>7 DEF SignInInv

LEMMA SignInStep == SignInInv /\ [Next]_vars => SignInInv'
BY TypeStep, HandlerStep, RecordStep, CountedStep, RoomStep, UsedStep DEF SignInInv

LEMMA SignInCorrect == Spec => []SignInInv
BY InitSignIn, SignInStep, PTL DEF Spec

\* Whatever browsers, handlers, reloads and the garbage collectors do, every
\* variable keeps its type: among others, each token of proceedStore is for an
\* email that was entered and the state of a session.
THEOREM TypeCorrect == Spec => []TypeOK
<1>1. SignInInv => TypeOK
  BY DEF SignInInv
<1> QED BY <1>1, SignInCorrect, PTL

\* handleAuthStart counts before the token is made and records after: however
\* the handlers interleave, whatever windows and limits saves put in force, and
\* whatever the collector of authEmailFails drops meanwhile by the long window
\* of the start, an email is handed no more tokens than a limit in force and
\* the handlers that may run at once, in each window that no rule has been
\* narrower than and that the collector covers.  A window wider than that is
\* not promised: the collector may drop what it should count.
THEOREM EmailBudgetTheorem == Spec => []EmailBudget
<1>1. SignInInv => EmailBudget
  <2> SUFFICES ASSUME RecordInv, RoomInv, NEW e \in Email, NEW w \in 1 .. MaxWindow
               PROVE  /\ NoWider(w, ShortRules) => Bounded(e, w, ShortRules)
                      /\ NoWider(w, LongRules) => Bounded(e, w, LongRules)
    BY DEF SignInInv, EmailBudget, NoWider
  <2>1. CountIn(tries[e], w) \in Nat
    BY FS_Subset, FS_CardinalityType DEF RecordInv, CountIn
  <2>2. ASSUME NEW rules \in {ShortRules, LongRules}, FitsOne(e, w, rules)
        PROVE  Bounded(e, w, rules)
    <3>1. PICK r \in rules : Fits(e, w, r.limit)
      BY <2>2 DEF FitsOne
    <3>2. r.limit \in Nat
      BY Rules
    <3>3. CountIn(tries[e], w) <= r.limit + Cardinality(Request) - 1
      BY <2>1, <3>1, <3>2, Handlers, RequestCount DEF Fits
    <3> QED BY <3>3 DEF Bounded
  <2> QED BY <2>2 DEF RoomInv
<1> QED BY <1>1, SignInCorrect, PTL

\* usedStateSet: a callback is accepted with a state consumed less than
\* SessionTTL before only after the full set has evicted it, which takes more
\* than nine tenths of maxUsedStates in states consumed no earlier.
THEOREM StateUsedOnceTheorem == Spec => StateUsedOnce
<1> DEFINE Once == \A s \in State :
             MarkUsed(s) /\ last[s] # 0 =>
               Cardinality({x \in State \ {s} : last[x] >= last[s]}) > Target(MaxUsed)
<1>1. SignInInv => Once
  <2> SUFFICES ASSUME TypeOK, UsedInv, NEW s \in State, MarkUsed(s), last[s] # 0
               PROVE  Cardinality(NoEarlier(s)) > Target(MaxUsed)
    BY DEF SignInInv, NoEarlier
  <2>1. /\ now < last[s] + SessionTTL
        /\ used[s] = last[s] + SessionTTL \/ Cardinality(NoEarlier(s)) > Target(MaxUsed)
    BY DEF UsedInv, UsedAt
  <2>2. used[s] = 0 \/ now >= used[s]
    BY DEF MarkUsed
  <2>3. now \in Nat /\ now >= 1 /\ last[s] + SessionTTL \in Int
    BY Instants, Numbers DEF TypeOK
  <2> QED BY <2>1, <2>2, <2>3
<1>2. SignInInv /\ [Next]_vars => [Once]_vars
  BY <1>1
<1> QED BY <1>2, SignInCorrect, PTL DEF Spec, StateUsedOnce
=============================================================================
