---------------------------- MODULE Certificates ----------------------------
(***************************************************************************)
(* The certificate of one portal process: the row of the configured domain *)
(* (certStore in tls.go), the pair crypto/tls is handed (certProvider),    *)
(* issuance and renewal (acme.go), and what an administrator does to them  *)
(* (admin_tls.go, and a listener that starts in listeners.go).             *)
(*                                                                         *)
(* A thread is the renewal loop or a request of the console.  A database   *)
(* statement and a wait for Let's Encrypt end a step.  ACME is enabled and *)
(* the domain and the email are set throughout; Let's Encrypt is external  *)
(* and accepts or refuses.                                                 *)
(***************************************************************************)
EXTENDS Naturals, FiniteSets

CONSTANTS
  Loop,      \* the goroutine of renewalLoop
  Request,   \* requests of the console served at the same time
  Pair,      \* certificates with their keys
  Faults,    \* what may go wrong: subset of {"ca", "database"}
  MaxRestarts, \* bound on the crashes
  None       \* no row, no certificate, nobody

ASSUME ThreadAssumption == Loop \notin Request /\ None \notin Request \cup {Loop}
ASSUME FaultsAssumption == Faults \subseteq {"ca", "database"} /\ MaxRestarts \in Nat
\* A pair that nobody holds is a new one: there is one besides those that the
\* threads, the row and the provider hold.
ASSUME PairAssumption ==
  /\ None \notin Pair
  /\ IsFiniteSet(Pair) /\ IsFiniteSet(Request) /\ Cardinality(Pair) > Cardinality(Request) + 3

VARIABLES
  row,        \* the row of the domain
  served,     \* certProvider.cert
  standalone, \* TLSMode of the configuration
  inFlight,   \* who holds acmeManager.inFlight
  thread,     \* thread[t]: what thread t is doing
  restarts,   \* crashes so far
  excused,    \* history: the loop could not know that an upload is stored
  current     \* history: no install since the last save has missed it

history == <<excused, current>>
vars    == <<row, served, standalone, inFlight, thread, restarts, excused, current>>

Thread == Request \cup {Loop}
Source == {"acme", "manual"}
\* Without a certificate the row holds an account, or only why an attempt
\* failed (last_error and last_attempt are left out).
Row    == [source : Source, cert : Pair \cup {None}, due : BOOLEAN, account : BOOLEAN]
ASSUME RowAssumption == None \notin Row
Blank  == [source |-> "acme", cert |-> None, due |-> FALSE, account |-> FALSE]

Stage  == {"idle", "wait", "register", "order", "save", "load", "set", "fail"}
\* cert: what the thread is about to save or to serve.
ThreadState == [stage : Stage, source : Source, cert : Pair \cup {None}]
Idle   == [stage |-> "idle", source |-> "acme", cert |-> None]

At(t, stage) == thread[t].stage = stage
Go(t, stage) == thread' = [thread EXCEPT ![t].stage = stage]
Finish(t)    == thread' = [thread EXCEPT ![t] = Idle]
May(fault)   == fault \in Faults

\* FirstOrCreate with Assign: the columns named, in the row or in a new one.
Existing == IF row = None THEN Blank ELSE row
Stored   == Existing.cert

\* A certificate that neither the row, the provider nor a thread holds.
New == CHOOSE c \in Pair : c \notin {Stored, served} \cup {thread[t].cert : t \in Thread}

\* needsRenewal.
NeedsRenewal == Stored = None \/ Existing.due

-----------------------------------------------------------------------------
(* What begins an issuance, an upload or a listener.                       *)

\* Mutation: the loop does not ask where the certificate comes from.
RenewAnySource ==
  /\ At(Loop, "idle") /\ standalone
  /\ NeedsRenewal
  /\ Go(Loop, "wait")
  /\ excused' = FALSE
  /\ UNCHANGED <<row, served, standalone, inFlight, restarts, current>>

\* renewIfNeeded, whenever the timer fires.
Renew ==
  /\ At(Loop, "idle") /\ standalone
  /\ NeedsRenewal /\ Existing.source # "manual"
  /\ Go(Loop, "wait")
  /\ excused' = FALSE
  /\ UNCHANGED <<row, served, standalone, inFlight, restarts, current>>

\* The row cannot be read: the error is logged, and no row needs a renewal.
RenewBlind ==
  /\ May("database") /\ At(Loop, "idle") /\ standalone
  /\ Go(Loop, "wait")
  /\ excused' = TRUE
  /\ UNCHANGED <<row, served, standalone, inFlight, restarts, current>>

\* tlsIssue.
Issue(r) ==
  /\ At(r, "idle")
  /\ Go(r, "wait")
  /\ UNCHANGED <<row, served, standalone, inFlight, restarts, history>>

\* tlsUpload, of a pair that passes parseLeaf and verifyKeyMatchesCert.
Upload(r) ==
  /\ At(r, "idle")
  /\ thread' = [thread EXCEPT ![r] = [stage |-> "save", source |-> "manual", cert |-> New]]
  /\ UNCHANGED <<row, served, standalone, inFlight, restarts, history>>

\* startTLSLocked, for a form that turns standalone on or moves its address.
Bind(r) ==
  /\ At(r, "idle")
  /\ standalone' = TRUE
  /\ Go(r, "load")
  /\ UNCHANGED <<row, served, inFlight, restarts, history>>

\* Back to the reverse proxy; the provider keeps what it has.
Unbind ==
  /\ standalone /\ standalone' = FALSE
  /\ UNCHANGED <<row, served, inFlight, thread, restarts, history>>

-----------------------------------------------------------------------------
(* acmeManager.Issue.                                                      *)

\* inFlight.Lock, then the account key; a read that fails is a first use.
Acquire(t) ==
  /\ At(t, "wait") /\ inFlight = None
  /\ inFlight' = t
  /\ \/ Go(t, IF Existing.account THEN "order" ELSE "register")
     \/ May("database") /\ Go(t, "register")
  /\ UNCHANGED <<row, served, standalone, restarts, history>>

\* Registration and saveAccount, whose failure is only logged.
Register(t) ==
  /\ At(t, "register")
  /\ \/ row' = [Existing EXCEPT !.account = TRUE]
     \/ May("database") /\ UNCHANGED row
  /\ Go(t, "order")
  /\ UNCHANGED <<served, standalone, inFlight, restarts, history>>

\* The account is resolved, the challenge answered, the certificate obtained.
Obtain(t) ==
  /\ At(t, "order")
  /\ thread' = [thread EXCEPT ![t].stage = "save", ![t].cert = New]
  /\ UNCHANGED <<row, served, standalone, inFlight, restarts, history>>

\* Mutation: an error path that leaves inFlight locked.
RefuseKeepsLock(t) ==
  /\ May("ca") /\ (At(t, "register") \/ At(t, "order"))
  /\ Go(t, "fail")
  /\ UNCHANGED <<row, served, standalone, inFlight, restarts, history>>

\* Let's Encrypt refuses, and Issue returns the error.
Refuse(t) ==
  /\ May("ca") /\ (At(t, "register") \/ At(t, "order"))
  /\ Go(t, "fail")
  /\ inFlight' = None
  /\ UNCHANGED <<row, served, standalone, restarts, history>>

Release(t) == inFlight' = IF inFlight = t THEN None ELSE inFlight

\* certStore.Save, of Issue or of an upload: the whole row is written.
Save(t) ==
  /\ At(t, "save")
  /\ row' = [Blank EXCEPT !.source = thread[t].source, !.cert = thread[t].cert]
  /\ thread' = [thread EXCEPT ![t] = [Idle EXCEPT !.stage = "load"]]
  /\ Release(t)
  /\ excused' = (excused \/ thread[t].source = "manual")
  /\ current' = (\A u \in Thread : ~At(u, "set"))
  /\ UNCHANGED <<served, standalone, restarts>>

\* An upload is refused with 400, an issuance has failed.
SaveFails(t) ==
  /\ May("database") /\ At(t, "save")
  /\ thread' = [thread EXCEPT ![t] = IF @.source = "manual" THEN Idle ELSE [Idle EXCEPT !.stage = "fail"]]
  /\ Release(t)
  /\ UNCHANGED <<row, served, standalone, restarts, history>>

\* Mutation: the failure is saved like a certificate.
RecordFailureSaves(t) ==
  /\ At(t, "fail")
  /\ row' = Blank
  /\ Finish(t)
  /\ UNCHANGED <<served, standalone, inFlight, restarts, history>>

\* RecordFailure, which may fail too.
RecordFailure(t) ==
  /\ At(t, "fail")
  /\ \/ row' = Existing
     \/ May("database") /\ UNCHANGED row
  /\ Finish(t)
  /\ UNCHANGED <<served, standalone, inFlight, restarts, history>>

-----------------------------------------------------------------------------
(* Serving what is stored.                                                 *)

\* certStore.Load, after a save or before a listener is bound.
Load(t) ==
  /\ At(t, "load")
  /\ thread' = [thread EXCEPT ![t] = IF Stored = None THEN Idle
                                     ELSE [Idle EXCEPT !.stage = "set", !.cert = Stored]]
  /\ UNCHANGED <<row, served, standalone, inFlight, restarts, history>>

\* The provider keeps the certificate it has.
LoadFails(t) ==
  /\ May("database") /\ At(t, "load")
  /\ Finish(t)
  /\ current' = FALSE
  /\ UNCHANGED <<row, served, standalone, inFlight, restarts, excused>>

\* Mutation: only the first certificate is handed over.
SetOnce(t) ==
  /\ At(t, "set")
  /\ served' = IF served = None THEN thread[t].cert ELSE served
  /\ Finish(t)
  /\ UNCHANGED <<row, standalone, inFlight, restarts, history>>

\* certProvider.set.
Set(t) ==
  /\ At(t, "set")
  /\ served' = thread[t].cert
  /\ Finish(t)
  /\ UNCHANGED <<row, standalone, inFlight, restarts, history>>

-----------------------------------------------------------------------------
(* Time, and the process.                                                  *)

\* Less than renewBefore is left of the certificate.
Age ==
  /\ Stored # None /\ ~Existing.due
  /\ row' = [row EXCEPT !.due = TRUE]
  /\ UNCHANGED <<served, standalone, inFlight, thread, restarts, history>>

\* A crash and a start; in standalone mode the listener loads the certificate
\* first, unless it cannot be read.
Restart ==
  /\ restarts < MaxRestarts /\ restarts' = restarts + 1
  /\ thread' = [t \in Thread |-> Idle] /\ inFlight' = None
  /\ \/ served' = (IF standalone THEN Stored ELSE None) /\ current' = TRUE
     \/ May("database") /\ served' = None /\ current' = FALSE
  /\ UNCHANGED <<row, standalone, excused>>

Init ==
  /\ row = None /\ served = None /\ standalone = FALSE
  /\ inFlight = None /\ thread = [t \in Thread |-> Idle] /\ restarts = 0
  /\ excused = FALSE /\ current = TRUE

Issuing(t)    == Acquire(t) \/ Register(t) \/ Obtain(t) \/ Refuse(t)
Installing(t) == Save(t) \/ SaveFails(t) \/ RecordFailure(t) \/ Load(t) \/ LoadFails(t) \/ Set(t)

Next ==
  \/ Renew \/ RenewBlind
  \/ \E r \in Request : Issue(r) \/ Upload(r) \/ Bind(r)
  \/ \E t \in Thread : Issuing(t) \/ Installing(t)
  \/ Unbind \/ Age \/ Restart

\* Every thread carries on, the timer fires in the end, and a mutex that is
\* free again and again is granted.  Of the world outside: an order placed
\* again and again succeeds in the end, and so does a statement.
Fairness ==
  /\ \A t \in Thread : WF_vars(Issuing(t)) /\ WF_vars(Installing(t))
  /\ WF_vars(Renew \/ RenewBlind) /\ SF_vars(Acquire(Loop))
  /\ SF_vars(Register(Loop)) /\ SF_vars(Obtain(Loop)) /\ SF_vars(Save(Loop))

Spec == Init /\ [][Next]_vars /\ Fairness

-----------------------------------------------------------------------------
(* Correctness.                                                            *)

\* What is stored as uploaded is a certificate.
TypeOK ==
  /\ row \in Row \cup {None}
  /\ Existing.source = "manual" => Stored # None
  /\ served \in Pair \cup {None} /\ standalone \in BOOLEAN
  /\ inFlight \in Thread \cup {None}
  /\ thread \in [Thread -> ThreadState] /\ restarts \in 0 .. MaxRestarts
  /\ excused \in BOOLEAN /\ current \in BOOLEAN

\* RecordFailure works "without disturbing any certificate already in place":
\* no attempt, however it ends, leaves the portal with none, neither in the
\* row nor in the provider of a process that goes on.
CertificateIsKept ==
  [][/\ Stored # None => Stored' # None
     /\ served # None => (served' # None \/ Restart)]_vars

\* A renewal "takes effect without rebuilding the listener": when nothing is
\* being installed, a handshake gets the certificate of the row, unless one
\* thread saved while another was about to hand over what it had loaded
\* before, or the certificate could not be read.
ServesStored ==
  standalone /\ current /\ (\A t \in Thread : ~At(t, "load") /\ ~At(t, "set"))
    => served = Stored

\* The loop replaces an uploaded certificate only if it failed to read the
\* row, or the upload came while its order was under way.
LoopSparesUpload ==
  [][Save(Loop) /\ Existing.source = "manual" => excused]_vars

\* While the portal is to renew, and should, it does in the end, or somebody
\* uploads a certificate or turns standalone off.
Due == standalone /\ NeedsRenewal /\ Existing.source = "acme"
RenewalArrives == Due ~> ~Due

\* "A manually uploaded certificate is the operator's to manage": the loop
\* never replaces one.
UploadIsKept == [][Save(Loop) => Existing.source # "manual"]_vars

\* loadOrCreateAccountKey is "[r]eusing the account across renewals": while an
\* ACME certificate is stored, so is the account that it was ordered with.
AccountIsReused ==
  [][\A t \in Thread : Register(t) => Existing.source = "manual" \/ Stored = None]_vars
=============================================================================
