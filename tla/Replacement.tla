---------------------------- MODULE Replacement ----------------------------
(***************************************************************************)
(* The issuer's replacement transaction (issuer-server/server.js): split,  *)
(* consolidate, convert and fungible issue.  A request takes the spend     *)
(* lock of every credential it spends and the lease of its requestId,      *)
(* finishes whatever an earlier attempt left in the transaction journal,   *)
(* answers a repeated request from the replay store, and otherwise checks  *)
(* the credentials, signs the successors and commits them: journal entry,  *)
(* holdings index, one atomic write of the revocation list (the commit     *)
(* point), replay record, journal entry removed.  The process may stop     *)
(* between any two of these writes, any write may fail, and a sweep        *)
(* recovers what is left in the journal.                                   *)
(*                                                                         *)
(* An attempt is one HTTP request.  The signed successors of an attempt    *)
(* are named by the attempt itself, which also serves as its transaction   *)
(* id: commitReplacement draws a fresh one per call.  JavaScript runs one  *)
(* stretch of code between awaits at a time; `cpu' is the stretch that is  *)
(* inside the synchronous part of the protocol, split at its durable       *)
(* writes because a crash may fall between them.                           *)
(***************************************************************************)
EXTENDS Naturals, FiniteSets

CONSTANTS
  Attempts,     \* HTTP requests
  Creds,        \* credentials that exist before the requests, sortable ids
  Keys,         \* journal keys: the requestId, or the txn id without one
  Owners,       \* owner public keys
  Anonymous,    \* the attempts that carry no requestId
  Key,          \* Key[a]: the journal key of attempt a
  Preds,        \* Preds[a]: the credentials it spends; {} for an issue
  Params,       \* Params[a]: the operation and its parameters
  Owner,        \* Owner[a]: who receives the successors
  HoldingCap,   \* at most this many issued units per owner
  MaxCrashes,   \* bound: how often the process may stop
  MaxFaults,    \* bound: how many writes may fail
  MaxAdmin,     \* bound: how many credentials an operator revokes
  MayLapse,     \* TRUE: a lock may be released under a running request
  None, Sweep, Admin

ASSUME ReplacementAssumption ==
  /\ Creds \subseteq Nat
  /\ Anonymous \subseteq Attempts
  /\ Key \in [Attempts -> Keys]
  /\ Preds \in [Attempts -> SUBSET Creds]
  /\ Owner \in [Attempts -> Owners]
  /\ DOMAIN Params = Attempts
  /\ HoldingCap \in Nat
  /\ MaxCrashes \in Nat /\ MaxFaults \in Nat /\ MaxAdmin \in Nat
  /\ MayLapse \in BOOLEAN
  /\ {None, Sweep, Admin} \cap Attempts = {}
  /\ None # Sweep /\ None # Admin /\ Sweep # Admin
  \* the key of a request without a requestId is its fresh txn id
  /\ \A a \in Anonymous : \A b \in Attempts : Key[b] = Key[a] => b = a

VARIABLES
  revoked,    \* the revocation list: pairs <<credential, txn tag>>
  journal,    \* journal[k]: the transaction in k's journal file, or None
  holdings,   \* the transactions whose successors the holdings index records
  replay,     \* replay[k]: the transaction whose response is stored for k
  spendLock,  \* spendLock[c]: the attempt holding c's spend lock
  ridLease,   \* ridLease[k]: the attempt, or the sweep, holding k's lease
  ownerLease, \* ownerLease[o]: the issue holding o's holdings lease
  pc,         \* pc[a]: where attempt a stands
  taken,      \* taken[a]: the spend locks a has acquired (ctx.held)
  checked,    \* checked[a]: the credentials a has found unrevoked
  answer,     \* answer[a]: the transaction whose successors a was sent
  lapsed,     \* the attempts whose locks were released while they ran
  cpu,        \* the stretch of synchronous protocol code that is running
  boot,       \* the journal entries the start-up sweep still has to visit
  crashes, faults

durable == <<revoked, journal, holdings, replay>>
locks   == <<spendLock, ridLease, ownerLease>>
request == <<pc, taken, checked, answer, lapsed>>
bounds  == <<crashes, faults>>
vars    == <<durable, locks, request, cpu, boot, bounds>>

Running == {"locking", "recovering", "checking", "signing", "committing"}
Final   == {"answered", "revoked", "capped", "conflict", "busy", "failed", "lost"}

Free == [who |-> None, txn |-> None, step |-> "idle"]
Steps == {"register", "revoke", "finish", "store", "remove", "unregister",
          "drop", "lookup"}

\* the start-up sweep runs before the first request is accepted
Ready == cpu = Free /\ boot = {}

IsIssue(a) == Preds[a] = {}
Tagged(t)  == {c \in Creds : <<c, t>> \in revoked}
IsRevoked(c) == \E t \in Attempts \cup {Admin} : <<c, t>> \in revoked

\* replayLookup: the stored record is for this very request
Same(a, b) == Params[a] = Params[b] /\ Preds[a] = Preds[b]

\* txnState: an entry without predecessors counts as committed
\* (the first mutated: the tags of the revocation list are not looked at)
NeverCommitted(t) == Preds[t] = {}
Committed(t) == Preds[t] = {} \/ Tagged(t) = Preds[t]

\* assessHoldings: what the holdings index records for the owner
Held(o) == Cardinality({t \in holdings : Owner[t] = o})

Init ==
  /\ revoked = {} /\ holdings = {}
  /\ journal = [k \in Keys |-> None]
  /\ replay = [k \in Keys |-> None]
  /\ spendLock = [c \in Creds |-> None]
  /\ ridLease = [k \in Keys |-> None]
  /\ ownerLease = [o \in Owners |-> None]
  /\ pc = [a \in Attempts |-> "new"]
  /\ taken = [a \in Attempts |-> {}]
  /\ checked = [a \in Attempts |-> {}]
  /\ answer = [a \in Attempts |-> None]
  /\ lapsed = {}
  /\ cpu = Free /\ boot = {}
  /\ crashes = 0 /\ faults = 0

-----------------------------------------------------------------------------
(* Locks.  Every lock is a queue of promises; the order among its waiters  *)
(* does not matter here and is left open.                                  *)

\* the response has been sent: 'finish' releases every lock of the request
Release(a) ==
  /\ spendLock' = [c \in Creds |-> IF spendLock[c] = a THEN None ELSE spendLock[c]]
  /\ ridLease' = [k \in Keys |-> IF ridLease[k] = a THEN None ELSE ridLease[k]]
  /\ ownerLease' = [o \in Owners |-> IF ownerLease[o] = a THEN None ELSE ownerLease[o]]

Respond(a, outcome) ==
  /\ pc' = [pc EXCEPT ![a] = outcome]
  /\ Release(a)

Arrive(a) ==
  /\ Ready
  /\ pc[a] = "new"
  /\ pc' = [pc EXCEPT ![a] = "locking"]
  /\ UNCHANGED <<durable, locks, taken, checked, answer, lapsed, cpu, boot, bounds>>

NextLock(a, c) ==
  /\ c \in Preds[a] \ taken[a]
  /\ \A d \in Preds[a] \ taken[a] : c <= d

GrantedToAll(a, c) == spendLock   \* (mutated: the lock is not kept)
Granted(a, c) == IF a \in lapsed THEN spendLock ELSE [spendLock EXCEPT ![c] = a]

\* lockSpend: in sorted order; a request whose locks have been released
\* already gives each further one back as soon as it has it
TakeSpendLock(a, c) ==
  /\ Ready
  /\ pc[a] = "locking"
  /\ NextLock(a, c)
  /\ spendLock[c] = None
  /\ taken' = [taken EXCEPT ![a] = @ \cup {c}]
  /\ spendLock' = Granted(a, c)
  /\ UNCHANGED <<durable, ridLease, ownerLease, pc, checked, answer, lapsed, cpu, boot, bounds>>

\* The wait for a lock or a lease ends after SPEND_LOCK_WAIT_MS.
GiveUp(a) ==
  /\ Ready
  /\ \/ /\ pc[a] = "locking"
        /\ \/ \E c \in Creds : NextLock(a, c) /\ spendLock[c] # None
           \/ /\ taken[a] = Preds[a]
              /\ a \notin Anonymous
              /\ ridLease[Key[a]] # None
     \/ /\ pc[a] = "checking"
        /\ IsIssue(a)
        /\ ownerLease[Owner[a]] # None
  /\ Respond(a, "busy")
  /\ UNCHANGED <<durable, taken, checked, answer, lapsed, cpu, boot, bounds>>

\* The connection closes, or the lock has been held SPEND_LOCK_HOLD_MS: the
\* locks are released although the handler is still going to run.
Lapse(a) ==
  /\ MayLapse
  /\ Ready
  /\ pc[a] \in Running
  /\ a \notin lapsed
  /\ lapsed' = lapsed \cup {a}
  /\ Release(a)
  /\ UNCHANGED <<durable, pc, taken, checked, answer, cpu, boot, bounds>>

-----------------------------------------------------------------------------
(* The request's way to the commit.                                        *)

\* (first three mutated: no recovery; a recovery that does not register again;
\* an unfinished entry left for an operator)
SkipsRecovery(t) == "lookup"
LeavesInconsistent(t) ==
  IF t = None THEN "lookup" ELSE IF Committed(t) THEN "finish" ELSE "inconsistent"
\* txnRecover; with no entry there is nothing to do before the lookup
RecoveryStep(t) ==
  IF t = None THEN "lookup" ELSE IF Committed(t) THEN "finish" ELSE "unregister"

\* holdLease on the requestId, then txnRecoverKey or straight to the lookup
TakeLease(a) ==
  /\ Ready
  /\ pc[a] = "locking"
  /\ taken[a] = Preds[a]
  /\ a \notin Anonymous
  /\ ridLease[Key[a]] = None
  /\ ridLease' = [ridLease EXCEPT ![Key[a]] = a]
  /\ pc' = [pc EXCEPT ![a] = "recovering"]
  /\ LET t == journal[Key[a]]
     IN cpu' = [who |-> a, txn |-> t, step |-> RecoveryStep(t)]
  /\ UNCHANGED <<durable, spendLock, ownerLease, taken, checked, answer, lapsed, boot, bounds>>

SkipLease(a) ==
  /\ Ready
  /\ pc[a] = "locking"
  /\ taken[a] = Preds[a]
  /\ a \in Anonymous
  /\ pc' = [pc EXCEPT ![a] = "checking"]
  /\ UNCHANGED <<durable, locks, taken, checked, answer, lapsed, cpu, boot, bounds>>

Stored(a) == replay[Key[a]]

\* replayLookup in the same stretch of code as the recovery
LookUp(a) ==
  LET t == Stored(a)
  IN /\ cpu.who = a /\ cpu.step = "lookup"
     /\ cpu' = Free
     /\ \/ /\ t = None
           /\ pc' = [pc EXCEPT ![a] = "checking"]
           /\ UNCHANGED <<locks, answer>>
        \/ /\ t # None /\ Same(a, t)
           /\ answer' = [answer EXCEPT ![a] = t]
           /\ Respond(a, "answered")
        \/ /\ t # None /\ ~ Same(a, t)
           /\ Respond(a, "conflict")
           /\ UNCHANGED answer
     /\ UNCHANGED <<durable, taken, checked, lapsed, boot, bounds>>

\* checkPresentedAsset, one credential at a time: each check awaits a
\* signature verification, the last one is followed by signing
CheckCredential(a, c) ==
  /\ Ready
  /\ pc[a] = "checking"
  /\ c \in Preds[a] \ checked[a]
  /\ IF IsRevoked(c)
     THEN Respond(a, "revoked") /\ UNCHANGED checked
     ELSE /\ checked' = [checked EXCEPT ![a] = @ \cup {c}]
          /\ pc' = [pc EXCEPT ![a] = IF checked'[a] = Preds[a] THEN "signing" ELSE @]
          /\ UNCHANGED locks
  /\ UNCHANGED <<durable, taken, answer, lapsed, cpu, boot, bounds>>

OwnerNotHeld(a) == ownerLease   \* (mutated: the owner is not held)
OwnerGranted(a) == [ownerLease EXCEPT ![Owner[a]] = a]

\* an issue holds its owner while the cap is checked and until it answers
CheckCap(a) ==
  /\ Ready
  /\ pc[a] = "checking"
  /\ IsIssue(a)
  /\ ownerLease[Owner[a]] = None
  /\ IF Held(Owner[a]) + 1 > HoldingCap
     THEN Respond(a, "capped")
     ELSE /\ pc' = [pc EXCEPT ![a] = "signing"]
          /\ ownerLease' = OwnerGranted(a)
          /\ UNCHANGED <<spendLock, ridLease>>
  /\ UNCHANGED <<durable, taken, checked, answer, lapsed, cpu, boot, bounds>>

\* signing fails (no supply left, no such class): nothing has been recorded
SigningFails(a) ==
  /\ Ready
  /\ pc[a] = "signing"
  /\ Respond(a, "failed")
  /\ UNCHANGED <<durable, taken, checked, answer, lapsed, cpu, boot, bounds>>

-----------------------------------------------------------------------------
(* commitReplacement, txnFinish, txnAbort: one durable write per step.     *)
(* A write that fails leaves its file as it was (writeFileAtomic).         *)

WriteWorks == UNCHANGED faults
WriteFails == faults < MaxFaults /\ faults' = faults + 1

\* (mutated: the entry is removed before the result is stored)
ForgetsReplay(step) ==
  cpu' = [cpu EXCEPT !.step = IF step = "store" THEN "remove" ELSE step]
GoTo(step) == cpu' = [cpu EXCEPT !.step = step]

\* txnWrite; a request without a requestId takes the lease of its own key
WriteJournal(a) ==
  /\ Ready
  /\ pc[a] = "signing"
  /\ \/ /\ WriteWorks
        /\ journal' = [journal EXCEPT ![Key[a]] = a]
        /\ cpu' = [who |-> a, txn |-> a, step |-> "register"]
        /\ pc' = [pc EXCEPT ![a] = "committing"]
        /\ ridLease' = IF a \in Anonymous THEN [ridLease EXCEPT ![Key[a]] = a] ELSE ridLease
        /\ UNCHANGED <<spendLock, ownerLease>>
     \/ /\ WriteFails
        /\ Respond(a, "failed")
        /\ UNCHANGED <<journal, cpu>>
  /\ UNCHANGED <<revoked, holdings, replay, taken, checked, answer, lapsed, boot, crashes>>

\* txnRegister before the commit point: a failure aborts
Register ==
  /\ cpu.step = "register"
  /\ \/ WriteWorks /\ holdings' = holdings \cup {cpu.txn} /\ GoTo("revoke")
     \/ WriteFails /\ UNCHANGED holdings /\ GoTo("unregister")
  /\ UNCHANGED <<revoked, journal, replay, locks, request, boot, crashes>>

\* revokeMany: every predecessor in one atomic replace; an issue has none
Revoke ==
  /\ cpu.step = "revoke"
  /\ \/ /\ WriteWorks
        /\ revoked' = revoked \cup (Preds[cpu.txn] \X {cpu.txn})
        /\ GoTo("finish")
     \/ /\ Preds[cpu.txn] # {}
        /\ WriteFails
        /\ UNCHANGED revoked
        /\ GoTo("unregister")
  /\ UNCHANGED <<journal, holdings, replay, locks, request, boot, crashes>>

\* What follows the last write of txnFinish or txnAbort.  A committing
\* request is answered even if finishing failed; an aborted one gets the
\* error; a recovering one goes on to the lookup unless recovery threw; the
\* sweep lets the lease go and ignores errors.
Continue(outcome) ==
  \/ /\ cpu.who \in Attempts
     /\ pc[cpu.who] = "committing"
     /\ cpu' = Free
     /\ IF outcome \in {"finished", "threw"}
        THEN /\ Respond(cpu.who, "answered")
             /\ answer' = [answer EXCEPT ![cpu.who] = cpu.txn]
        ELSE /\ Respond(cpu.who, "failed")
             /\ UNCHANGED answer
  \/ /\ cpu.who \in Attempts
     /\ pc[cpu.who] = "recovering"
     /\ IF outcome \in {"threw", "stuck"}
        THEN cpu' = Free /\ Respond(cpu.who, "failed")
        ELSE GoTo("lookup") /\ UNCHANGED <<pc, locks>>
     /\ UNCHANGED answer
  \/ /\ cpu.who = Sweep
     /\ cpu' = Free
     /\ ridLease' = [ridLease EXCEPT ![Key[cpu.txn]] = None]
     /\ UNCHANGED <<pc, answer, spendLock, ownerLease>>

\* txnFinish registers once more: recovery may be the first to get there
FinishRegister ==
  /\ cpu.step = "finish"
  /\ \/ /\ WriteWorks
        /\ holdings' = holdings \cup {cpu.txn}
        /\ GoTo("store")
        /\ UNCHANGED <<locks, pc, answer>>
     \/ WriteFails /\ UNCHANGED holdings /\ Continue("threw")
  /\ UNCHANGED <<revoked, journal, replay, taken, checked, lapsed, boot, crashes>>

\* replayStore, for a request that carried a requestId
StoreReplay ==
  /\ cpu.step = "store"
  /\ \/ /\ WriteWorks
        /\ replay' = IF cpu.txn \in Anonymous THEN replay
                     ELSE [replay EXCEPT ![Key[cpu.txn]] = cpu.txn]
        /\ GoTo("remove")
        /\ UNCHANGED <<locks, pc, answer>>
     \/ /\ cpu.txn \notin Anonymous
        /\ WriteFails /\ UNCHANGED replay /\ Continue("threw")
  /\ UNCHANGED <<revoked, journal, holdings, taken, checked, lapsed, boot, crashes>>

RemoveJournal ==
  /\ cpu.step = "remove"
  /\ \/ /\ WriteWorks
        /\ journal' = [journal EXCEPT ![Key[cpu.txn]] = None]
        /\ Continue("finished")
     \/ WriteFails /\ UNCHANGED journal /\ Continue("threw")
  /\ UNCHANGED <<revoked, holdings, replay, taken, checked, lapsed, boot, crashes>>

\* txnAbort: holdingsUnregister logs its errors and goes on
Unregister ==
  /\ cpu.step = "unregister"
  /\ \/ WriteWorks /\ holdings' = holdings \ {cpu.txn}
     \/ WriteFails /\ UNCHANGED holdings
  /\ GoTo("drop")
  /\ UNCHANGED <<revoked, journal, replay, locks, request, boot, crashes>>

DropJournal ==
  /\ cpu.step = "drop"
  /\ \/ /\ WriteWorks
        /\ journal' = [journal EXCEPT ![Key[cpu.txn]] = None]
        /\ Continue("aborted")
     \/ WriteFails /\ UNCHANGED journal /\ Continue("stuck")
  /\ UNCHANGED <<revoked, holdings, replay, taken, checked, lapsed, boot, crashes>>

-----------------------------------------------------------------------------
OnlyAtStartUp(k) == k \in boot   \* (mutated: no sweep on the timer)
Due(k) == boot = {} \/ k \in boot

\* txnSweep takes the lease of a journal entry nobody is working on.  At
\* start-up nobody can be: the whole sweep runs before a request is accepted.
SweepTakes(k) ==
  /\ cpu = Free
  /\ Due(k)
  /\ boot' = boot \ {k}
  /\ journal[k] # None
  /\ ridLease[k] = None
  /\ ridLease' = [ridLease EXCEPT ![k] = Sweep]
  /\ cpu' = [who |-> Sweep, txn |-> journal[k], step |-> RecoveryStep(journal[k])]
  /\ UNCHANGED <<durable, spendLock, ownerLease, request, bounds>>

\* POST /atlas/revoke takes no spend lock and leaves no txn tag
AdminRevoke(c) ==
  /\ Ready
  /\ Cardinality({d \in Creds : <<d, Admin>> \in revoked}) < MaxAdmin
  /\ <<c, Admin>> \notin revoked
  /\ revoked' = revoked \cup {<<c, Admin>>}
  /\ UNCHANGED <<journal, holdings, replay, locks, request, cpu, boot, bounds>>

\* The process stops, at any point, and is started again: files survive,
\* locks and requests do not.
Crash ==
  /\ crashes < MaxCrashes
  /\ crashes' = crashes + 1
  /\ spendLock' = [c \in Creds |-> None]
  /\ ridLease' = [k \in Keys |-> None]
  /\ ownerLease' = [o \in Owners |-> None]
  /\ pc' = [a \in Attempts |-> IF pc[a] \in Running THEN "lost" ELSE pc[a]]
  /\ cpu' = Free
  /\ boot' = {k \in Keys : journal[k] # None}
  /\ UNCHANGED <<durable, taken, checked, answer, lapsed, faults>>

Protocol ==
  \/ Register \/ Revoke \/ FinishRegister \/ StoreReplay \/ RemoveJournal
  \/ Unregister \/ DropJournal

Advance(a) ==
  \/ \E c \in Creds : TakeSpendLock(a, c) \/ CheckCredential(a, c)
  \/ GiveUp(a) \/ TakeLease(a) \/ SkipLease(a) \/ LookUp(a)
  \/ CheckCap(a) \/ SigningFails(a) \/ WriteJournal(a)

Next ==
  \/ Protocol
  \/ \E a \in Attempts : Arrive(a) \/ Advance(a) \/ Lapse(a)
  \/ \E k \in Keys : SweepTakes(k)
  \/ \E c \in Creds : AdminRevoke(c)
  \/ Crash

\* The event loop runs what is ready, every wait has a timer, and the sweep
\* runs at start-up and every minute.
Fairness ==
  /\ WF_vars(Protocol)
  /\ \A a \in Attempts : WF_vars(Advance(a))
  /\ \A k \in Keys : WF_vars(SweepTakes(k))

Spec == Init /\ [][Next]_vars
FairSpec == Spec /\ Fairness

-----------------------------------------------------------------------------
(* What the transaction is for.                                            *)

\* An issue that has not been registered yet may still be aborted by the
\* request that is writing it; everyone else takes its entry as decided.
Undecided(t) ==
  cpu.who = t /\ cpu.txn = t /\ cpu.step \in {"register", "unregister", "drop"}

\* The transaction's successors exist for good.
Decided(t) ==
  IF IsIssue(t)
  THEN \/ t \in holdings
       \/ replay[Key[t]] = t
       \/ journal[Key[t]] = t /\ ~ Undecided(t)
  ELSE Tagged(t) = Preds[t]

Entry == Attempts \cup {None}

\* Every variable stays in its type: files hold transactions, locks are held
\* by requests (a lease also by the sweep).
TypeOK ==
  /\ revoked \subseteq Creds \X (Attempts \cup {Admin})
  /\ journal \in [Keys -> Entry] /\ replay \in [Keys -> Entry]
  /\ holdings \subseteq Attempts
  /\ spendLock \in [Creds -> Entry]
  /\ ridLease \in [Keys -> Entry \cup {Sweep}]
  /\ ownerLease \in [Owners -> Entry]
  /\ pc \in [Attempts -> {"new"} \cup Running \cup Final]
  /\ taken \in [Attempts -> SUBSET Creds]
  /\ checked \in [Attempts -> SUBSET Creds]
  /\ answer \in [Attempts -> Entry]
  /\ lapsed \subseteq Attempts
  /\ cpu \in [who : Entry \cup {Sweep}, txn : Entry, step : Steps \cup {"idle"}]
  /\ boot \subseteq Keys
  /\ crashes \in Nat /\ faults \in Nat

\* A credential is spent by one transaction at most: two requests for it
\* cannot both get successors (lockSpend, checkPresentedAsset, revokeMany).
NoDoubleSpend ==
  \A c \in Creds : \A s, t \in Attempts :
    <<c, s>> \in revoked /\ <<c, t>> \in revoked => s = t

\* The signed result of a transaction that happened is in the journal or in
\* the replay store from the commit point on, so a retry can fetch it.
DecidedIsRecoverable ==
  \A t \in Attempts \ Anonymous :
    Decided(t) => journal[Key[t]] = t \/ replay[Key[t]] = t

\* A repeat of a request that went through is never told that its
\* credentials are already revoked, unless something else revoked one.
RetryNeverRefused ==
  \A a \in Attempts \ Anonymous :
    pc[a] = "revoked" =>
      \E c \in Preds[a] : \E t \in Attempts \cup {Admin} :
        /\ <<c, t>> \in revoked
        /\ ~ (t \in Attempts /\ Key[t] = Key[a] /\ Same(a, t))

\* Concurrent issues to one owner never pass the cap together (holdLease on
\* the owner, CheckCap), stops included.  A failed write is another matter: an
\* issue that recovery could not register counts for nobody until the sweep
\* comes back to it.
CapRespected ==
  faults = 0 =>
    \A o \in Owners :
      Cardinality({t \in Attempts : IsIssue(t) /\ Owner[t] = o /\ Decided(t)}) <= HoldingCap

\* A pending journal entry is resolved, never replaced by another request's:
\* a request recovers its key before it writes (beginReplacement).
JournalNotOverwritten ==
  [][\A k \in Keys : journal[k] # None => journal'[k] \in {journal[k], None}]_vars

\* Every journal entry is resolved, through crashes and failed writes, and no
\* lock leaks: whatever requests ran into, what they held becomes usable again
\* (the releases of lockSpend and holdLease, the sweep's finally).
InUse ==
  {c \in Creds : spendLock[c] # None} \cup {o \in Owners : ownerLease[o] # None}
    \cup {k \in Keys : ridLease[k] # None \/ journal[k] # None}
NothingStaysHeld == InUse # {} ~> InUse = {}

\* The journalled protocol implements the atomic transaction: each step of it
\* commits one transaction, sends one answer, or changes nothing of either.
Atomic == INSTANCE AtomicReplacement WITH
  spent <- {p \in revoked : p[2] \in Attempts},
  happened <- {t \in Attempts : Decided(t)}
ImplementsAtomic == Atomic!Spec

=============================================================================
