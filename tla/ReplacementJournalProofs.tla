---------------------- MODULE ReplacementJournalProofs ----------------------
(***************************************************************************)
(* What the transaction journal and the lease of a requestId are for:      *)
(* theorems about Replacement for requests whose locks do not lapse.       *)
(***************************************************************************)
EXTENDS ReplacementProofs, FiniteSetTheorems

\* It has begun to commit, or is over.
Begun(a) == pc[a] = "committing" \/ pc[a] \in Final

\* A request keeps the lease of its requestId from its recovery to its answer,
\* and the synchronous stretch belongs to exactly one request or to the sweep.
LeaseHeld ==
  /\ \A a \in Attempts \ Anonymous : pc[a] \in Running \ {"locking"} => ridLease[Key[a]] = a
  /\ cpu.who = Sweep => ridLease[Key[cpu.txn]] = Sweep

CpuOwner ==
  /\ cpu.who = None <=> cpu.step = "idle"
  /\ \A a \in Attempts : pc[a] \in {"recovering", "committing"} => cpu.who = a
  /\ cpu.who \in Attempts =>
       \/ pc[cpu.who] = "committing" /\ cpu.txn = cpu.who /\ cpu.step # "lookup"
       \/ /\ pc[cpu.who] = "recovering" /\ cpu.who \notin Anonymous
          /\ cpu.step # "lookup" => Key[cpu.txn] = Key[cpu.who]
  /\ cpu.who = Sweep => cpu.step # "lookup"

\* Files are filed under the key of their transaction; a key's journal entry
\* and stored result never disagree.
FiledByKey ==
  /\ \A k \in Keys, t \in Attempts : journal[k] = t => Key[t] = k /\ Begun(t)
  /\ \A k \in Keys, t \in Attempts : replay[k] = t =>
       Key[t] = k /\ Begun(t) /\ t \notin Anonymous /\ Committed(t) /\ journal[k] \in {None, t}
  /\ cpu.step \notin {"idle", "lookup"} => journal[Key[cpu.txn]] = cpu.txn
  /\ cpu.step = "lookup" => journal[Key[cpu.who]] = None

\* A request that goes on after the lookup found its key clean.
KeyIsClean ==
  \A a \in Attempts : pc[a] \in {"checking", "signing"} =>
    journal[Key[a]] = None /\ replay[Key[a]] = None

\* One atomic write spends all the credentials of a transaction.
AllOrNothing ==
  /\ \A t \in Attempts : Tagged(t) \in {{}, Preds[t]}
  /\ \A t \in Attempts : (Tagged(t) # {} \/ t \in holdings) => Begun(t)

\* What the running step knows of the transaction it works on.
StepKnows ==
  /\ cpu.step \in {"register", "revoke", "unregister", "drop"} =>
       /\ Tagged(cpu.txn) = {}
       /\ replay[Key[cpu.txn]] = None
       /\ cpu.step # "revoke" /\ IsIssue(cpu.txn) => cpu.txn \notin holdings /\ cpu.who = cpu.txn
  /\ cpu.step \in {"finish", "store", "remove"} => Committed(cpu.txn)
  /\ cpu.step \in {"revoke", "store", "remove"} /\ IsIssue(cpu.txn) => cpu.txn \in holdings
  /\ cpu.step = "remove" /\ cpu.txn \notin Anonymous => replay[Key[cpu.txn]] = cpu.txn

\* Nobody has been answered before the end.
AnsweredAtEnd == \A a \in Attempts : pc[a] \notin Final => answer[a] = None

JournalInv ==
  /\ SpendInv /\ LeaseHeld /\ CpuOwner /\ FiledByKey /\ KeyIsClean
  /\ AllOrNothing /\ StepKnows /\ AnsweredAtEnd /\ DecidedIsRecoverable

LEMMA JournalInit == ASSUME ReplacementAssumption, Init PROVE JournalInv
<1>1. SpendInv BY SpendInit
<1>2. \A t \in Attempts : Tagged(t) = {} BY DEF Init, Tagged
<1>3. \A k \in Keys : journal[k] = None /\ replay[k] = None BY DEF Init
<1>4. \A a \in Attempts : Key[a] \in Keys /\ pc[a] = "new" /\ a # None
  BY DEF Init, ReplacementAssumption
<1>5. holdings = {} /\ cpu = Free /\ None # Sweep /\ None \notin Attempts /\ Sweep \notin Attempts
  BY DEF Init, ReplacementAssumption
<1>6. LeaseHeld /\ CpuOwner
  BY <1>4, <1>5 DEF LeaseHeld, CpuOwner, Free, Running
<1>7. FiledByKey /\ KeyIsClean BY <1>3, <1>4, <1>5 DEF FiledByKey, KeyIsClean, Free
<1>8. AllOrNothing /\ StepKnows BY <1>2, <1>5 DEF AllOrNothing, StepKnows, Free
<1>9. AnsweredAtEnd BY DEF AnsweredAtEnd, Init
<1>10. DecidedIsRecoverable BY <1>2, <1>3, <1>4, <1>5 DEF DecidedIsRecoverable, Decided, IsIssue
<1> QED BY <1>1, <1>6, <1>7, <1>8, <1>9, <1>10 DEF JournalInv

\* What a step leaves alone of the revocation list.
LEMMA SameTags ==
  ASSUME UNCHANGED revoked
  PROVE  \A t : Tagged(t)' = Tagged(t) /\ Committed(t)' = Committed(t)
BY DEF Tagged, Committed

\* The keys: None and the sweep are no requests, a key is one request's own if
\* that carries no requestId.
LEMMA Names ==
  ASSUME ReplacementAssumption
  PROVE  /\ None \notin Attempts /\ Sweep \notin Attempts /\ None # Sweep
         /\ \A a \in Attempts : Key[a] \in Keys
         /\ \A a \in Anonymous, b \in Attempts : Key[b] = Key[a] => b = a
BY DEF ReplacementAssumption

\* A request moves on between two awaits, with nothing durable touched.
LEMMA MoveJournal ==
  ASSUME ReplacementAssumption, JournalInv, SpendInv', NEW a \in Attempts,
         NEW to \in {"locking", "checking", "signing"},
         pc' = [pc EXCEPT ![a] = to] \/ UNCHANGED pc,
         \/ pc[a] = "new" /\ to = "locking"
         \/ pc[a] = "locking" /\ to = "checking" /\ a \in Anonymous
         \/ pc[a] = "checking" /\ to = "signing",
         UNCHANGED <<durable, ridLease, answer, cpu>>
  PROVE  JournalInv'
<1> USE Names DEF JournalInv
<1>1. TypeInv BY DEF SpendInv
<1>2. pc'[a] \in {pc[a], to} /\ \A b \in Attempts : b # a => pc'[b] = pc[b]
  BY <1>1 DEF TypeInv, TypeOK
<1>3. UNCHANGED <<revoked, journal, holdings, replay>> BY DEF durable
<1>4. /\ LeaseHeld'
      /\ CpuOwner'
  BY <1>1, <1>2, <1>3 DEF LeaseHeld, CpuOwner, Running
<1>5. \A b \in Attempts : Begun(b)' <=> Begun(b) BY <1>2 DEF Begun, Final
<1>6. /\ AllOrNothing'
      /\ StepKnows'
      /\ DecidedIsRecoverable'
  BY <1>3, <1>5, SameTags DEF AllOrNothing, StepKnows, DecidedIsRecoverable, Decided, Undecided
<1>7. FiledByKey'
  <2>1. \A k \in Keys : journal[k] \in Entry /\ replay[k] \in Entry BY <1>1 DEF TypeInv, TypeOK
  <2> QED BY <1>3, <1>5, <2>1, SameTags DEF FiledByKey, Entry
<1>8. KeyIsClean'
  <2>1. a \in Anonymous /\ pc[a] = "locking" => journal[Key[a]] = None /\ replay[Key[a]] = None
    <3>1. journal[Key[a]] \in Entry /\ replay[Key[a]] \in Entry BY <1>1 DEF TypeInv, TypeOK
    <3> QED BY <3>1 DEF FiledByKey, Entry, Begun, Final
  <2> QED BY <1>2, <1>3, <2>1 DEF KeyIsClean
<1>9. AnsweredAtEnd' BY <1>2 DEF AnsweredAtEnd, Final
<1> QED BY <1>4, <1>6, <1>7, <1>8, <1>9

\* The work on a transaction ends: its journal entry is removed, or left for
\* the next recovery.
LEMMA Resolved ==
  ASSUME ReplacementAssumption, JournalInv, SpendInv',
         UNCHANGED <<revoked, holdings, replay>>,
         cpu'.step \in {"idle", "lookup"},
         \/ journal' = journal /\ cpu'.step = "idle"
         \/ /\ cpu.step \in {"remove", "drop"}
            /\ journal' = [journal EXCEPT ![Key[cpu.txn]] = None]
            /\ cpu'.step = "lookup" =>
                 cpu'.who = cpu.who /\ cpu.who \in Attempts /\ pc[cpu.who] = "recovering",
         \A b \in Attempts : Begun(b) => Begun(b)',
         \A b \in Attempts : pc'[b] \in {"checking", "signing"} => pc'[b] = pc[b]
  PROVE  FiledByKey' /\ KeyIsClean' /\ AllOrNothing' /\ StepKnows' /\ DecidedIsRecoverable'
<1> USE Names DEF JournalInv
<1>1. TypeInv BY DEF SpendInv
<1>2. \A k \in Keys : journal[k] \in Entry /\ replay[k] \in Entry BY <1>1 DEF TypeInv, TypeOK
<1>3. \A k \in Keys : journal'[k] \in {journal[k], None} BY <1>1 DEF TypeInv, TypeOK
<1>4. cpu.step \in {"remove", "drop"} => cpu.txn \in Attempts BY <1>1 DEF TypeInv, CpuTyped
<1>5. FiledByKey'
  <2>1. \A k \in Keys, t \in Attempts : journal'[k] = t => Key[t] = k /\ Begun(t)'
    BY <1>2, <1>3 DEF FiledByKey
  <2>2. \A k \in Keys, t \in Attempts : replay'[k] = t =>
          /\ Key[t] = k /\ Begun(t)' /\ t \notin Anonymous /\ Committed(t)'
          /\ journal'[k] \in {None, t}
    BY <1>2, <1>3, SameTags DEF FiledByKey
  <2>3. cpu'.step = "lookup" => journal'[Key[cpu'.who]] = None
    <3>1. cpu'.step = "lookup" => Key[cpu.txn] = Key[cpu.who] BY DEF CpuOwner
    <3> QED BY <1>1, <1>4, <3>1 DEF TypeInv, TypeOK
  <2> QED BY <2>1, <2>2, <2>3 DEF FiledByKey
<1>6. KeyIsClean' BY <1>3 DEF KeyIsClean
<1>7. AllOrNothing' BY SameTags DEF AllOrNothing
<1>8. StepKnows' BY DEF StepKnows
<1>9. ASSUME NEW t \in Attempts \ Anonymous, Decided(t)'
      PROVE  journal'[Key[t]] = t \/ replay'[Key[t]] = t
  <2>1. CASE journal' = journal
    <3>1. Decided(t) \/ journal[Key[t]] = t BY <1>9, <2>1, SameTags DEF Decided
    <3> QED BY <2>1, <3>1 DEF DecidedIsRecoverable
  <2>2. CASE /\ cpu.step \in {"remove", "drop"}
             /\ journal' = [journal EXCEPT ![Key[cpu.txn]] = None]
    <3>1. cpu.txn = t => replay[Key[t]] = t
      <4>1. SUFFICES ASSUME cpu.txn = t PROVE replay[Key[t]] = t OBVIOUS
      <4>2. journal'[Key[t]] = None BY <1>1, <2>2, <4>1 DEF TypeInv, TypeOK
      <4>3. cpu.step = "drop" => Tagged(t) = {} /\ (IsIssue(t) => t \notin holdings)
        BY <4>1 DEF StepKnows
      <4>4. cpu.step = "drop" => replay[Key[t]] = t
        BY <1>9, <4>2, <4>3, SameTags DEF Decided, IsIssue
      <4> QED BY <2>2, <4>1, <4>4 DEF StepKnows
    <3>2. cpu.txn # t => Decided(t)
      BY <1>1, <1>3, <1>9, SameTags DEF Decided, Undecided
    <3>3. cpu.txn # t /\ Key[cpu.txn] = Key[t] => journal[Key[t]] # t
      BY <2>2 DEF FiledByKey
    <3>4. Key[cpu.txn] # Key[t] => journal'[Key[t]] = journal[Key[t]]
      BY <1>1, <2>2 DEF TypeInv, TypeOK
    <3> QED BY <3>1, <3>2, <3>3, <3>4 DEF DecidedIsRecoverable
  <2> QED BY <2>1, <2>2
<1> QED BY <1>5, <1>6, <1>7, <1>8, <1>9 DEF DecidedIsRecoverable

\* A request ends, with the stretch that it had or without one.
LEMMA EndJournal ==
  ASSUME ReplacementAssumption, JournalInv, SpendInv', NEW a \in Attempts, NEW outcome \in Final,
         Respond(a, outcome), cpu' = Free, cpu.who \in {None, a},
         UNCHANGED <<revoked, holdings, replay>>,
         \/ journal' = journal
         \/ /\ cpu.step \in {"remove", "drop"}
            /\ journal' = [journal EXCEPT ![Key[cpu.txn]] = None],
         \A b \in Attempts : b # a => answer'[b] = answer[b]
  PROVE  JournalInv'
<1> USE Names DEF JournalInv
<1>1. TypeInv BY DEF SpendInv
<1>2. /\ pc'[a] = outcome /\ \A b \in Attempts : b # a => pc'[b] = pc[b]
      /\ outcome \notin Running
      /\ \A k \in Keys : ridLease'[k] = IF ridLease[k] = a THEN None ELSE ridLease[k]
  BY <1>1 DEF TypeInv, TypeOK, Respond, Release, Running, Final
<1>3. FiledByKey' /\ KeyIsClean' /\ AllOrNothing' /\ StepKnows' /\ DecidedIsRecoverable'
  <2>1. \A b \in Attempts : Begun(b) => Begun(b)' BY <1>2 DEF Begun
  <2>2. cpu'.step = "idle" BY DEF Free
  <2>3. \A b \in Attempts : pc'[b] \in {"checking", "signing"} => pc'[b] = pc[b]
    BY <1>2 DEF Running
  <2> QED BY <2>1, <2>2, <2>3, Resolved
<1>4. LeaseHeld' BY <1>2 DEF LeaseHeld, Free
<1>5. CpuOwner' BY <1>2 DEF CpuOwner, Free, Running
<1>6. AnsweredAtEnd' BY <1>2 DEF AnsweredAtEnd
<1> QED BY <1>3, <1>4, <1>5, <1>6

LEMMA ContinueJournal ==
  ASSUME ReplacementAssumption, JournalInv, SpendInv', NEW outcome, Continue(outcome),
         UNCHANGED <<revoked, holdings, replay>>,
         cpu.step \in {"finish", "store", "remove", "drop"},
         \/ outcome \in {"threw", "stuck"} /\ journal' = journal
         \/ /\ outcome \in {"finished", "aborted"}
            /\ cpu.step \in {"remove", "drop"}
            /\ journal' = [journal EXCEPT ![Key[cpu.txn]] = None]
  PROVE  JournalInv'
<1> USE Names DEF JournalInv
<1>1. TypeInv BY DEF SpendInv
<1>2. CASE \E done \in Final : /\ cpu.who \in Attempts /\ Respond(cpu.who, done) /\ cpu' = Free
                               /\ \A b \in Attempts : b # cpu.who => answer'[b] = answer[b]
  <2>1. PICK done \in Final : Respond(cpu.who, done) BY <1>2
  <2> QED BY <1>2, <2>1, EndJournal
<1>3. CASE /\ cpu.who \in Attempts /\ pc[cpu.who] = "recovering" /\ GoTo("lookup")
           /\ outcome \notin {"threw", "stuck"} /\ UNCHANGED <<pc, locks, answer>>
  <2>1. /\ cpu'.step = "lookup" /\ cpu'.who = cpu.who /\ cpu'.txn = cpu.txn
        /\ UNCHANGED <<pc, ridLease, answer>>
    BY <1>1, <1>3 DEF GoTo, TypeInv, TypeOK, locks
  <2>2. FiledByKey' /\ KeyIsClean' /\ AllOrNothing' /\ StepKnows' /\ DecidedIsRecoverable'
    <3>1. \A b \in Attempts : Begun(b) => Begun(b)' BY <2>1 DEF Begun
    <3> QED BY <1>3, <2>1, <3>1, Resolved
  <2>3. LeaseHeld' /\ CpuOwner' /\ AnsweredAtEnd'
    BY <1>3, <2>1 DEF LeaseHeld, CpuOwner, AnsweredAtEnd
  <2> QED BY <2>2, <2>3
<1>4. CASE /\ cpu.who = Sweep /\ cpu' = Free
           /\ ridLease' = [ridLease EXCEPT ![Key[cpu.txn]] = None]
           /\ UNCHANGED <<pc, answer>>
  <2>1. FiledByKey' /\ KeyIsClean' /\ AllOrNothing' /\ StepKnows' /\ DecidedIsRecoverable'
    <3>1. \A b \in Attempts : Begun(b) => Begun(b)' BY <1>4 DEF Begun
    <3> QED BY <1>4, <3>1, Resolved DEF Free
  <2>2. LeaseHeld' BY <1>1, <1>4 DEF LeaseHeld, TypeInv, TypeOK, Free
  <2>3. CpuOwner' /\ AnsweredAtEnd' BY <1>4 DEF CpuOwner, AnsweredAtEnd, Free
  <2> QED BY <2>1, <2>2, <2>3
<1>5. "answered" \in Final /\ "failed" \in Final BY DEF Final
<1>6. answer \in [Attempts -> Entry] BY <1>1 DEF TypeInv, TypeOK
<1> QED BY <1>2, <1>3, <1>4, <1>5, <1>6 DEF Continue

\* Nobody is inside the synchronous stretch.
LEMMA IdleCpu ==
  ASSUME ReplacementAssumption, JournalInv, Ready
  PROVE  /\ cpu = Free /\ cpu.who = None /\ cpu.step = "idle"
         /\ \A a \in Attempts : pc[a] \notin {"recovering", "committing"}
BY Names DEF Ready, Free, JournalInv, CpuOwner

\* A new stretch of recovery: what the journal held is what it works on.
LEMMA RecoveryStarts ==
  ASSUME ReplacementAssumption, JournalInv, SpendInv', NEW k \in Keys,
         cpu = Free, NEW who, cpu' = [who |-> who, txn |-> journal[k], step |-> RecoveryStep(journal[k])],
         journal[k] = None => who \in Attempts /\ Key[who] = k,
         UNCHANGED durable,
         \A b \in Attempts : Begun(b) <=> Begun(b)',
         \A b \in Attempts : pc'[b] \in {"checking", "signing"} => pc'[b] = pc[b]
  PROVE  FiledByKey' /\ KeyIsClean' /\ AllOrNothing' /\ StepKnows' /\ DecidedIsRecoverable'
<1> USE Names DEF JournalInv
<1>1. TypeInv BY DEF SpendInv
<1>2. UNCHANGED <<revoked, journal, holdings, replay>> BY DEF durable
<1>3. journal[k] \in Attempts \/ journal[k] = None BY <1>1 DEF TypeInv, TypeOK, Entry
<1>4. journal[k] \in Attempts => Key[journal[k]] = k /\ cpu'.txn = journal[k]
  BY DEF FiledByKey
<1>5. cpu'.step \in {"lookup", "finish", "unregister"} BY DEF RecoveryStep
<1>6. /\ cpu'.step = "lookup" <=> journal[k] = None
      /\ cpu'.step = "finish" => Committed(journal[k])
      /\ cpu'.step = "unregister" => ~ Committed(journal[k])
  BY <1>3 DEF RecoveryStep
<1>7. FiledByKey' BY <1>2, <1>3, <1>4, <1>5, <1>6, SameTags DEF FiledByKey
<1>8. KeyIsClean' BY <1>2 DEF KeyIsClean
<1>9. AllOrNothing' BY <1>2, SameTags DEF AllOrNothing
<1>10. StepKnows'
  <2>1. CASE cpu'.step = "unregister"
    <3>1. journal[k] \in Attempts /\ Preds[journal[k]] # {} /\ Tagged(journal[k]) = {}
      BY <1>3, <1>6, <2>1 DEF Committed, AllOrNothing
    <3>2. replay[k] \in Entry BY <1>1 DEF TypeInv, TypeOK
    <3>3. replay[k] = None BY <1>6, <2>1, <3>1, <3>2 DEF FiledByKey, Entry
    <3> QED BY <1>2, <1>4, <2>1, <3>1, <3>3, SameTags DEF StepKnows, IsIssue
  <2>2. CASE cpu'.step # "unregister"
    BY <1>2, <1>3, <1>4, <1>5, <1>6, <2>2, SameTags DEF StepKnows
  <2> QED BY <2>1, <2>2
<1>11. DecidedIsRecoverable' BY <1>2, SameTags DEF DecidedIsRecoverable, Decided, Undecided, Free
<1> QED BY <1>7, <1>8, <1>9, <1>10, <1>11

LEMMA TakeLeaseJournal ==
  ASSUME ReplacementAssumption, JournalInv, SpendInv', NEW a \in Attempts, TakeLease(a)
  PROVE  JournalInv'
<1> USE Names DEF JournalInv
<1>1. TypeInv BY DEF SpendInv
<1>2. /\ cpu = Free /\ \A b \in Attempts : pc[b] \notin {"recovering", "committing"}
      /\ a \notin Anonymous /\ pc[a] = "locking" /\ ridLease[Key[a]] = None
      /\ UNCHANGED <<durable, answer>>
      /\ ridLease' = [ridLease EXCEPT ![Key[a]] = a] /\ pc' = [pc EXCEPT ![a] = "recovering"]
      /\ cpu' = [who |-> a, txn |-> journal[Key[a]], step |-> RecoveryStep(journal[Key[a]])]
  BY IdleCpu DEF TakeLease, Ready
<1>3. /\ pc'[a] = "recovering" /\ \A b \in Attempts : b # a => pc'[b] = pc[b]
      /\ ridLease'[Key[a]] = a /\ \A k \in Keys : k # Key[a] => ridLease'[k] = ridLease[k]
  BY <1>1, <1>2 DEF TypeInv, TypeOK
<1>4. FiledByKey' /\ KeyIsClean' /\ AllOrNothing' /\ StepKnows' /\ DecidedIsRecoverable'
  BY <1>2, <1>3, RecoveryStarts DEF Begun, Final
<1>5. LeaseHeld' BY <1>2, <1>3 DEF LeaseHeld, Free
<1>6. CpuOwner'
  <2>1. /\ cpu'.step \in {"lookup", "finish", "unregister"}
        /\ cpu'.step # "lookup" => journal[Key[a]] # None
    BY <1>2 DEF RecoveryStep
  <2>2. journal[Key[a]] \in Entry BY <1>1 DEF TypeInv, TypeOK
  <2>3. cpu'.step # "lookup" => Key[cpu'.txn] = Key[a]
    BY <1>2, <2>1, <2>2 DEF FiledByKey, Entry
  <2> QED BY <1>2, <1>3, <2>1, <2>3 DEF CpuOwner
<1>7. AnsweredAtEnd' BY <1>2, <1>3 DEF AnsweredAtEnd, Final
<1> QED BY <1>4, <1>5, <1>6, <1>7

LEMMA SweepTakesJournal ==
  ASSUME ReplacementAssumption, JournalInv, SpendInv', NEW k \in Keys, SweepTakes(k)
  PROVE  JournalInv'
<1> USE Names DEF JournalInv
<1>1. TypeInv BY DEF SpendInv
<1>2. /\ cpu = Free /\ journal[k] # None /\ ridLease[k] = None
      /\ UNCHANGED <<durable, pc, answer>> /\ ridLease' = [ridLease EXCEPT ![k] = Sweep]
      /\ cpu' = [who |-> Sweep, txn |-> journal[k], step |-> RecoveryStep(journal[k])]
  BY DEF SweepTakes, request
<1>3. ridLease'[k] = Sweep /\ \A j \in Keys : j # k => ridLease'[j] = ridLease[j]
  BY <1>1, <1>2 DEF TypeInv, TypeOK
<1>4. FiledByKey' /\ KeyIsClean' /\ AllOrNothing' /\ StepKnows' /\ DecidedIsRecoverable'
  BY <1>2, RecoveryStarts DEF Begun
<1>5. journal[k] \in Attempts /\ Key[journal[k]] = k
  BY <1>1, <1>2 DEF TypeInv, TypeOK, Entry, FiledByKey
<1>6. LeaseHeld' BY <1>2, <1>3, <1>5 DEF LeaseHeld
<1>7. CpuOwner' BY <1>2 DEF CpuOwner, RecoveryStep, Free
<1>8. AnsweredAtEnd' BY <1>2 DEF AnsweredAtEnd
<1> QED BY <1>4, <1>6, <1>7, <1>8

\* A request that found nothing recorded under its key goes on to the checks.
LEMMA LookUpJournal ==
  ASSUME ReplacementAssumption, JournalInv, SpendInv', NEW a \in Attempts, LookUp(a)
  PROVE  JournalInv'
<1> USE Names DEF JournalInv
<1>1. TypeInv BY DEF SpendInv
<1>2. cpu.who = a /\ cpu.step = "lookup" /\ cpu' = Free /\ UNCHANGED durable
  BY DEF LookUp
<1>3. UNCHANGED <<revoked, journal, holdings, replay>> BY <1>2 DEF durable
<1>4. pc[a] = "recovering" BY <1>2 DEF CpuOwner
<1>5. CASE \E done \in Final : /\ Respond(a, done)
                               /\ \A b \in Attempts : b # a => answer'[b] = answer[b]
  BY <1>2, <1>3, <1>5, EndJournal
<1>6. CASE replay[Key[a]] = None /\ pc' = [pc EXCEPT ![a] = "checking"] /\ UNCHANGED <<locks, answer>>
  <2>1. /\ pc'[a] = "checking" /\ \A b \in Attempts : b # a => pc'[b] = pc[b]
        /\ UNCHANGED ridLease
    BY <1>1, <1>6 DEF TypeInv, TypeOK, locks
  <2>2. journal[Key[a]] = None BY <1>2 DEF FiledByKey
  <2>3. \A b \in Attempts : Begun(b)' <=> Begun(b) BY <1>4, <2>1 DEF Begun, Final
  <2>4. LeaseHeld' BY <1>2, <1>4, <2>1 DEF LeaseHeld, Running, Free
  <2>5. CpuOwner' BY <1>2, <1>4, <2>1 DEF CpuOwner, Free
  <2>6. FiledByKey'
    BY <1>2, <1>3, <2>3, SameTags DEF FiledByKey, Free
  <2>7. KeyIsClean' BY <1>3, <1>6, <2>1, <2>2 DEF KeyIsClean
  <2>8. AllOrNothing' /\ StepKnows' BY <1>2, <1>3, <2>3, SameTags DEF AllOrNothing, StepKnows, Free
  <2>9. AnsweredAtEnd' BY <1>4, <1>6, <2>1 DEF AnsweredAtEnd, Final
  <2>10. DecidedIsRecoverable'
    BY <1>2, <1>3, SameTags DEF DecidedIsRecoverable, Decided, Undecided, Free
  <2> QED BY <2>4, <2>5, <2>6, <2>7, <2>8, <2>9, <2>10
<1>7. "answered" \in Final /\ "conflict" \in Final BY DEF Final
<1>8. answer \in [Attempts -> Entry] BY <1>1 DEF TypeInv, TypeOK
<1> QED BY <1>5, <1>6, <1>7, <1>8 DEF LookUp, Stored

\* The journal entry is written where none was.
LEMMA WriteJournalJournal ==
  ASSUME ReplacementAssumption, JournalInv, SpendInv', NEW a \in Attempts, WriteJournal(a)
  PROVE  JournalInv' /\ journal[Key[a]] = None
<1> USE Names DEF JournalInv
<1>1. TypeInv BY DEF SpendInv
<1>2. /\ pc[a] = "signing" /\ cpu = Free /\ cpu.who = None /\ cpu.step = "idle"
      /\ UNCHANGED <<revoked, holdings, replay, answer>>
      /\ \A b \in Attempts : pc[b] \notin {"recovering", "committing"}
  BY IdleCpu DEF WriteJournal
<1>3. journal[Key[a]] = None /\ replay[Key[a]] = None /\ ~ Begun(a)
  BY <1>2 DEF KeyIsClean, Begun, Final
<1>4. CASE Respond(a, "failed") /\ UNCHANGED <<journal, cpu>>
  <2>1. "failed" \in Final BY DEF Final
  <2> QED BY <1>2, <1>3, <1>4, <2>1, EndJournal
<1>5. CASE /\ journal' = [journal EXCEPT ![Key[a]] = a]
           /\ cpu' = [who |-> a, txn |-> a, step |-> "register"]
           /\ pc' = [pc EXCEPT ![a] = "committing"]
           /\ ridLease' = IF a \in Anonymous THEN [ridLease EXCEPT ![Key[a]] = a] ELSE ridLease
  <2>1. /\ pc'[a] = "committing" /\ \A b \in Attempts : b # a => pc'[b] = pc[b]
        /\ journal'[Key[a]] = a /\ \A k \in Keys : k # Key[a] => journal'[k] = journal[k]
        /\ \A k \in Keys : k # Key[a] => ridLease'[k] = ridLease[k]
        /\ a \notin Anonymous => ridLease' = ridLease
    BY <1>1, <1>5 DEF TypeInv, TypeOK
  <2>2. \A b \in Attempts : Begun(b)' <=> Begun(b) \/ b = a BY <1>2, <2>1 DEF Begun, Final
  <2>3. LeaseHeld' BY <1>2, <1>5, <2>1 DEF LeaseHeld, Running
  <2>4. CpuOwner' BY <1>2, <1>5, <2>1 DEF CpuOwner
  <2>5. FiledByKey'
    BY <1>2, <1>3, <1>5, <2>1, <2>2, SameTags DEF FiledByKey
  <2>6. KeyIsClean'
    <3>1. ASSUME NEW b \in Attempts, pc'[b] \in {"checking", "signing"} PROVE Key[b] # Key[a]
      BY <1>2, <2>1, <3>1 DEF LeaseHeld, Running
    <3> QED BY <1>2, <2>1, <3>1 DEF KeyIsClean
  <2>7. AllOrNothing' BY <1>2, <2>2, SameTags DEF AllOrNothing
  <2>8. StepKnows' BY <1>2, <1>3, <1>5, SameTags DEF StepKnows, AllOrNothing
  <2>9. AnsweredAtEnd' BY <1>2, <2>1 DEF AnsweredAtEnd, Final
  <2>10. DecidedIsRecoverable'
    <3>1. ASSUME NEW t \in Attempts \ Anonymous, Decided(t)' PROVE (Decided(t) /\ Key[t] # Key[a]) \/ t = a
      <4>1. t # a => Decided(t)
        BY <1>2, <1>5, <2>1, <3>1, SameTags DEF Decided, Undecided
      <4>2. t # a /\ Decided(t) => journal[Key[t]] = t \/ replay[Key[t]] = t
        BY DEF DecidedIsRecoverable
      <4> QED BY <1>3, <4>1, <4>2
    <3> QED BY <1>2, <2>1, <3>1 DEF DecidedIsRecoverable
  <2> QED BY <1>3, <2>3, <2>4, <2>5, <2>6, <2>7, <2>8, <2>9, <2>10
<1> QED BY <1>4, <1>5 DEF WriteJournal

\* The stretch goes from one durable write to the next.
LEMMA NextWrite ==
  ASSUME ReplacementAssumption, JournalInv, NEW step \in Steps \ {"lookup"}, GoTo(step),
         cpu.step \notin {"idle", "lookup"}, UNCHANGED <<pc, ridLease, answer>>
  PROVE  /\ cpu'.step = step /\ cpu'.who = cpu.who /\ cpu'.txn = cpu.txn /\ cpu.txn \in Attempts
         /\ LeaseHeld' /\ CpuOwner' /\ AnsweredAtEnd'
         /\ \A b \in Attempts : Begun(b)' <=> Begun(b)
         /\ journal[Key[cpu.txn]] = cpu.txn
         /\ Begun(cpu.txn)
<1> USE Names DEF JournalInv
<1>1. TypeInv BY DEF SpendInv
<1>2. cpu'.step = step /\ cpu'.who = cpu.who /\ cpu'.txn = cpu.txn /\ cpu.txn \in Attempts
  BY <1>1 DEF GoTo, TypeInv, TypeOK, CpuTyped
<1>3. LeaseHeld' /\ CpuOwner' /\ AnsweredAtEnd'
  BY <1>2 DEF LeaseHeld, CpuOwner, AnsweredAtEnd, Steps
<1>4. \A b \in Attempts : Begun(b)' <=> Begun(b) BY DEF Begun
<1>5. journal[Key[cpu.txn]] = cpu.txn BY <1>2 DEF FiledByKey
<1>6. Begun(cpu.txn) BY <1>2, <1>5 DEF FiledByKey
<1> QED BY <1>2, <1>3, <1>4, <1>5, <1>6

LEMMA RegisterJournal ==
  ASSUME ReplacementAssumption, JournalInv, SpendInv', Register PROVE JournalInv'
<1> USE Names DEF JournalInv
<1>1. /\ cpu.step = "register" /\ UNCHANGED <<revoked, journal, replay, pc, ridLease, answer>>
      /\ \/ GoTo("revoke") /\ holdings' = holdings \cup {cpu.txn}
         \/ GoTo("unregister") /\ holdings' = holdings
  BY DEF Register, locks, request
<1>2. PICK step \in {"revoke", "unregister"} :
        /\ GoTo(step)
        /\ holdings' = IF step = "revoke" THEN holdings \cup {cpu.txn} ELSE holdings
  BY <1>1
<1>3. step \in Steps \ {"lookup"} BY DEF Steps
<1>4. /\ cpu'.step = step /\ cpu'.who = cpu.who /\ cpu'.txn = cpu.txn /\ cpu.txn \in Attempts
      /\ LeaseHeld' /\ CpuOwner' /\ AnsweredAtEnd'
      /\ \A b \in Attempts : Begun(b)' <=> Begun(b)
      /\ journal[Key[cpu.txn]] = cpu.txn
      /\ Begun(cpu.txn)
  BY <1>1, <1>2, <1>3, NextWrite
<1>5. FiledByKey' /\ KeyIsClean' BY <1>1, <1>2, <1>4, SameTags DEF FiledByKey, KeyIsClean
<1>6. AllOrNothing' BY <1>1, <1>2, <1>4, SameTags DEF AllOrNothing
<1>7. StepKnows' BY <1>1, <1>2, <1>4, SameTags DEF StepKnows
<1>8. DecidedIsRecoverable'
  BY <1>1, <1>2, <1>4, SameTags DEF DecidedIsRecoverable, Decided, Undecided
<1> QED BY <1>4, <1>5, <1>6, <1>7, <1>8

\* The atomic write of the revocation list spends all credentials of one
\* transaction and none of another.
LEMMA RevokeTags ==
  ASSUME ReplacementAssumption, TypeInv, cpu.txn \in Attempts,
         revoked' = revoked \cup (Preds[cpu.txn] \X {cpu.txn})
  PROVE  \A t \in Attempts : Tagged(t)' = IF t = cpu.txn THEN Tagged(t) \cup Preds[t] ELSE Tagged(t)
BY DEF Tagged, ReplacementAssumption

LEMMA RevokeJournal ==
  ASSUME ReplacementAssumption, JournalInv, SpendInv', Revoke PROVE JournalInv'
<1> USE Names DEF JournalInv
<1>0. TypeInv BY DEF SpendInv
<1>1. cpu.step = "revoke" /\ UNCHANGED <<journal, holdings, replay, pc, ridLease, answer>>
  BY DEF Revoke, locks, request
<1>2. CASE GoTo("finish") /\ revoked' = revoked \cup (Preds[cpu.txn] \X {cpu.txn})
  <2>1. /\ cpu'.step = "finish" /\ cpu'.who = cpu.who /\ cpu'.txn = cpu.txn /\ cpu.txn \in Attempts
        /\ LeaseHeld' /\ CpuOwner' /\ AnsweredAtEnd'
        /\ \A b \in Attempts : Begun(b)' <=> Begun(b)
        /\ journal[Key[cpu.txn]] = cpu.txn
        /\ Begun(cpu.txn)
    BY <1>1, <1>2, NextWrite DEF Steps
  <2>2. \A t \in Attempts : Tagged(t)' = IF t = cpu.txn THEN Preds[t] ELSE Tagged(t)
    <3>1. Tagged(cpu.txn) = {} BY <1>1, <2>1 DEF StepKnows
    <3>2. \A t \in Attempts : Tagged(t)' = IF t = cpu.txn THEN Tagged(t) \cup Preds[t] ELSE Tagged(t)
      BY ONLY <1>0, <1>2, <2>1, RevokeTags, ReplacementAssumption
    <3> QED BY ONLY <3>1, <3>2
  <2>3. \A t \in Attempts : Committed(t)' <=> Committed(t) \/ t = cpu.txn
    BY <2>2 DEF Committed
  <2>4. FiledByKey' /\ KeyIsClean' BY <1>1, <2>1, <2>3 DEF FiledByKey, KeyIsClean
  <2>5. AllOrNothing' BY <1>1, <2>1, <2>2 DEF AllOrNothing
  <2>6. StepKnows'
    <3>1. \A t \in Attempts : t = cpu.txn => Committed(t)' BY <2>3
    <3> QED BY <2>1, <3>1 DEF StepKnows, Committed, Tagged
  <2>7. DecidedIsRecoverable'
    BY <1>1, <2>1, <2>2 DEF DecidedIsRecoverable, Decided, Undecided
  <2> QED BY <2>1, <2>4, <2>5, <2>6, <2>7
<1>3. CASE GoTo("unregister") /\ Preds[cpu.txn] # {} /\ UNCHANGED revoked
  <2>1. /\ cpu'.step = "unregister" /\ cpu'.who = cpu.who /\ cpu'.txn = cpu.txn
        /\ cpu.txn \in Attempts /\ LeaseHeld' /\ CpuOwner' /\ AnsweredAtEnd'
        /\ \A b \in Attempts : Begun(b)' <=> Begun(b)
    BY <1>1, <1>3, NextWrite DEF Steps
  <2>2. FiledByKey' /\ KeyIsClean' BY <1>1, <1>3, <2>1, SameTags DEF FiledByKey, KeyIsClean
  <2>3. AllOrNothing' BY <1>1, <1>3, <2>1, SameTags DEF AllOrNothing
  <2>4. StepKnows' BY <1>1, <1>3, <2>1, SameTags DEF StepKnows, IsIssue
  <2>5. DecidedIsRecoverable'
    BY <1>1, <1>3, <2>1, SameTags DEF DecidedIsRecoverable, Decided, Undecided
  <2> QED BY <2>1, <2>2, <2>3, <2>4, <2>5
<1> QED BY <1>1, <1>2, <1>3 DEF Revoke

LEMMA FinishRegisterJournal ==
  ASSUME ReplacementAssumption, JournalInv, SpendInv', FinishRegister PROVE JournalInv'
<1> USE Names DEF JournalInv
<1>1. cpu.step = "finish" /\ UNCHANGED <<revoked, journal, replay>> BY DEF FinishRegister
<1>2. CASE Continue("threw") /\ UNCHANGED holdings BY <1>1, <1>2, ContinueJournal
<1>3. CASE GoTo("store") /\ holdings' = holdings \cup {cpu.txn} /\ UNCHANGED <<locks, pc, answer>>
  <2>1. /\ cpu'.step = "store" /\ cpu'.who = cpu.who /\ cpu'.txn = cpu.txn /\ cpu.txn \in Attempts
        /\ LeaseHeld' /\ CpuOwner' /\ AnsweredAtEnd'
        /\ \A b \in Attempts : Begun(b)' <=> Begun(b)
        /\ journal[Key[cpu.txn]] = cpu.txn
        /\ Begun(cpu.txn)
    BY <1>1, <1>3, NextWrite DEF Steps, locks
  <2>2. UNCHANGED pc BY <1>3
  <2>3. FiledByKey' /\ KeyIsClean' BY <1>1, <2>1, <2>2, SameTags DEF FiledByKey, KeyIsClean
  <2>4. AllOrNothing' BY <1>1, <1>3, <2>1, SameTags DEF AllOrNothing
  <2>5. StepKnows' BY <1>1, <1>3, <2>1, SameTags DEF StepKnows
  <2>6. DecidedIsRecoverable'
    BY <1>1, <1>3, <2>1, SameTags DEF DecidedIsRecoverable, Decided, Undecided
  <2> QED BY <2>1, <2>3, <2>4, <2>5, <2>6
<1> QED BY <1>2, <1>3 DEF FinishRegister

LEMMA StoreReplayJournal ==
  ASSUME ReplacementAssumption, JournalInv, SpendInv', StoreReplay PROVE JournalInv'
<1> USE Names DEF JournalInv
<1>0. TypeInv BY DEF SpendInv
<1>1. cpu.step = "store" /\ UNCHANGED <<revoked, journal, holdings>> BY DEF StoreReplay
<1>2. CASE Continue("threw") /\ UNCHANGED replay BY <1>1, <1>2, ContinueJournal
<1>3. CASE /\ GoTo("remove") /\ UNCHANGED <<locks, pc, answer>>
           /\ replay' = IF cpu.txn \in Anonymous THEN replay
                        ELSE [replay EXCEPT ![Key[cpu.txn]] = cpu.txn]
  <2>1. /\ cpu'.step = "remove" /\ cpu'.who = cpu.who /\ cpu'.txn = cpu.txn /\ cpu.txn \in Attempts
        /\ LeaseHeld' /\ CpuOwner' /\ AnsweredAtEnd'
        /\ \A b \in Attempts : Begun(b)' <=> Begun(b)
        /\ journal[Key[cpu.txn]] = cpu.txn
        /\ Begun(cpu.txn)
    BY <1>1, <1>3, NextWrite DEF Steps, locks
  <2>2. UNCHANGED pc BY <1>3
  <2>3. /\ \A k \in Keys : replay'[k] = IF cpu.txn \notin Anonymous /\ k = Key[cpu.txn]
                                        THEN cpu.txn ELSE replay[k]
        /\ Committed(cpu.txn)
    BY <1>0, <1>1, <1>3, <2>1 DEF TypeInv, TypeOK, StepKnows
  <2>4. FiledByKey' BY <1>1, <2>1, <2>3, SameTags DEF FiledByKey
  <2>5. KeyIsClean' BY <1>1, <2>1, <2>2, <2>3 DEF KeyIsClean
  <2>6. AllOrNothing' BY <1>1, <2>1, SameTags DEF AllOrNothing
  <2>7. StepKnows' BY <1>1, <2>1, <2>3, SameTags DEF StepKnows
  <2>8. ASSUME NEW t \in Attempts \ Anonymous, Decided(t)'
        PROVE  journal'[Key[t]] = t \/ replay'[Key[t]] = t
    <3>1. t = cpu.txn \/ Decided(t) BY <1>1, <2>1, <2>3, <2>8, SameTags DEF Decided, Undecided
    <3>2. t # cpu.txn /\ Key[t] = Key[cpu.txn] => replay[Key[t]] # t
      BY <2>1 DEF FiledByKey
    <3> QED BY <1>1, <2>1, <2>3, <3>1, <3>2 DEF DecidedIsRecoverable
  <2> QED BY <2>1, <2>4, <2>5, <2>6, <2>7, <2>8 DEF DecidedIsRecoverable
<1> QED BY <1>2, <1>3 DEF StoreReplay

LEMMA UnregisterJournal ==
  ASSUME ReplacementAssumption, JournalInv, SpendInv', Unregister PROVE JournalInv'
<1> USE Names DEF JournalInv
<1>1. /\ cpu.step = "unregister" /\ UNCHANGED <<revoked, journal, replay, pc, ridLease, answer>>
      /\ GoTo("drop") /\ holdings' \in {holdings, holdings \ {cpu.txn}}
  BY DEF Unregister, locks, request
<1>2. /\ cpu'.step = "drop" /\ cpu'.who = cpu.who /\ cpu'.txn = cpu.txn /\ cpu.txn \in Attempts
      /\ LeaseHeld' /\ CpuOwner' /\ AnsweredAtEnd'
      /\ \A b \in Attempts : Begun(b)' <=> Begun(b)
  BY <1>1, NextWrite DEF Steps
<1>3. FiledByKey' /\ KeyIsClean' BY <1>1, <1>2, SameTags DEF FiledByKey, KeyIsClean
<1>4. AllOrNothing' BY <1>1, <1>2, SameTags DEF AllOrNothing
<1>5. StepKnows' BY <1>1, <1>2, SameTags DEF StepKnows
<1>6. DecidedIsRecoverable'
  BY <1>1, <1>2, SameTags DEF DecidedIsRecoverable, Decided, Undecided
<1> QED BY <1>2, <1>3, <1>4, <1>5, <1>6

\* Files survive a stop; everything that spoke of locks and stretches is over.
LEMMA CrashJournal ==
  ASSUME ReplacementAssumption, JournalInv, SpendInv', Crash PROVE JournalInv'
<1> USE Names DEF JournalInv
<1>1. UNCHANGED <<revoked, journal, holdings, replay, answer>> /\ cpu' = Free BY DEF Crash, durable
<1>2. \A a \in Attempts : pc'[a] = IF pc[a] \in Running THEN "lost" ELSE pc[a] BY DEF Crash
<1>3. /\ \A a \in Attempts : pc'[a] \notin Running
      /\ \A a \in Attempts : Begun(a) => Begun(a)'
  BY <1>2 DEF Running, Begun, Final
<1>4. FiledByKey' /\ KeyIsClean' /\ AllOrNothing' /\ StepKnows' /\ DecidedIsRecoverable'
  <2>1. cpu'.step = "idle" BY <1>1 DEF Free
  <2> QED BY <1>1, <1>3, <2>1, Resolved DEF Running
<1>5. LeaseHeld' /\ CpuOwner' BY <1>1, <1>3 DEF LeaseHeld, CpuOwner, Free, Running
<1>6. AnsweredAtEnd' BY <1>1, <1>2 DEF AnsweredAtEnd, Final
<1> QED BY <1>4, <1>5, <1>6

LEMMA AdminRevokeJournal ==
  ASSUME ReplacementAssumption, JournalInv, SpendInv', NEW c \in Creds, AdminRevoke(c)
  PROVE  JournalInv'
<1> USE Names DEF JournalInv
<1>1. /\ UNCHANGED <<journal, holdings, replay, locks, request, cpu>>
      /\ revoked' = revoked \cup {<<c, Admin>>}
  BY DEF AdminRevoke
<1>2. UNCHANGED <<pc, ridLease, answer>> BY <1>1 DEF locks, request
<1>3. \A t \in Attempts : Tagged(t)' = Tagged(t) BY <1>1 DEF Tagged, ReplacementAssumption
<1>4. \A t \in Attempts : /\ Committed(t)' <=> Committed(t)
                          /\ Begun(t)' <=> Begun(t)
  BY <1>2, <1>3 DEF Committed, Begun
<1>5. LeaseHeld' /\ CpuOwner' /\ KeyIsClean' /\ AnsweredAtEnd'
  BY <1>1, <1>2 DEF LeaseHeld, CpuOwner, KeyIsClean, AnsweredAtEnd
<1>6. FiledByKey' BY <1>1, <1>4 DEF FiledByKey
<1>7. AllOrNothing' BY <1>1, <1>3, <1>4 DEF AllOrNothing
<1>8. StepKnows'
  <2>1. cpu.step \notin {"idle", "lookup"} => cpu.txn \in Attempts
    BY DEF SpendInv, TypeInv, CpuTyped
  <2>2. Tagged(cpu.txn)' = {d \in Creds : <<d, cpu.txn>> \in revoked'} BY <1>1 DEF Tagged
  <2>3. cpu.txn \in Attempts => Tagged(cpu.txn)' = Tagged(cpu.txn)
    BY <1>1, <2>2 DEF Tagged, ReplacementAssumption
  <2>4. cpu.txn \in Attempts => (Committed(cpu.txn)' <=> Committed(cpu.txn))
    BY <1>1, <2>3 DEF Committed
  <2> QED BY <1>1, <2>1, <2>3, <2>4 DEF StepKnows
<1>9. DecidedIsRecoverable' BY <1>1, <1>3 DEF DecidedIsRecoverable, Decided, Undecided
<1> QED BY <1>5, <1>6, <1>7, <1>8, <1>9

LEMMA JournalNext ==
  ASSUME ReplacementAssumption, MayLapse = FALSE, JournalInv, [Next]_vars
  PROVE  JournalInv'
<1>0. SpendInv /\ TypeInv BY DEF JournalInv, SpendInv
<1>1. SpendInv' BY <1>0, SpendNext
<1>2. ASSUME NEW a \in Attempts, Arrive(a) PROVE JournalInv'
  BY <1>1, <1>2, MoveJournal DEF Arrive, locks
<1>3. ASSUME NEW a \in Attempts, NEW c \in Creds, TakeSpendLock(a, c) PROVE JournalInv'
  <2>1. /\ SpendInv' /\ UNCHANGED <<durable, ridLease, pc, answer, cpu>>
    BY <1>1, <1>3 DEF TakeSpendLock
  <2>2. UNCHANGED <<revoked, journal, holdings, replay>> BY <2>1 DEF durable
  <2>3. LeaseHeld' /\ CpuOwner' /\ KeyIsClean' /\ AnsweredAtEnd'
    BY <2>1, <2>2 DEF JournalInv, LeaseHeld, CpuOwner, KeyIsClean, AnsweredAtEnd
  <2>4. FiledByKey' /\ AllOrNothing' /\ StepKnows' /\ DecidedIsRecoverable'
    BY <2>1, <2>2, SameTags
       DEF JournalInv, FiledByKey, AllOrNothing, StepKnows, DecidedIsRecoverable, Decided, Undecided, Begun
  <2> QED BY <1>1, <2>3, <2>4 DEF JournalInv
<1>4. ASSUME NEW a \in Attempts, NEW outcome \in Final, Ready, Respond(a, outcome),
             UNCHANGED <<durable, answer, cpu>>
      PROVE  JournalInv'
  <2>1. cpu' = Free /\ cpu.who = None BY <1>0, <1>4, IdleCpu
  <2>2. UNCHANGED <<revoked, journal, holdings, replay>> BY <1>4 DEF durable
  <2> QED BY <1>1, <1>4, <2>1, <2>2, EndJournal
<1>5. ASSUME NEW a \in Attempts, GiveUp(a) PROVE JournalInv'
  BY <1>4, <1>5 DEF GiveUp, Final
<1>6. ASSUME NEW a \in Attempts, Lapse(a) PROVE JournalInv'
  BY <1>6 DEF Lapse
<1>7. ASSUME NEW a \in Attempts, TakeLease(a) PROVE JournalInv'
  BY <1>1, <1>7, TakeLeaseJournal
<1>8. ASSUME NEW a \in Attempts, SkipLease(a) PROVE JournalInv'
  BY <1>1, <1>8, MoveJournal DEF SkipLease, locks
<1>9. ASSUME NEW a \in Attempts, LookUp(a) PROVE JournalInv'
  BY <1>1, <1>9, LookUpJournal
<1>10. ASSUME NEW a \in Attempts, NEW c \in Creds, CheckCredential(a, c) PROVE JournalInv'
  <2>1. CASE Respond(a, "revoked")
    BY <1>4, <1>10, <2>1 DEF CheckCredential, Final
  <2>2. CASE pc' = [pc EXCEPT ![a] = IF checked'[a] = Preds[a] THEN "signing" ELSE @] /\ UNCHANGED locks
    <3>1. pc[a] = "checking" /\ UNCHANGED <<durable, answer, cpu>> BY <1>10 DEF CheckCredential
    <3>2. pc' = [pc EXCEPT ![a] = "signing"] \/ UNCHANGED pc
      BY <1>0, <2>2, <3>1 DEF TypeInv, TypeOK
    <3> QED BY <1>1, <2>2, <3>1, <3>2, MoveJournal DEF locks
  <2> QED BY <1>10, <2>1, <2>2 DEF CheckCredential
<1>11. ASSUME NEW a \in Attempts, CheckCap(a) PROVE JournalInv'
  <2>1. CASE Respond(a, "capped")
    BY <1>4, <1>11, <2>1 DEF CheckCap, Final
  <2>2. CASE ~ Respond(a, "capped")
    BY <1>1, <1>11, <2>2, MoveJournal DEF CheckCap
  <2> QED BY <2>1, <2>2
<1>12. ASSUME NEW a \in Attempts, SigningFails(a) PROVE JournalInv'
  BY <1>4, <1>12 DEF SigningFails, Final
<1>13. ASSUME NEW a \in Attempts, WriteJournal(a) PROVE JournalInv'
  BY <1>1, <1>13, WriteJournalJournal
<1>14. ASSUME Register PROVE JournalInv' BY <1>1, <1>14, RegisterJournal
<1>15. ASSUME Revoke PROVE JournalInv' BY <1>1, <1>15, RevokeJournal
<1>16. ASSUME FinishRegister PROVE JournalInv' BY <1>1, <1>16, FinishRegisterJournal
<1>17. ASSUME StoreReplay PROVE JournalInv' BY <1>1, <1>17, StoreReplayJournal
<1>18. ASSUME RemoveJournal PROVE JournalInv'
  BY <1>1, <1>18, ContinueJournal DEF RemoveJournal
<1>19. ASSUME Unregister PROVE JournalInv' BY <1>1, <1>19, UnregisterJournal
<1>20. ASSUME DropJournal PROVE JournalInv'
  BY <1>1, <1>20, ContinueJournal DEF DropJournal
<1>21. ASSUME NEW k \in Keys, SweepTakes(k) PROVE JournalInv'
  BY <1>1, <1>21, SweepTakesJournal
<1>22. ASSUME NEW c \in Creds, AdminRevoke(c) PROVE JournalInv'
  BY <1>1, <1>22, AdminRevokeJournal
<1>23. ASSUME Crash PROVE JournalInv' BY <1>1, <1>23, CrashJournal
<1>24. CASE UNCHANGED vars
  <2>1. UNCHANGED <<revoked, journal, holdings, replay, ridLease, pc, answer, cpu>>
    BY <1>24 DEF vars, durable, locks, request
  <2>2. LeaseHeld' /\ CpuOwner' /\ KeyIsClean' /\ AnsweredAtEnd'
    BY <2>1 DEF JournalInv, LeaseHeld, CpuOwner, KeyIsClean, AnsweredAtEnd
  <2>3. FiledByKey' /\ AllOrNothing' /\ StepKnows' /\ DecidedIsRecoverable'
    BY <2>1, SameTags
       DEF JournalInv, FiledByKey, AllOrNothing, StepKnows, DecidedIsRecoverable, Decided, Undecided, Begun
  <2> QED BY <1>1, <2>2, <2>3 DEF JournalInv
<1> QED
  BY <1>2, <1>3, <1>5, <1>6, <1>7, <1>8, <1>9, <1>10, <1>11, <1>12, <1>13, <1>14, <1>15, <1>16,
     <1>17, <1>18, <1>19, <1>20, <1>21, <1>22, <1>23, <1>24 DEF Next, Protocol, Advance

LEMMA JournalCorrect == MayLapse = FALSE => (Spec => []JournalInv)
<1> SUFFICES ASSUME MayLapse = FALSE PROVE Spec => []JournalInv OBVIOUS
<1>1. Init => JournalInv BY JournalInit, ReplacementAssumption
<1>2. JournalInv /\ [Next]_vars => JournalInv' BY JournalNext, ReplacementAssumption
<1> QED BY <1>1, <1>2, PTL DEF Spec

\* From the commit point on the signed result is in the journal or in the
\* replay store, whatever stops or fails (txnWrite before revokeMany,
\* replayStore before the entry is removed).
THEOREM ResultSurvives == MayLapse = FALSE => (Spec => []DecidedIsRecoverable)
<1>1. JournalInv => DecidedIsRecoverable BY DEF JournalInv
<1> QED BY <1>1, JournalCorrect, PTL

-----------------------------------------------------------------------------
(* What a step may do.                                                     *)

LEMMA JournalSteps ==
  ASSUME ReplacementAssumption, JournalInv, [Next]_vars, NEW k \in Keys, journal[k] # None
  PROVE  journal'[k] \in {journal[k], None}
<1>1. TypeOK BY DEF JournalInv, SpendInv, TypeInv
<1>2. ASSUME NEW a \in Attempts, WriteJournal(a) PROVE journal'[k] \in {journal[k], None}
  <2>1. pc[a] = "signing" BY <1>2 DEF WriteJournal
  <2>2. journal[Key[a]] = None BY <2>1 DEF JournalInv, KeyIsClean
  <2> QED BY <1>1, <1>2, <2>2 DEF WriteJournal, TypeOK
<1>3. ASSUME RemoveJournal \/ DropJournal PROVE journal'[k] \in {journal[k], None}
  BY <1>1, <1>3 DEF RemoveJournal, DropJournal, TypeOK
<1>4. CASE UNCHANGED journal BY <1>4
<1>5. \/ UNCHANGED journal
      \/ RemoveJournal \/ DropJournal
      \/ \E a \in Attempts : WriteJournal(a)
  BY DEF Next, Protocol, Advance, vars, durable, Register, Revoke, FinishRegister, StoreReplay,
     Unregister, Arrive, TakeSpendLock, CheckCredential, GiveUp, TakeLease, SkipLease, LookUp,
     CheckCap, SigningFails, Lapse, SweepTakes, AdminRevoke, Crash
<1> QED BY <1>2, <1>3, <1>4, <1>5

\* A pending journal entry is resolved, never replaced by another request's:
\* whoever writes found its key clean under the lease (beginReplacement).
THEOREM EntriesAreResolved == MayLapse = FALSE => (Spec => JournalNotOverwritten)
<1>1. JournalInv /\ [Next]_vars =>
        [\A k \in Keys : journal[k] # None => journal'[k] \in {journal[k], None}]_vars
  BY JournalSteps, ReplacementAssumption
<1> QED BY <1>1, JournalCorrect, PTL DEF Spec, JournalNotOverwritten

RetryInv == JournalInv /\ RetryNeverRefused

LEMMA RetryNext ==
  ASSUME ReplacementAssumption, MayLapse = FALSE, RetryInv, [Next]_vars
  PROVE  RetryInv'
<1>1. JournalInv' BY JournalNext DEF RetryInv
<1>2. TypeOK BY DEF RetryInv, JournalInv, SpendInv, TypeInv
<1>3. revoked \subseteq revoked'
  <2>1. CASE Protocol
    BY <2>1 DEF Protocol, durable, Register, Revoke, FinishRegister, StoreReplay, RemoveJournal,
       Unregister, DropJournal
  <2>2. ASSUME NEW a \in Attempts, Advance(a) PROVE UNCHANGED revoked
    BY <2>2 DEF Advance, durable, WriteJournal, TakeSpendLock, CheckCredential, GiveUp, TakeLease,
       SkipLease, LookUp, CheckCap, SigningFails
  <2> QED BY <2>1, <2>2 DEF Next, vars, durable, Arrive, Lapse, SweepTakes, AdminRevoke, Crash
<1>4. ASSUME NEW a \in Attempts \ Anonymous, pc'[a] = "revoked", pc[a] # "revoked"
      PROVE  /\ pc[a] = "checking"
             /\ \E c \in Preds[a] : IsRevoked(c)
             /\ UNCHANGED revoked
  <2>1. ASSUME NEW b \in Attempts, NEW c \in Creds, CheckCredential(b, c)
        PROVE  /\ pc[a] = "checking"
               /\ \E d \in Preds[a] : IsRevoked(d)
               /\ UNCHANGED revoked
    <3>1. /\ pc[b] = "checking" /\ c \in Preds[b] /\ UNCHANGED revoked
          /\ \/ IsRevoked(c) /\ pc' = [pc EXCEPT ![b] = "revoked"]
             \/ pc' = [pc EXCEPT ![b] = IF checked'[b] = Preds[b] THEN "signing" ELSE @]
      BY <2>1 DEF CheckCredential, Respond, durable
    <3>2. a = b /\ pc'[b] = "revoked" BY <1>2, <1>4, <3>1 DEF TypeOK
    <3>3. IsRevoked(c) BY <1>2, <3>1, <3>2 DEF TypeOK
    <3> QED BY <3>1, <3>2, <3>3
  <2>2. CASE \E to \in {"locking", "recovering", "checking", "signing", "committing", "answered",
                       "conflict", "failed", "busy", "capped"}, b \in Attempts :
               pc' = [pc EXCEPT ![b] = to]
    BY <1>2, <1>4, <2>2 DEF TypeOK
  <2>3. CASE UNCHANGED pc BY <1>4, <2>3
  <2>4. ASSUME Crash PROVE FALSE BY <1>2, <1>4, <2>4 DEF Crash, TypeOK
  <2>5. ASSUME NEW outcome, Continue(outcome) \/ (GoTo(outcome) /\ UNCHANGED <<locks, pc, answer>>)
        PROVE  \/ UNCHANGED pc
               \/ \E to \in {"answered", "failed"}, b \in Attempts : pc' = [pc EXCEPT ![b] = to]
    BY <2>5 DEF Continue, Respond
  <2>6. ASSUME Protocol
        PROVE  \/ UNCHANGED pc
               \/ \E to \in {"answered", "failed"}, b \in Attempts : pc' = [pc EXCEPT ![b] = to]
    BY <2>5, <2>6 DEF Protocol, Register, Revoke, FinishRegister, StoreReplay, RemoveJournal,
       Unregister, DropJournal, request
  <2>7. ASSUME NEW b \in Attempts, Arrive(b) \/ Advance(b) \/ Lapse(b)
        PROVE  \/ \E c \in Creds : CheckCredential(b, c)
               \/ UNCHANGED pc
               \/ \E to \in {"locking", "recovering", "checking", "signing", "committing",
                             "answered", "conflict", "failed", "busy", "capped"} :
                    pc' = [pc EXCEPT ![b] = to]
    BY <2>7 DEF Arrive, Advance, Lapse, TakeSpendLock, GiveUp, TakeLease, SkipLease, LookUp,
       CheckCap, SigningFails, WriteJournal, Respond
  <2>8. ASSUME NEW k \in Keys, SweepTakes(k) PROVE UNCHANGED pc BY <2>8 DEF SweepTakes, request
  <2>9. ASSUME NEW c \in Creds, AdminRevoke(c) PROVE UNCHANGED pc BY <2>9 DEF AdminRevoke, request
  <2> QED BY <2>1, <2>2, <2>3, <2>4, <2>6, <2>7, <2>8, <2>9 DEF Next, vars, request
<1>5. ASSUME NEW a \in Attempts \ Anonymous, pc'[a] = "revoked"
      PROVE  \E c \in Preds[a] : \E t \in Attempts \cup {Admin} :
               <<c, t>> \in revoked' /\ ~ (t \in Attempts /\ Key[t] = Key[a] /\ Same(a, t))
  <2>1. CASE pc[a] = "revoked"
    <3>1. PICK c \in Preds[a], t \in Attempts \cup {Admin} :
            <<c, t>> \in revoked /\ ~ (t \in Attempts /\ Key[t] = Key[a] /\ Same(a, t))
      BY <2>1, Zenon DEF RetryInv, RetryNeverRefused
    <3> QED BY <1>3, <3>1
  <2>2. CASE pc[a] # "revoked"
    <3>1. PICK c \in Preds[a], t \in Attempts \cup {Admin} : <<c, t>> \in revoked
      BY <1>4, <1>5, <2>2 DEF IsRevoked
    <3>2. pc[a] = "checking" /\ UNCHANGED revoked BY <1>4, <1>5, <2>2
    <3>3. c \in Creds BY DEF ReplacementAssumption
    <3>4. ASSUME t \in Attempts, Key[t] = Key[a] PROVE FALSE
      <4>1. c \in Tagged(t) BY <3>1, <3>3 DEF Tagged
      <4>2. Tagged(t) = Preds[t] /\ Preds[t] # {}
        BY <3>4, <4>1 DEF RetryInv, JournalInv, AllOrNothing
      <4>3. t \notin Anonymous BY <3>4, Names
      <4>4. Decided(t) BY <4>2 DEF Decided, IsIssue
      <4>5. journal[Key[t]] = t \/ replay[Key[t]] = t
        BY <3>4, <4>3, <4>4 DEF RetryInv, JournalInv, DecidedIsRecoverable
      <4>6. journal[Key[a]] = None /\ replay[Key[a]] = None
        BY <3>2 DEF RetryInv, JournalInv, KeyIsClean
      <4> QED BY <3>4, <4>5, <4>6, Names
    <3> QED BY <3>1, <3>2, <3>4
  <2> QED BY <2>1, <2>2
<1>6. RetryNeverRefused' BY <1>5 DEF RetryNeverRefused, Same
<1> QED BY <1>1, <1>6 DEF RetryInv

\* Who repeats a request that went through is never told that the credentials
\* are revoked already, unless something else revoked one.
THEOREM RepeatIsNotRefused == MayLapse = FALSE => (Spec => []RetryNeverRefused)
<1> SUFFICES ASSUME MayLapse = FALSE PROVE Spec => []RetryNeverRefused OBVIOUS
<1>1. Init => RetryInv
  <2>1. Init => JournalInv BY JournalInit, ReplacementAssumption
  <2> QED BY <2>1 DEF Init, RetryInv, RetryNeverRefused
<1>2. RetryInv /\ [Next]_vars => RetryInv' BY RetryNext, ReplacementAssumption
<1>3. RetryInv => RetryNeverRefused BY DEF RetryInv
<1> QED BY <1>1, <1>2, <1>3, PTL DEF Spec

-----------------------------------------------------------------------------
(* The refinement of AtomicReplacement.  Each step of the protocol decides *)
(* one transaction (a Commit), sends one answer (a Reply), or changes      *)
(* nothing of either.                                                      *)

Spent == {p \in revoked : p[2] \in Attempts}
Happened == {t \in Attempts : Decided(t)}

\* A step that decides nothing and answers nobody.
LEMMA Stutters ==
  ASSUME Spent' = Spent, \A t \in Attempts : Decided(t)' <=> Decided(t), answer' = answer
  PROVE  UNCHANGED Atomic!vars
<1>1. Happened' = Happened BY DEF Happened
<1> QED BY <1>1 DEF Atomic!vars, Spent, Happened

\* The running code is about to decide t, or to give it up.
LEMMA CommitSteps ==
  ASSUME ReplacementAssumption, JournalInv, NEW t \in Attempts,
         cpu.txn = t, cpu.step \in {"register", "revoke", "unregister", "drop"},
         ~ Decided(t), Decided(t)',
         \A s \in Attempts : s # t => (Decided(s)' <=> Decided(s)),
         revoked' = revoked \cup (Preds[t] \X {t}),
         Preds[t] = {} \/ cpu.step = "revoke",
         answer' = answer
  PROVE  Atomic!Commit(t, FALSE)
<1> USE Names DEF JournalInv
<1>1. journal[Key[t]] = t /\ replay[Key[t]] = None BY DEF FiledByKey, StepKnows
<1>2. ASSUME NEW s \in Attempts, Decided(s), Key[s] = Key[t] PROVE FALSE
  <2>1. s # t BY <1>2
  <2>2. s \notin Anonymous BY <1>2, <2>1
  <2>3. journal[Key[s]] = s \/ replay[Key[s]] = s BY <1>2, <2>2 DEF DecidedIsRecoverable
  <2> QED BY <1>1, <1>2, <2>1, <2>3
<1>3. \A c \in Preds[t], s \in Attempts : <<c, s>> \notin revoked
  <2>1. CASE Preds[t] = {} BY <2>1
  <2>2. CASE cpu.step = "revoke"
    <3>1. cpu.who = t /\ pc[t] = "committing" BY <2>2 DEF SpendInv, CommitsOwn
    <3>2. checked[t] = Preds[t] BY <3>1 DEF SpendInv, ChecksUnderLock
    <3> QED BY <2>2, <3>1, <3>2 DEF SpendInv, CheckedUnspent, Spending
  <2> QED BY <2>1, <2>2
<1>4. Happened' = Happened \cup {t} BY DEF Happened
<1>5. Spent' = Spent \cup (Preds[t] \X {t}) BY DEF Spent
<1> QED BY <1>2, <1>3, <1>4, <1>5 DEF Atomic!Commit, Spent, Happened

LEMMA ReplySteps ==
  ASSUME ReplacementAssumption, NEW a \in Attempts, NEW t \in Attempts,
         answer[a] = None, Decided(t), Key[t] = Key[a], Same(a, t),
         answer' = [answer EXCEPT ![a] = t],
         Spent' = Spent, \A s \in Attempts : Decided(s)' <=> Decided(s)
  PROVE  Atomic!Reply(a, t)
<1>1. Happened' = Happened BY DEF Happened
<1> QED BY <1>1 DEF Atomic!Reply, Same, Spent, Happened

LEMMA InitMaps == Init => Atomic!Init
<1> SUFFICES ASSUME Init PROVE Atomic!Init OBVIOUS
<1>1. \A t \in Attempts : ~ Decided(t)
  <2>1. \A t \in Attempts : Tagged(t) = {} BY DEF Init, Tagged
  <2>2. \A t \in Attempts : t # None /\ Key[t] \in Keys
    BY ReplacementAssumption DEF ReplacementAssumption
  <2> QED BY <2>1, <2>2 DEF Init, Decided, IsIssue
<1>2. Happened = {} /\ Spent = {} BY <1>1 DEF Happened, Spent, Init
<1> QED BY <1>2 DEF Atomic!Init, Init, Happened, Spent

\* The transaction being finished has been decided.
LEMMA FinishedIsDecided ==
  ASSUME ReplacementAssumption, JournalInv, cpu.step \in {"finish", "store", "remove"}
  PROVE  cpu.txn \in Attempts /\ Decided(cpu.txn)
<1>1. cpu.txn \in Attempts BY DEF JournalInv, SpendInv, TypeInv, CpuTyped
<1>2. journal[Key[cpu.txn]] = cpu.txn BY DEF JournalInv, FiledByKey
<1>3. Committed(cpu.txn) BY DEF JournalInv, StepKnows
<1> QED BY <1>1, <1>2, <1>3 DEF Decided, Undecided, Committed, IsIssue

\* The end of the work on a decided transaction answers its own request, if
\* that is the one at work.
LEMMA FinishMaps ==
  ASSUME ReplacementAssumption, JournalInv, NEW outcome \in {"threw", "finished"}, Continue(outcome),
         cpu.step \in {"finish", "store", "remove"}, UNCHANGED <<revoked, holdings, replay>>,
         \/ journal' = journal
         \/ cpu.step = "remove" /\ journal' = [journal EXCEPT ![Key[cpu.txn]] = None]
  PROVE  Atomic!Next \/ UNCHANGED Atomic!vars
<1> USE Names DEF JournalInv
<1>1. TypeInv BY DEF SpendInv
<1>2. Spent' = Spent BY DEF Spent
<1>3. cpu'.step \in {"idle", "lookup"} BY <1>1 DEF Continue, GoTo, Free, TypeInv, TypeOK
<1>4. cpu.txn \in Attempts /\ Decided(cpu.txn) BY FinishedIsDecided
<1>5. \A t \in Attempts : Decided(t)' <=> Decided(t)
  <2>1. CASE journal' = journal BY <1>3, <2>1, SameTags DEF Decided, Undecided
  <2>2. CASE cpu.step = "remove" /\ journal' = [journal EXCEPT ![Key[cpu.txn]] = None]
    <3>1. \A t \in Attempts : t # cpu.txn /\ Key[t] = Key[cpu.txn] => journal[Key[t]] # t
      BY <2>2 DEF FiledByKey
    <3>2. \A t \in Attempts : journal'[Key[t]] =
            IF Key[t] = Key[cpu.txn] THEN None ELSE journal[Key[t]]
      BY <1>1, <2>2 DEF TypeInv, TypeOK
    <3>3. IsIssue(cpu.txn) => cpu.txn \in holdings BY <2>2 DEF StepKnows
    <3> QED BY <1>3, <2>2, <3>1, <3>2, <3>3, SameTags DEF Decided, Undecided
  <2> QED BY <2>1, <2>2
<1>6. CASE answer' = answer BY <1>2, <1>5, <1>6, Stutters
<1>7. CASE /\ cpu.who \in Attempts /\ pc[cpu.who] = "committing"
           /\ answer' = [answer EXCEPT ![cpu.who] = cpu.txn]
  <2>1. cpu.txn = cpu.who BY <1>7 DEF CpuOwner
  <2>2. answer[cpu.who] = None BY <1>7 DEF AnsweredAtEnd, Final
  <2>3. Atomic!Reply(cpu.txn, cpu.txn)
    BY <1>2, <1>4, <1>5, <1>7, <2>1, <2>2, ReplySteps DEF Same
  <2> QED BY <1>4, <2>3 DEF Atomic!Next
<1> QED BY <1>6, <1>7 DEF Continue

\* Steps that touch no file and send no answer decide nothing, unless they
\* take the cpu from an issue that is not decided yet.
LEMMA QuietMaps ==
  ASSUME ReplacementAssumption, TypeInv, UNCHANGED <<durable, answer>>,
         \A t \in Attempts : IsIssue(t) => (Undecided(t)' <=> Undecided(t))
  PROVE  UNCHANGED Atomic!vars
<1>1. UNCHANGED <<revoked, journal, holdings, replay>> BY DEF durable
<1>2. \A t \in Attempts : Decided(t)' <=> Decided(t) BY <1>1, SameTags DEF Decided
<1>3. Spent' = Spent BY <1>1 DEF Spent
<1> QED BY <1>2, <1>3, Stutters

LEMMA RequestMaps ==
  ASSUME ReplacementAssumption, JournalInv, NEW a \in Attempts,
         Arrive(a) \/ Advance(a) \/ Lapse(a)
  PROVE  Atomic!Next \/ UNCHANGED Atomic!vars
<1> USE Names DEF JournalInv
<1>1. TypeInv BY DEF SpendInv
<1>2. CASE UNCHANGED <<durable, answer, cpu>>
  BY <1>1, <1>2, QuietMaps DEF Undecided
<1>3. ASSUME TakeLease(a) PROVE UNCHANGED Atomic!vars
  <2>1. /\ cpu.step = "idle" /\ UNCHANGED <<durable, answer>>
        /\ cpu' = [who |-> a, txn |-> journal[Key[a]], step |-> RecoveryStep(journal[Key[a]])]
    BY <1>3, IdleCpu DEF TakeLease
  <2>2. cpu'.step = "unregister" => ~ IsIssue(cpu'.txn)
    BY <2>1 DEF RecoveryStep, Committed, IsIssue
  <2>3. cpu'.step \in {"lookup", "finish", "unregister"} BY <2>1 DEF RecoveryStep
  <2> QED BY <1>1, <2>1, <2>2, <2>3, QuietMaps DEF Undecided
<1>4. ASSUME LookUp(a) PROVE Atomic!Next \/ UNCHANGED Atomic!vars
  <2>1. cpu.who = a /\ cpu.step = "lookup" /\ cpu' = Free /\ UNCHANGED durable
    BY <1>4 DEF LookUp
  <2>2. UNCHANGED <<revoked, journal, holdings, replay>> BY <2>1 DEF durable
  <2>3. CASE answer' = answer BY <1>1, <2>1, <2>3, QuietMaps DEF Undecided, Free
  <2>4. CASE replay[Key[a]] # None /\ Same(a, replay[Key[a]])
             /\ answer' = [answer EXCEPT ![a] = replay[Key[a]]]
    <3>1. PICK t \in Attempts : t = replay[Key[a]] BY <1>1, <2>4 DEF TypeInv, TypeOK, Entry
    <3>2. Key[t] = Key[a] /\ Committed(t) BY <3>1 DEF FiledByKey
    <3>3. Decided(t) BY <3>1, <3>2 DEF Decided, Committed, IsIssue
    <3>4. answer[a] = None BY <2>1 DEF AnsweredAtEnd, CpuOwner, Final
    <3>5. \A s \in Attempts : Decided(s)' <=> Decided(s)
      BY <2>1, <2>2, SameTags DEF Decided, Undecided, Free
    <3>6. Spent' = Spent BY <2>2 DEF Spent
    <3>7. Atomic!Reply(a, t) BY <2>4, <3>1, <3>2, <3>3, <3>4, <3>5, <3>6, ReplySteps
    <3> QED BY <3>7 DEF Atomic!Next
  <2> QED BY <1>4, <2>3, <2>4 DEF LookUp, Stored
<1>5. ASSUME WriteJournal(a) PROVE UNCHANGED Atomic!vars
  <2>1. /\ pc[a] = "signing" /\ cpu.step = "idle" /\ UNCHANGED <<revoked, holdings, replay, answer>>
    BY <1>5, IdleCpu DEF WriteJournal
  <2>2. Spent' = Spent BY <2>1 DEF Spent
  <2>3. \A t \in Attempts : Decided(t)' <=> Decided(t)
    <3>1. CASE UNCHANGED <<journal, cpu>>
      BY <2>1, <3>1, SameTags DEF Decided, Undecided
    <3>2. CASE /\ journal' = [journal EXCEPT ![Key[a]] = a]
               /\ cpu' = [who |-> a, txn |-> a, step |-> "register"]
      <4>1. journal[Key[a]] = None BY <2>1 DEF KeyIsClean
      <4>2. \A k \in Keys : journal'[k] = IF k = Key[a] THEN a ELSE journal[k]
        BY <1>1, <3>2 DEF TypeInv, TypeOK
      <4> QED BY <2>1, <3>2, <4>1, <4>2, SameTags DEF Decided, Undecided
    <3> QED BY <1>5, <3>1, <3>2 DEF WriteJournal
  <2> QED BY <2>1, <2>2, <2>3, Stutters
<1>6. \/ UNCHANGED <<durable, answer, cpu>>
      \/ TakeLease(a) \/ LookUp(a) \/ WriteJournal(a)
  BY DEF Arrive, Advance, Lapse, TakeSpendLock, CheckCredential, GiveUp, SkipLease,
     CheckCap, SigningFails
<1> QED BY <1>2, <1>3, <1>4, <1>5, <1>6

\* An issue whose request is cut off before it is registered stays in the
\* journal, and from then on counts as decided.
LEMMA LeftBehind ==
  ASSUME ReplacementAssumption, JournalInv, UNCHANGED <<revoked, journal, holdings, replay, answer>>,
         cpu' = Free
  PROVE  Atomic!Next \/ UNCHANGED Atomic!vars
<1> USE Names DEF JournalInv
<1>1. TypeInv BY DEF SpendInv
<1>2. Spent' = Spent BY DEF Spent
<1>3. \A t \in Attempts : ~ Undecided(t) => (Decided(t)' <=> Decided(t))
  BY SameTags DEF Decided, Undecided, Free
<1>4. CASE \A t \in Attempts : Decided(t)' <=> Decided(t) BY <1>2, <1>4, Stutters
<1>5. ASSUME NEW t \in Attempts, ~ (Decided(t)' <=> Decided(t)) PROVE Atomic!Next
  <2>1. Undecided(t) /\ IsIssue(t) BY <1>3, <1>5, SameTags DEF Decided
  <2>2. \A s \in Attempts : s # t => (Decided(s)' <=> Decided(s)) BY <1>3, <2>1 DEF Undecided
  <2>3. cpu.txn = t /\ cpu.step \in {"register", "unregister", "drop"} BY <2>1 DEF Undecided
  <2>4. ~ Decided(t) /\ Decided(t)'
    BY <1>5, <2>1 DEF Decided, Undecided, Free
  <2>5. Preds[t] = {} /\ revoked' = revoked \cup (Preds[t] \X {t}) BY <2>1 DEF IsIssue
  <2>6. Atomic!Commit(t, FALSE) BY <2>2, <2>3, <2>4, <2>5, CommitSteps
  <2> QED BY <2>6 DEF Atomic!Next
<1> QED BY <1>4, <1>5

LEMMA ProtocolMaps ==
  ASSUME ReplacementAssumption, JournalInv, Protocol
  PROVE  Atomic!Next \/ UNCHANGED Atomic!vars
<1> USE Names DEF JournalInv
<1>1. TypeInv BY DEF SpendInv
<1>2. cpu.step \notin {"idle", "lookup"} => cpu.txn \in Attempts
  BY <1>1 DEF TypeInv, CpuTyped
<1>3. ASSUME NEW step, GoTo(step)
      PROVE  cpu'.who = cpu.who /\ cpu'.txn = cpu.txn /\ cpu'.step = step
  BY <1>1, <1>3 DEF GoTo, TypeInv, TypeOK
<1>4. ASSUME Register PROVE Atomic!Next \/ UNCHANGED Atomic!vars
  <2>1. cpu.step = "register" /\ UNCHANGED <<revoked, journal, replay, answer>>
    BY <1>4 DEF Register, request
  <2>2. Spent' = Spent BY <2>1 DEF Spent
  <2>3. CASE GoTo("unregister") /\ UNCHANGED holdings
    <3>1. cpu'.who = cpu.who /\ cpu'.txn = cpu.txn /\ cpu'.step = "unregister" BY <1>3, <2>3
    <3>2. \A t \in Attempts : Decided(t)' <=> Decided(t)
      BY <2>1, <2>3, <3>1, SameTags DEF Decided, Undecided
    <3> QED BY <2>1, <2>2, <3>2, Stutters
  <2>4. CASE GoTo("revoke") /\ holdings' = holdings \cup {cpu.txn}
    <3>1. cpu.who = cpu.txn /\ replay[Key[cpu.txn]] = None /\ cpu.txn \in Attempts
      BY <1>2, <2>1 DEF SpendInv, CommitsOwn, StepKnows
    <3>2. \A s \in Attempts : s # cpu.txn => (Decided(s)' <=> Decided(s))
      <4>1. cpu'.who = cpu.who /\ cpu'.txn = cpu.txn /\ cpu'.step = "revoke" BY <1>3, <2>4
      <4> QED BY <2>1, <2>4, <4>1, SameTags DEF Decided, Undecided
    <3>3. CASE IsIssue(cpu.txn)
      <4> DEFINE t == cpu.txn
      <4>1. ~ Decided(t) BY <2>1, <3>1, <3>3 DEF Decided, Undecided, StepKnows
      <4>2. ASSUME NEW s \in Attempts, s = t PROVE Decided(s)'
        BY <2>4, <3>3, <4>2 DEF Decided, IsIssue
      <4>3. Preds[t] = {} /\ revoked' = revoked \cup (Preds[t] \X {t}) BY <2>1, <3>3 DEF IsIssue
      <4>4. PICK s \in Attempts : s = t BY <3>1
      <4>5. Decided(s)' /\ ~ Decided(s) BY <4>1, <4>2, <4>4
      <4>6. Atomic!Commit(s, FALSE)
        BY <2>1, <3>2, <4>3, <4>4, <4>5, CommitSteps
      <4> QED BY <4>6 DEF Atomic!Next
    <3>4. CASE ~ IsIssue(cpu.txn)
      <4>1. \A s \in Attempts : Decided(s)' <=> Decided(s)
        BY <2>1, <3>2, <3>4, SameTags DEF Decided, IsIssue
      <4> QED BY <2>1, <2>2, <4>1, Stutters
    <3> QED BY <3>3, <3>4
  <2> QED BY <1>4, <2>3, <2>4 DEF Register
<1>5. ASSUME Revoke PROVE Atomic!Next \/ UNCHANGED Atomic!vars
  <2>1. cpu.step = "revoke" /\ UNCHANGED <<journal, holdings, replay, answer>> /\ cpu.txn \in Attempts
    BY <1>2, <1>5 DEF Revoke, request
  <2>2. cpu'.step \in {"finish", "unregister"} /\ cpu'.txn = cpu.txn
        /\ (cpu'.step = "unregister" => Preds[cpu.txn] # {})
    <3>1. CASE GoTo("finish") BY <1>3, <3>1
    <3>2. CASE GoTo("unregister") /\ Preds[cpu.txn] # {} BY <1>3, <3>2
    <3> QED BY <1>5, <3>1, <3>2 DEF Revoke
  <2>3. CASE UNCHANGED revoked
    <3>1. \A t \in Attempts : Decided(t)' <=> Decided(t)
      BY <2>1, <2>2, <2>3, SameTags DEF Decided, Undecided, IsIssue
    <3>2. Spent' = Spent BY <2>3 DEF Spent
    <3> QED BY <2>1, <3>1, <3>2, Stutters
  <2>4. CASE revoked' = revoked \cup (Preds[cpu.txn] \X {cpu.txn}) /\ ~ UNCHANGED revoked
    <3>1. PICK t \in Attempts : t = cpu.txn BY <2>1
    <3>2. ~ IsIssue(t) BY <2>4, <3>1 DEF IsIssue
    <3>3. \A s \in Attempts : Tagged(s)' = IF s = t THEN Tagged(s) \cup Preds[s] ELSE Tagged(s)
      BY <1>1, <2>1, <2>4, <3>1, RevokeTags
    <3>4. Tagged(t) = {} BY <2>1, <3>1 DEF StepKnows
    <3>5. ~ Decided(t) /\ Decided(t)' BY <3>2, <3>3, <3>4 DEF Decided, IsIssue
    <3>6. \A s \in Attempts : s # t => (Decided(s)' <=> Decided(s))
      BY <2>1, <2>2, <3>1, <3>2, <3>3 DEF Decided, Undecided
    <3>7. Atomic!Commit(t, FALSE)
      BY <2>1, <2>4, <3>1, <3>5, <3>6, CommitSteps
    <3> QED BY <3>7 DEF Atomic!Next
  <2> QED BY <1>5, <2>3, <2>4 DEF Revoke
<1>6. ASSUME FinishRegister PROVE Atomic!Next \/ UNCHANGED Atomic!vars
  <2>1. cpu.step = "finish" /\ UNCHANGED <<revoked, journal, replay>> BY <1>6 DEF FinishRegister
  <2>2. CASE Continue("threw") /\ UNCHANGED holdings BY <2>1, <2>2, FinishMaps
  <2>3. CASE GoTo("store") /\ holdings' = holdings \cup {cpu.txn} /\ UNCHANGED answer
    <3>1. cpu.txn \in Attempts /\ Decided(cpu.txn) BY <2>1, FinishedIsDecided
    <3>2. \A t \in Attempts : Decided(t)' <=> Decided(t)
      <4>1. cpu'.who = cpu.who /\ cpu'.txn = cpu.txn /\ cpu'.step = "store" BY <1>3, <2>3
      <4> QED BY <2>1, <2>3, <3>1, <4>1, SameTags DEF Decided, Undecided
    <3>3. Spent' = Spent BY <2>1 DEF Spent
    <3> QED BY <2>3, <3>2, <3>3, Stutters
  <2> QED BY <1>6, <2>2, <2>3 DEF FinishRegister
<1>7. ASSUME StoreReplay PROVE Atomic!Next \/ UNCHANGED Atomic!vars
  <2>1. cpu.step = "store" /\ UNCHANGED <<revoked, journal, holdings>> BY <1>7 DEF StoreReplay
  <2>2. CASE Continue("threw") /\ UNCHANGED replay BY <2>1, <2>2, FinishMaps
  <2>3. CASE /\ GoTo("remove") /\ UNCHANGED answer
             /\ replay' = IF cpu.txn \in Anonymous THEN replay
                          ELSE [replay EXCEPT ![Key[cpu.txn]] = cpu.txn]
    <3>1. cpu.txn \in Attempts /\ Decided(cpu.txn) BY <2>1, FinishedIsDecided
    <3>2. journal[Key[cpu.txn]] = cpu.txn BY <2>1 DEF FiledByKey
    <3>3. \A k \in Keys : replay'[k] = IF cpu.txn \notin Anonymous /\ k = Key[cpu.txn]
                                       THEN cpu.txn ELSE replay[k]
      BY <1>1, <2>3 DEF TypeInv, TypeOK
    <3>4. \A s \in Attempts : s # cpu.txn /\ Key[s] = Key[cpu.txn] => replay[Key[s]] # s
      BY <3>1, <3>2 DEF FiledByKey
    <3>5. \A t \in Attempts : Decided(t)' <=> Decided(t)
      <4>1. cpu'.who = cpu.who /\ cpu'.txn = cpu.txn /\ cpu'.step = "remove" BY <1>3, <2>3
      <4> QED BY <2>1, <2>3, <3>1, <3>3, <3>4, <4>1, SameTags DEF Decided, Undecided
    <3>6. Spent' = Spent BY <2>1 DEF Spent
    <3> QED BY <2>3, <3>5, <3>6, Stutters
  <2> QED BY <1>7, <2>2, <2>3 DEF StoreReplay
<1>8. ASSUME RemoveJournal PROVE Atomic!Next \/ UNCHANGED Atomic!vars
  BY <1>8, FinishMaps DEF RemoveJournal
<1>9. ASSUME Unregister PROVE Atomic!Next \/ UNCHANGED Atomic!vars
  <2>1. /\ cpu.step = "unregister" /\ UNCHANGED <<revoked, journal, replay, answer>>
        /\ GoTo("drop") /\ holdings' \in {holdings, holdings \ {cpu.txn}}
    BY <1>9 DEF Unregister, request
  <2>2. IsIssue(cpu.txn) => cpu.txn \notin holdings BY <2>1 DEF StepKnows
  <2>3. \A t \in Attempts : Decided(t)' <=> Decided(t)
    <3>1. cpu'.who = cpu.who /\ cpu'.txn = cpu.txn /\ cpu'.step = "drop" BY <1>3, <2>1
    <3> QED BY <2>1, <2>2, <3>1, SameTags DEF Decided, Undecided
  <2>4. Spent' = Spent BY <2>1 DEF Spent
  <2> QED BY <2>1, <2>3, <2>4, Stutters
<1>10. ASSUME DropJournal PROVE Atomic!Next \/ UNCHANGED Atomic!vars
  <2>1. cpu.step = "drop" /\ UNCHANGED <<revoked, holdings, replay>> BY <1>10 DEF DropJournal
  <2>2. IsIssue(cpu.txn) => cpu.txn \notin holdings /\ cpu.who = cpu.txn
    BY <2>1 DEF StepKnows
  <2>3. replay[Key[cpu.txn]] = None /\ Tagged(cpu.txn) = {} BY <2>1 DEF StepKnows
  <2>4. CASE journal' = [journal EXCEPT ![Key[cpu.txn]] = None] /\ Continue("aborted")
    <3>1. answer' = answer BY <2>4 DEF Continue
    <3>2. cpu'.step \in {"idle", "lookup"} BY <1>1, <2>4 DEF Continue, GoTo, Free, TypeInv, TypeOK
    <3>3. \A t \in Attempts : t # cpu.txn /\ Key[t] = Key[cpu.txn] => journal[Key[t]] # t
      BY <2>1 DEF FiledByKey
    <3>4. \A t \in Attempts : journal'[Key[t]] =
            IF Key[t] = Key[cpu.txn] THEN None ELSE journal[Key[t]]
      BY <1>1, <2>4 DEF TypeInv, TypeOK
    <3>5. \A t \in Attempts : Decided(t)' <=> Decided(t)
      BY <2>1, <2>2, <3>2, <3>3, <3>4, SameTags DEF Decided, Undecided
    <3>6. Spent' = Spent BY <2>1 DEF Spent
    <3> QED BY <3>1, <3>5, <3>6, Stutters
  <2>5. CASE UNCHANGED journal /\ Continue("stuck")
    <3>1. cpu' = Free /\ answer' = answer BY <2>5 DEF Continue
    <3> QED BY <2>1, <2>5, <3>1, LeftBehind
  <2> QED BY <1>10, <2>4, <2>5 DEF DropJournal
<1> QED BY <1>4, <1>5, <1>6, <1>7, <1>8, <1>9, <1>10 DEF Protocol

LEMMA StepMaps ==
  ASSUME ReplacementAssumption, JournalInv, [Next]_vars
  PROVE  [Atomic!Next]_Atomic!vars
<1>1. TypeInv BY DEF JournalInv, SpendInv
<1>2. ASSUME NEW a \in Attempts, Arrive(a) \/ Advance(a) \/ Lapse(a)
      PROVE  Atomic!Next \/ UNCHANGED Atomic!vars
  BY <1>2, RequestMaps
<1>3. ASSUME NEW k \in Keys, SweepTakes(k) PROVE UNCHANGED Atomic!vars
  <2>1. cpu = Free /\ UNCHANGED <<durable, answer>> /\ cpu'.who = Sweep
    BY <1>3 DEF SweepTakes, request
  <2>2. \A t \in Attempts : t # Sweep BY Names
  <2> QED BY <1>1, <2>1, <2>2, QuietMaps DEF Undecided, Free
<1>4. ASSUME NEW c \in Creds, AdminRevoke(c) PROVE UNCHANGED Atomic!vars
  <2>1. /\ UNCHANGED <<journal, holdings, replay, answer, cpu>>
        /\ revoked' = revoked \cup {<<c, Admin>>}
    BY <1>4 DEF AdminRevoke, request
  <2>2. Spent' = Spent /\ \A t \in Attempts : Tagged(t)' = Tagged(t)
    BY <2>1 DEF Spent, Tagged, ReplacementAssumption
  <2>3. \A t \in Attempts : Decided(t)' <=> Decided(t) BY <2>1, <2>2 DEF Decided, Undecided
  <2> QED BY <2>1, <2>2, <2>3, Stutters
<1>5. ASSUME Crash PROVE Atomic!Next \/ UNCHANGED Atomic!vars
  BY <1>5, LeftBehind DEF Crash, durable
<1>6. CASE UNCHANGED vars
  <2>1. UNCHANGED <<durable, answer, cpu>> BY <1>6 DEF vars, request
  <2> QED BY <1>1, <2>1, QuietMaps DEF Undecided
<1> QED BY <1>2, <1>3, <1>4, <1>5, <1>6, ProtocolMaps DEF Next

\* The journalled protocol implements the atomic transaction: whatever stops
\* or fails in between, all credentials of a transaction are spent in one step,
\* at most one transaction happens per requestId, and every answer is the
\* result that happened (beginReplacement, commitReplacement, txnRecover).
THEOREM Implementation == MayLapse = FALSE => (Spec => ImplementsAtomic)
<1>1. JournalInv /\ [Next]_vars => [Atomic!Next]_Atomic!vars BY StepMaps, ReplacementAssumption
<1> QED BY <1>1, InitMaps, JournalCorrect, PTL DEF Spec, ImplementsAtomic, Atomic!Spec

-----------------------------------------------------------------------------
(* The holding cap.                                                        *)

\* An issue keeps the lease of its owner from the check to its answer.
OwnerHeld ==
  \A a \in Attempts : IsIssue(a) /\ pc[a] \in {"signing", "committing"} => ownerLease[Owner[a]] = a

\* Without failed writes an entry is in the journal only while someone works
\* on it, or until the start-up sweep has come to it.
NothingPending ==
  \A k \in Keys : journal[k] # None =>
    k \in boot \/ (cpu.step \notin {"idle", "lookup"} /\ k = Key[cpu.txn])

StoredIsHeld == \A t \in Attempts : IsIssue(t) /\ replay[Key[t]] = t => t \in holdings

\* What is issued to o, or may still be.
Claims(o) ==
  {t \in Attempts : /\ IsIssue(t) /\ Owner[t] = o
                    /\ t \in holdings \/ journal[Key[t]] = t \/ pc[t] = "signing"}

ClaimsFit == \A o \in Owners : IsFiniteSet(Claims(o)) /\ Cardinality(Claims(o)) <= HoldingCap

CapInv ==
  /\ JournalInv /\ IsFiniteSet(holdings) /\ OwnerHeld
  /\ faults = 0 => NothingPending /\ StoredIsHeld /\ ClaimsFit

LEMMA CapInit == ASSUME ReplacementAssumption, Init PROVE CapInv
<1>1. JournalInv BY JournalInit
<1>2. IsFiniteSet(holdings) BY FS_EmptySet DEF Init
<1>3. OwnerHeld /\ NothingPending /\ StoredIsHeld
  BY Names DEF Init, OwnerHeld, NothingPending, StoredIsHeld
<1>4. ClaimsFit
  <2>1. \A o \in Owners : Claims(o) = {} BY Names DEF Init, Claims
  <2> QED BY <2>1, FS_EmptySet DEF ClaimsFit, ReplacementAssumption
<1> QED BY <1>1, <1>2, <1>3, <1>4 DEF CapInv

LEMMA FewerClaims ==
  ASSUME ReplacementAssumption, ClaimsFit, \A o \in Owners : Claims(o)' \subseteq Claims(o)
  PROVE  ClaimsFit'
<1> SUFFICES ASSUME NEW o \in Owners
             PROVE  IsFiniteSet(Claims(o)') /\ Cardinality(Claims(o)') <= HoldingCap
  BY DEF ClaimsFit
<1>1. IsFiniteSet(Claims(o)) /\ Cardinality(Claims(o)) <= HoldingCap BY DEF ClaimsFit
<1>2. Claims(o)' \subseteq Claims(o) OBVIOUS
<1>3. IsFiniteSet(Claims(o)') /\ Cardinality(Claims(o)') <= Cardinality(Claims(o))
  BY <1>1, <1>2, FS_Subset
<1>4. Cardinality(Claims(o)) \in Nat /\ Cardinality(Claims(o)') \in Nat BY <1>1, <1>3, FS_CardinalityType
<1> QED BY <1>1, <1>3, <1>4 DEF ReplacementAssumption

\* The check reads the index while it holds everything that will be in it.
LEMMA CheckedClaim ==
  ASSUME ReplacementAssumption, CapInv, faults = 0, NEW a \in Attempts, CheckCap(a)
  PROVE  ClaimsFit'
<1> USE DEF CapInv
<1>1. TypeOK BY DEF JournalInv, SpendInv, TypeInv
<1>2. /\ pc[a] = "checking" /\ IsIssue(a) /\ ownerLease[Owner[a]] = None
      /\ cpu = Free /\ boot = {} /\ UNCHANGED <<holdings, journal>>
  BY DEF CheckCap, Ready, durable
<1>3. Owner[a] \in Owners BY DEF ReplacementAssumption
<1>4. CASE Respond(a, "capped")
  <2>1. \A o \in Owners : Claims(o)' \subseteq Claims(o)
    BY <1>1, <1>2, <1>4 DEF Claims, Respond, TypeOK
  <2> QED BY <2>1, FewerClaims
<1>5. CASE ~ Respond(a, "capped")
  <2> DEFINE o == Owner[a]
             index == {t \in holdings : Owner[t] = o}
  <2>0. IsFiniteSet(index) /\ Cardinality(index) \in Nat BY FS_Subset, FS_CardinalityType
  <2>1. pc' = [pc EXCEPT ![a] = "signing"] /\ Cardinality(index) + 1 <= HoldingCap
    BY <1>5, <2>0 DEF CheckCap, Held, ReplacementAssumption
  <2>2. \A t \in Attempts : pc'[t] = IF t = a THEN "signing" ELSE pc[t] BY <1>1, <2>1 DEF TypeOK
  <2>3. ASSUME NEW p \in Owners, p # o PROVE Claims(p)' \subseteq Claims(p)
    BY <1>2, <2>2, <2>3 DEF Claims
  <2>4. \A k \in Keys : journal[k] = None BY <1>2 DEF NothingPending, Free
  <2>5. Claims(o) \subseteq index
    <3> SUFFICES ASSUME NEW t \in Claims(o) PROVE t \in holdings BY DEF Claims
    <3>1. t \in Attempts /\ IsIssue(t) /\ Owner[t] = o /\ Key[t] \in Keys /\ t # None
      BY Names DEF Claims
    <3>2. journal[Key[t]] # t BY <2>4, <3>1
    <3>3. pc[t] # "signing" BY <1>2, <3>1 DEF OwnerHeld
    <3> QED BY <3>2, <3>3 DEF Claims
  <2>6. IsFiniteSet(index) BY <2>0
  <2>7. IsFiniteSet(Claims(o)) /\ Cardinality(Claims(o)) <= Cardinality(index)
    BY <2>5, <2>6, FS_Subset
  <2>8. /\ IsFiniteSet(Claims(o) \cup {a})
        /\ Cardinality(Claims(o) \cup {a}) \in {Cardinality(Claims(o)), Cardinality(Claims(o)) + 1}
    BY <2>7, FS_AddElement
  <2>9. Claims(o)' \subseteq Claims(o) \cup {a} BY <1>2, <2>2 DEF Claims
  <2>10. /\ IsFiniteSet(Claims(o)')
         /\ Cardinality(Claims(o)') <= Cardinality(Claims(o) \cup {a})
    BY <2>8, <2>9, FS_Subset
  <2>11. Cardinality(Claims(o)') <= HoldingCap
    <3>1. /\ Cardinality(Claims(o)) \in Nat /\ Cardinality(index) \in Nat
          /\ Cardinality(Claims(o)') \in Nat /\ Cardinality(Claims(o) \cup {a}) \in Nat
      BY <2>6, <2>7, <2>8, <2>10, FS_CardinalityType
    <3> HIDE DEF o, index
    <3> QED BY <2>1, <2>7, <2>8, <2>10, <3>1 DEF ReplacementAssumption
  <2>12. ASSUME NEW p \in Owners, p # o
         PROVE  IsFiniteSet(Claims(p)') /\ Cardinality(Claims(p)') <= HoldingCap
    <3>1. IsFiniteSet(Claims(p)) /\ Cardinality(Claims(p)) <= HoldingCap BY DEF ClaimsFit
    <3>2. IsFiniteSet(Claims(p)') /\ Cardinality(Claims(p)') <= Cardinality(Claims(p))
      BY <2>3, <2>12, <3>1, FS_Subset
    <3>3. Cardinality(Claims(p)) \in Nat /\ Cardinality(Claims(p)') \in Nat
      BY <3>1, <3>2, FS_CardinalityType
    <3> QED BY <3>1, <3>2, <3>3 DEF ReplacementAssumption
  <2>13. \A p \in Owners : IsFiniteSet(Claims(p)') /\ Cardinality(Claims(p)') <= HoldingCap
    BY <2>10, <2>11, <2>12
  <2> QED BY <2>13 DEF ClaimsFit
<1> QED BY <1>4, <1>5

LEMMA CapNext ==
  ASSUME ReplacementAssumption, MayLapse = FALSE, CapInv, [Next]_vars
  PROVE  CapInv'
<1> USE Names DEF CapInv
<1>1. JournalInv' BY JournalNext
<1>2. TypeOK /\ CpuTyped /\ TypeOK' BY <1>1 DEF JournalInv, SpendInv, TypeInv
<1>3. IsFiniteSet(holdings')
  <2>1. holdings' \subseteq holdings \cup {cpu.txn}
    <3>1. CASE Protocol
      BY <3>1 DEF Protocol, durable, Register, Revoke, FinishRegister, StoreReplay, RemoveJournal,
         Unregister, DropJournal
    <3>2. ASSUME NEW a \in Attempts, Advance(a) PROVE UNCHANGED holdings
      BY <3>2 DEF Advance, durable, WriteJournal, TakeSpendLock, CheckCredential, GiveUp, TakeLease,
         SkipLease, LookUp, CheckCap, SigningFails
    <3> QED BY <3>1, <3>2 DEF Next, vars, durable, Arrive, Lapse, SweepTakes, AdminRevoke, Crash
  <2>2. IsFiniteSet(holdings \cup {cpu.txn}) BY FS_AddElement
  <2> QED BY <2>1, <2>2, FS_Subset
<1>4. faults' = 0 => faults = 0
  <2>1. faults' = faults \/ faults' = faults + 1
    <3>1. CASE Protocol
      BY <3>1 DEF Protocol, bounds, Register, Revoke, FinishRegister, StoreReplay, RemoveJournal,
         Unregister, DropJournal, WriteWorks, WriteFails
    <3>2. ASSUME NEW a \in Attempts, Advance(a) PROVE faults' = faults \/ faults' = faults + 1
      BY <3>2 DEF Advance, bounds, WriteJournal, TakeSpendLock, CheckCredential, GiveUp, TakeLease,
         SkipLease, LookUp, CheckCap, SigningFails, WriteWorks, WriteFails
    <3> QED BY <3>1, <3>2 DEF Next, vars, bounds, Arrive, Lapse, SweepTakes, AdminRevoke, Crash
  <2> QED BY <1>2, <2>1 DEF TypeOK
<1>5. faults' = 0 => ~ WriteFails BY <1>2 DEF WriteFails, TypeOK
<1>6. /\ cpu'.step \notin {"idle", "lookup"} => cpu'.txn \in Attempts /\ journal'[Key[cpu'.txn]] = cpu'.txn
      /\ \A k \in Keys, t \in Attempts : journal'[k] = t => Key[t] = k
      /\ \A k \in Keys, t \in Attempts : journal[k] = t => Key[t] = k
  BY <1>1, <1>2 DEF JournalInv, SpendInv, TypeInv, CpuTyped, FiledByKey
<1> DEFINE Rest == OwnerHeld' /\ (faults' = 0 => NothingPending' /\ StoredIsHeld' /\ ClaimsFit')
\* steps that change neither what is pending nor what is held
<1>7. ASSUME UNCHANGED <<journal, holdings, replay, ownerLease, cpu, boot>>,
             \A a \in Attempts : pc'[a] \in {"signing", "committing"} => pc'[a] = pc[a]
      PROVE  Rest
  <2>1. OwnerHeld' BY <1>7 DEF OwnerHeld
  <2>2. NothingPending => NothingPending' BY <1>7 DEF NothingPending
  <2>3. StoredIsHeld => StoredIsHeld' BY <1>7 DEF StoredIsHeld
  <2>4. \A o \in Owners : Claims(o)' \subseteq Claims(o) BY <1>7 DEF Claims
  <2> QED BY <1>4, <2>1, <2>2, <2>3, <2>4, FewerClaims
<1>8. ASSUME NEW a \in Attempts, NEW outcome \in Final, Respond(a, outcome),
             UNCHANGED <<journal, holdings, replay, cpu, boot>>
      PROVE  Rest
  <2>1. /\ \A b \in Attempts : pc'[b] = IF b = a THEN outcome ELSE pc[b]
        /\ \A o \in Owners : ownerLease'[o] = IF ownerLease[o] = a THEN None ELSE ownerLease[o]
        /\ outcome \notin {"signing", "committing"}
    BY <1>2, <1>8 DEF Respond, Release, TypeOK, Final
  <2>2. OwnerHeld' BY <2>1 DEF OwnerHeld, ReplacementAssumption
  <2>3. NothingPending => NothingPending' BY <1>8 DEF NothingPending
  <2>4. StoredIsHeld => StoredIsHeld' BY <1>8 DEF StoredIsHeld
  <2>5. \A o \in Owners : Claims(o)' \subseteq Claims(o) BY <1>8, <2>1 DEF Claims
  <2> QED BY <1>4, <2>2, <2>3, <2>4, <2>5, FewerClaims
\* the running step goes on to the next, with its entry still in the journal
<1>9. ASSUME NEW step \in Steps \ {"lookup"}, GoTo(step), cpu.step \notin {"idle", "lookup"},
             UNCHANGED <<journal, pc, ownerLease, boot>>,
             \A t \in Attempts : IsIssue(t) /\ t \in holdings' => t \in holdings \/ t = cpu.txn,
             \A t \in Attempts : IsIssue(t) /\ replay'[Key[t]] = t => t \in holdings'
      PROVE  OwnerHeld' /\ (faults' = 0 => NothingPending' /\ StoredIsHeld' /\ ClaimsFit')
  <2>1. cpu'.step = step /\ cpu'.txn = cpu.txn /\ cpu.txn \in Attempts
    BY <1>2, <1>9 DEF GoTo, TypeOK, CpuTyped
  <2>2. journal[Key[cpu.txn]] = cpu.txn BY <1>9, <2>1 DEF JournalInv, FiledByKey
  <2>3. OwnerHeld' BY <1>9 DEF OwnerHeld
  <2>4. NothingPending => NothingPending' BY <1>9, <2>1 DEF NothingPending, Steps
  <2>5. StoredIsHeld' BY <1>9 DEF StoredIsHeld
  <2>6. \A o \in Owners : Claims(o)' \subseteq Claims(o) BY <1>9, <2>2 DEF Claims
  <2> QED BY <1>4, <2>3, <2>4, <2>5, <2>6, FewerClaims
\* the work on a transaction ends
<1>10. ASSUME NEW outcome, Continue(outcome), cpu.step \in {"finish", "store", "remove", "drop"},
              UNCHANGED <<holdings, replay, boot>>,
              \/ faults' # 0 /\ journal' = journal
              \/ journal' = [journal EXCEPT ![Key[cpu.txn]] = None]
       PROVE  Rest
  <2>1. \A b \in Attempts : pc'[b] \in {"signing", "committing"} => pc'[b] = pc[b]
    BY <1>2, <1>10 DEF Continue, Respond, TypeOK, locks
  <2>2. OwnerHeld'
    <3>1. CASE \E a \in Attempts : pc[a] \in {"committing", "recovering"} /\ Release(a) /\
                                   \E done \in Final : pc' = [pc EXCEPT ![a] = done]
      <4>1. PICK a \in Attempts, done \in Final : Release(a) /\ pc' = [pc EXCEPT ![a] = done]
        BY <3>1
      <4>2. pc'[a] \notin {"signing", "committing"} BY <1>2, <4>1 DEF TypeOK, Final
      <4> QED BY <2>1, <4>1, <4>2 DEF OwnerHeld, Release, ReplacementAssumption
    <3>2. CASE UNCHANGED <<pc, ownerLease>> BY <3>2 DEF OwnerHeld
    <3>3. "answered" \in Final /\ "failed" \in Final BY DEF Final
    <3> QED BY <1>10, <3>1, <3>2, <3>3 DEF Continue, Respond, locks
  <2>3. CASE faults' # 0 BY <2>2, <2>3
  <2>4. CASE faults' = 0
    <3>1. cpu.txn \in Attempts BY <1>2, <1>10 DEF CpuTyped
    <3>2. \A k \in Keys : journal'[k] = IF k = Key[cpu.txn] THEN None ELSE journal[k]
      BY <1>2, <1>10, <2>4 DEF TypeOK
    <3>3. NothingPending' BY <1>4, <1>10, <2>4, <3>2 DEF NothingPending
    <3>4. StoredIsHeld' BY <1>4, <1>10, <2>4 DEF StoredIsHeld
    <3>5. \A o \in Owners : Claims(o)' \subseteq Claims(o) BY <1>10, <2>1, <3>2 DEF Claims
    <3> QED BY <1>4, <2>2, <2>4, <3>3, <3>4, <3>5, FewerClaims
  <2> QED BY <2>3, <2>4
<1>11. ASSUME NEW a \in Attempts, Arrive(a) PROVE Rest
  BY <1>2, <1>7, <1>11 DEF Arrive, durable, locks, TypeOK
<1>12. ASSUME NEW a \in Attempts, NEW c \in Creds, TakeSpendLock(a, c) PROVE Rest
  BY <1>7, <1>12 DEF TakeSpendLock, durable
<1>13. ASSUME NEW a \in Attempts, GiveUp(a) PROVE Rest
  BY <1>8, <1>13 DEF GiveUp, durable, Final
<1>14. ASSUME NEW a \in Attempts, TakeLease(a) PROVE Rest
  <2>1. /\ UNCHANGED <<journal, holdings, replay, ownerLease, boot>> /\ cpu = Free /\ boot = {}
        /\ \A b \in Attempts : pc'[b] \in {"signing", "committing"} => pc'[b] = pc[b]
        /\ Key[a] \in Keys /\ cpu'.step = RecoveryStep(journal[Key[a]])
    BY <1>2, <1>14 DEF TakeLease, Ready, durable, TypeOK
  <2>2. OwnerHeld' BY <2>1 DEF OwnerHeld
  <2>3. NothingPending => NothingPending' BY <2>1 DEF NothingPending, Free
  <2>4. StoredIsHeld => StoredIsHeld' BY <2>1 DEF StoredIsHeld
  <2>5. \A o \in Owners : Claims(o)' \subseteq Claims(o) BY <2>1 DEF Claims
  <2> QED BY <1>4, <2>2, <2>3, <2>4, <2>5, FewerClaims
<1>15. ASSUME NEW a \in Attempts, SkipLease(a) PROVE Rest
  BY <1>2, <1>7, <1>15 DEF SkipLease, durable, locks, TypeOK
<1>16. ASSUME NEW a \in Attempts, LookUp(a) PROVE Rest
  <2>1. cpu.step = "lookup" /\ cpu' = Free /\ UNCHANGED <<journal, holdings, replay, boot>>
    BY <1>16 DEF LookUp, durable
  <2>2. CASE \E done \in Final : Respond(a, done)
    <3>1. PICK done \in Final : Respond(a, done) BY <2>2
    <3>2. /\ \A b \in Attempts : pc'[b] = IF b = a THEN done ELSE pc[b]
          /\ \A o \in Owners : ownerLease'[o] = IF ownerLease[o] = a THEN None ELSE ownerLease[o]
          /\ done \notin {"signing", "committing"}
      BY <1>2, <3>1 DEF Respond, Release, TypeOK, Final
    <3>3. OwnerHeld' BY <3>2 DEF OwnerHeld, ReplacementAssumption
    <3>4. NothingPending => NothingPending' BY <2>1 DEF NothingPending
    <3>5. StoredIsHeld => StoredIsHeld' BY <2>1 DEF StoredIsHeld
    <3>6. \A o \in Owners : Claims(o)' \subseteq Claims(o) BY <2>1, <3>2 DEF Claims
    <3> QED BY <1>4, <3>3, <3>4, <3>5, <3>6, FewerClaims
  <2>3. CASE pc' = [pc EXCEPT ![a] = "checking"] /\ UNCHANGED locks
    <3>1. \A b \in Attempts : pc'[b] \in {"signing", "committing"} => pc'[b] = pc[b]
      BY <1>2, <2>3 DEF TypeOK
    <3>2. OwnerHeld' BY <2>3, <3>1 DEF OwnerHeld, locks
    <3>3. NothingPending => NothingPending' BY <2>1 DEF NothingPending
    <3>4. StoredIsHeld => StoredIsHeld' BY <2>1 DEF StoredIsHeld
    <3>5. \A o \in Owners : Claims(o)' \subseteq Claims(o) BY <2>1, <3>1 DEF Claims
    <3> QED BY <1>4, <3>2, <3>3, <3>4, <3>5, FewerClaims
  <2>4. "answered" \in Final /\ "conflict" \in Final BY DEF Final
  <2> QED BY <1>16, <2>2, <2>3, <2>4 DEF LookUp
<1>17. ASSUME NEW a \in Attempts, NEW c \in Creds, CheckCredential(a, c) PROVE Rest
  <2>1. CASE Respond(a, "revoked") BY <1>8, <1>17, <2>1 DEF CheckCredential, durable, Final
  <2>2. CASE /\ pc' = [pc EXCEPT ![a] = IF checked'[a] = Preds[a] THEN "signing" ELSE @]
             /\ UNCHANGED locks
    <3>1. c \in Preds[a] /\ UNCHANGED <<journal, holdings, replay, cpu, boot, ownerLease>>
      BY <1>17, <2>2 DEF CheckCredential, durable, locks
    <3>2. ~ IsIssue(a) BY <3>1 DEF IsIssue
    <3>3. \A b \in Attempts : b # a => pc'[b] = pc[b] BY <1>2, <2>2 DEF TypeOK
    <3>4. OwnerHeld' BY <3>1, <3>2, <3>3 DEF OwnerHeld, IsIssue
    <3>5. NothingPending => NothingPending' BY <3>1 DEF NothingPending
    <3>6. StoredIsHeld => StoredIsHeld' BY <3>1 DEF StoredIsHeld
    <3>7. \A o \in Owners : Claims(o)' \subseteq Claims(o) BY <3>1, <3>2, <3>3 DEF Claims, IsIssue
    <3> QED BY <1>4, <3>4, <3>5, <3>6, <3>7, FewerClaims
  <2> QED BY <1>17, <2>1, <2>2 DEF CheckCredential
<1>18. ASSUME NEW a \in Attempts, CheckCap(a) PROVE Rest
  <2>1. /\ ownerLease[Owner[a]] = None /\ pc[a] = "checking" /\ IsIssue(a)
        /\ UNCHANGED <<journal, holdings, replay, cpu, boot>>
    BY <1>18 DEF CheckCap, durable
  <2>2. CASE Respond(a, "capped") BY <1>8, <2>1, <2>2 DEF Final
  <2>3. CASE ~ Respond(a, "capped")
    <3>1. /\ \A b \in Attempts : b # a => pc'[b] = pc[b]
          /\ ownerLease' = [ownerLease EXCEPT ![Owner[a]] = a]
      BY <1>2, <1>18, <2>3 DEF CheckCap, OwnerGranted, TypeOK
    <3>2. OwnerHeld' BY <1>2, <2>1, <3>1 DEF OwnerHeld, TypeOK, ReplacementAssumption
    <3>3. NothingPending => NothingPending' BY <2>1 DEF NothingPending
    <3>4. StoredIsHeld => StoredIsHeld' BY <2>1 DEF StoredIsHeld
    <3> QED BY <1>4, <1>18, <3>2, <3>3, <3>4, CheckedClaim
  <2> QED BY <2>2, <2>3
<1>19. ASSUME NEW a \in Attempts, SigningFails(a) PROVE Rest
  BY <1>8, <1>19 DEF SigningFails, durable, Final
<1>20. ASSUME NEW a \in Attempts, WriteJournal(a) PROVE Rest
  <2>1. CASE Respond(a, "failed") /\ UNCHANGED <<journal, cpu>>
    BY <1>8, <1>20, <2>1 DEF WriteJournal, Final
  <2>2. CASE /\ journal' = [journal EXCEPT ![Key[a]] = a]
             /\ cpu' = [who |-> a, txn |-> a, step |-> "register"]
             /\ pc' = [pc EXCEPT ![a] = "committing"]
             /\ UNCHANGED ownerLease
    <3>1. pc[a] = "signing" /\ UNCHANGED <<holdings, replay, boot>> /\ cpu.step = "idle"
      BY <1>20, IdleCpu DEF WriteJournal
    <3>2. /\ \A b \in Attempts : pc'[b] = IF b = a THEN "committing" ELSE pc[b]
          /\ \A k \in Keys : journal'[k] = IF k = Key[a] THEN a ELSE journal[k]
      BY <1>2, <2>2 DEF TypeOK
    <3>3. OwnerHeld' BY <2>2, <3>1, <3>2 DEF OwnerHeld
    <3>4. NothingPending => NothingPending' BY <2>2, <3>1, <3>2 DEF NothingPending
    <3>5. StoredIsHeld => StoredIsHeld' BY <3>1 DEF StoredIsHeld
    <3>6. \A o \in Owners : Claims(o)' \subseteq Claims(o) BY <3>1, <3>2 DEF Claims
    <3> QED BY <1>4, <3>3, <3>4, <3>5, <3>6, FewerClaims
  <2> QED BY <1>20, <2>1, <2>2 DEF WriteJournal
<1>21. ASSUME Register PROVE Rest
  <2>1. cpu.step = "register" /\ UNCHANGED <<journal, replay, pc, ownerLease, boot>>
    BY <1>21 DEF Register, locks, request
  <2>2. CASE WriteFails BY <1>5, <2>1, <2>2 DEF OwnerHeld
  <2>3. CASE holdings' = holdings \cup {cpu.txn} /\ GoTo("revoke")
    <3>1. StoredIsHeld => \A t \in Attempts : IsIssue(t) /\ replay'[Key[t]] = t => t \in holdings'
      BY <2>1, <2>3 DEF StoredIsHeld
    <3>2. CASE StoredIsHeld BY <1>9, <2>1, <2>3, <3>1, <3>2 DEF Steps
    <3>3. CASE ~ StoredIsHeld BY <1>4, <2>1, <3>3 DEF OwnerHeld
    <3> QED BY <3>2, <3>3
  <2> QED BY <1>21, <2>2, <2>3 DEF Register
<1>22. ASSUME Revoke PROVE Rest
  <2>1. cpu.step = "revoke" /\ UNCHANGED <<journal, holdings, replay, pc, ownerLease, boot>>
    BY <1>22 DEF Revoke, locks, request
  <2>2. CASE WriteFails BY <1>5, <2>1, <2>2 DEF OwnerHeld
  <2>3. CASE GoTo("finish")
    <3>1. CASE StoredIsHeld BY <1>9, <2>1, <2>3, <3>1 DEF Steps, StoredIsHeld
    <3>2. CASE ~ StoredIsHeld BY <1>4, <2>1, <3>2 DEF OwnerHeld
    <3> QED BY <3>1, <3>2
  <2> QED BY <1>22, <2>2, <2>3 DEF Revoke
<1>23. ASSUME FinishRegister PROVE Rest
  <2>1. cpu.step = "finish" /\ UNCHANGED <<journal, replay, boot>> BY <1>23 DEF FinishRegister
  <2>2. CASE WriteFails /\ UNCHANGED holdings /\ Continue("threw")
    BY <1>2, <1>5, <1>10, <2>1, <2>2 DEF TypeOK
  <2>3. CASE holdings' = holdings \cup {cpu.txn} /\ GoTo("store") /\ UNCHANGED <<locks, pc>>
    <3>1. UNCHANGED <<pc, ownerLease>> BY <2>3 DEF locks
    <3>2. CASE StoredIsHeld
      <4>1. \A t \in Attempts : IsIssue(t) /\ replay'[Key[t]] = t => t \in holdings'
        BY <2>1, <2>3, <3>2 DEF StoredIsHeld
      <4> QED BY <1>9, <2>1, <2>3, <3>1, <4>1 DEF Steps
    <3>3. CASE ~ StoredIsHeld BY <1>4, <3>1, <3>3 DEF OwnerHeld
    <3> QED BY <3>2, <3>3
  <2> QED BY <1>23, <2>2, <2>3 DEF FinishRegister
<1>24. ASSUME StoreReplay PROVE Rest
  <2>1. cpu.step = "store" /\ UNCHANGED <<journal, holdings, boot>> BY <1>24 DEF StoreReplay
  <2>2. CASE WriteFails /\ UNCHANGED replay /\ Continue("threw")
    BY <1>2, <1>5, <1>10, <2>1, <2>2 DEF TypeOK
  <2>3. CASE /\ GoTo("remove") /\ UNCHANGED <<locks, pc>>
             /\ replay' = IF cpu.txn \in Anonymous THEN replay
                          ELSE [replay EXCEPT ![Key[cpu.txn]] = cpu.txn]
    <3>1. UNCHANGED <<pc, ownerLease>> BY <2>3 DEF locks
    <3>2. CASE StoredIsHeld
      <4>1. cpu.txn \in Attempts /\ (IsIssue(cpu.txn) => cpu.txn \in holdings)
        BY <1>2, <2>1 DEF CpuTyped, JournalInv, StepKnows
      <4>2. \A k \in Keys : replay'[k] \in {replay[k], cpu.txn} BY <1>2, <2>3 DEF TypeOK
      <4>3. \A t \in Attempts : IsIssue(t) /\ replay'[Key[t]] = t => t \in holdings'
        BY <2>1, <3>2, <4>1, <4>2 DEF StoredIsHeld
      <4> QED BY <1>9, <2>1, <2>3, <3>1, <4>3 DEF Steps
    <3>3. CASE ~ StoredIsHeld BY <1>4, <3>1, <3>3 DEF OwnerHeld
    <3> QED BY <3>2, <3>3
  <2> QED BY <1>24, <2>2, <2>3 DEF StoreReplay
<1>25. ASSUME RemoveJournal PROVE Rest
  BY <1>2, <1>5, <1>10, <1>25 DEF RemoveJournal, TypeOK
<1>26. ASSUME Unregister PROVE Rest
  <2>1. /\ cpu.step = "unregister" /\ UNCHANGED <<journal, replay, pc, ownerLease, boot>>
        /\ GoTo("drop") /\ holdings' \in {holdings, holdings \ {cpu.txn}}
    BY <1>26 DEF Unregister, locks, request
  <2>2. IsIssue(cpu.txn) => cpu.txn \notin holdings BY <2>1 DEF JournalInv, StepKnows
  <2>3. CASE StoredIsHeld
    <3>1. \A t \in Attempts : IsIssue(t) /\ replay'[Key[t]] = t => t \in holdings'
      BY <2>1, <2>2, <2>3 DEF StoredIsHeld
    <3> QED BY <1>9, <2>1, <3>1 DEF Steps
  <2>4. CASE ~ StoredIsHeld BY <1>4, <2>1, <2>4 DEF OwnerHeld
  <2> QED BY <2>3, <2>4
<1>27. ASSUME DropJournal PROVE Rest
  BY <1>2, <1>5, <1>10, <1>27 DEF DropJournal, TypeOK
<1>28. ASSUME NEW k \in Keys, SweepTakes(k) PROVE Rest
  <2>1. /\ UNCHANGED <<journal, holdings, replay, ownerLease, pc>> /\ cpu = Free /\ boot' = boot \ {k}
        /\ journal[k] # None
        /\ cpu' = [who |-> Sweep, txn |-> journal[k], step |-> RecoveryStep(journal[k])]
    BY <1>28 DEF SweepTakes, durable, request
  <2>2. OwnerHeld' BY <2>1 DEF OwnerHeld
  <2>3. NothingPending => NothingPending'
    <3>1. journal[k] \in Attempts BY <1>2, <2>1 DEF TypeOK, Entry
    <3>2. Key[journal[k]] = k BY <1>6, <3>1
    <3>3. cpu'.step \notin {"idle", "lookup"} /\ cpu'.txn = journal[k] BY <2>1 DEF RecoveryStep
    <3> QED BY <2>1, <3>2, <3>3 DEF NothingPending, Free
  <2>4. StoredIsHeld => StoredIsHeld' BY <2>1 DEF StoredIsHeld
  <2>5. \A o \in Owners : Claims(o)' \subseteq Claims(o) BY <2>1 DEF Claims
  <2> QED BY <1>4, <2>2, <2>3, <2>4, <2>5, FewerClaims
<1>29. ASSUME NEW c \in Creds, AdminRevoke(c) PROVE Rest
  BY <1>7, <1>29 DEF AdminRevoke, locks, request
<1>30. ASSUME Crash PROVE Rest
  <2>1. /\ UNCHANGED <<journal, holdings, replay>> /\ boot' = {k \in Keys : journal[k] # None}
        /\ \A a \in Attempts : pc'[a] \notin {"signing", "committing"}
    BY <1>30 DEF Crash, durable, Running
  <2>2. OwnerHeld' BY <2>1 DEF OwnerHeld
  <2>3. NothingPending' BY <2>1 DEF NothingPending
  <2>4. StoredIsHeld => StoredIsHeld' BY <2>1 DEF StoredIsHeld
  <2>5. \A o \in Owners : Claims(o)' \subseteq Claims(o) BY <2>1 DEF Claims
  <2> QED BY <1>4, <2>2, <2>3, <2>4, <2>5, FewerClaims
<1>31. ASSUME UNCHANGED vars PROVE Rest
  <2>1. UNCHANGED <<journal, holdings, replay, ownerLease, cpu, boot>>
    BY <1>31 DEF vars, durable, locks
  <2>2. pc' = pc BY <1>31 DEF vars, request
  <2> QED BY <1>7, <2>1, <2>2
<1>32. ASSUME NEW a \in Attempts, Lapse(a) PROVE Rest BY <1>32 DEF Lapse
<1>33. Rest
  BY <1>11, <1>12, <1>13, <1>14, <1>15, <1>16, <1>17, <1>18, <1>19, <1>20, <1>21, <1>22, <1>23,
     <1>24, <1>25, <1>26, <1>27, <1>28, <1>29, <1>30, <1>31, <1>32 DEF Next, Protocol, Advance
<1> QED BY <1>1, <1>3, <1>33

\* As long as no write fails, the issues of one owner never pass the cap, not
\* even when they run at once or are cut off by stops (holdLease on the owner).
THEOREM CapKept == MayLapse = FALSE => (Spec => []CapRespected)
<1> SUFFICES ASSUME MayLapse = FALSE PROVE Spec => []CapRespected OBVIOUS
<1>1. Init => CapInv BY CapInit, ReplacementAssumption
<1>2. CapInv /\ [Next]_vars => CapInv' BY CapNext, ReplacementAssumption
<1>3. CapInv => CapRespected
  <2> SUFFICES ASSUME CapInv, faults = 0, NEW o \in Owners
               PROVE  Cardinality({t \in Attempts : IsIssue(t) /\ Owner[t] = o /\ Decided(t)}) <= HoldingCap
    BY DEF CapRespected
  <2> DEFINE issued == {t \in Attempts : IsIssue(t) /\ Owner[t] = o /\ Decided(t)}
  <2>1. issued \subseteq Claims(o) BY DEF Claims, Decided, CapInv, StoredIsHeld
  <2>2. IsFiniteSet(Claims(o)) /\ Cardinality(Claims(o)) <= HoldingCap BY DEF CapInv, ClaimsFit
  <2>3. IsFiniteSet(issued) /\ Cardinality(issued) <= Cardinality(Claims(o))
    BY <2>1, <2>2, FS_Subset
  <2>4. Cardinality(issued) \in Nat /\ Cardinality(Claims(o)) \in Nat
    BY <2>2, <2>3, FS_CardinalityType
  <2> HIDE DEF issued
  <2>5. Cardinality(issued) <= HoldingCap
    BY <2>2, <2>3, <2>4, ReplacementAssumption DEF ReplacementAssumption
  <2> QED BY <2>5 DEF issued
<1> QED BY <1>1, <1>2, <1>3, PTL DEF Spec

=============================================================================
