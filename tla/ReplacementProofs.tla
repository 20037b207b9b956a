------------------------- MODULE ReplacementProofs -------------------------
(***************************************************************************)
(* Theorems about Replacement, for every set of requests, credentials,     *)
(* keys and owners and every number of crashes and failed writes.          *)
(***************************************************************************)
EXTENDS Replacement, TLAPS

\* The code between awaits works on a transaction, except when it only looks
\* a stored answer up.
CpuTyped == cpu.step \notin {"idle", "lookup"} => cpu.txn \in Attempts

TypeInv == TypeOK /\ CpuTyped

LEMMA RespondTyped ==
  ASSUME TypeOK, NEW a \in Attempts, NEW outcome \in Final, Respond(a, outcome)
  PROVE  /\ spendLock' \in [Creds -> Entry]
         /\ ridLease' \in [Keys -> Entry \cup {Sweep}]
         /\ ownerLease' \in [Owners -> Entry]
         /\ pc' \in [Attempts -> {"new"} \cup Running \cup Final]
  BY DEF TypeOK, Respond, Release, Entry

LEMMA ContinueTyped ==
  ASSUME TypeInv, NEW outcome, Continue(outcome), cpu.txn \in Attempts
  PROVE  /\ spendLock' \in [Creds -> Entry]
         /\ ridLease' \in [Keys -> Entry \cup {Sweep}]
         /\ ownerLease' \in [Owners -> Entry]
         /\ pc' \in [Attempts -> {"new"} \cup Running \cup Final]
         /\ answer' \in [Attempts -> Entry]
         /\ cpu' \in [who : Entry \cup {Sweep}, txn : Entry, step : Steps \cup {"idle"}]
         /\ CpuTyped'
<1> USE DEF TypeInv
<1>1. CASE cpu.who = Sweep /\ cpu' = Free
  <2>1. UNCHANGED <<pc, answer, spendLock, ownerLease>> \/ cpu.who \in Attempts
    BY <1>1 DEF Continue
  <2>2. cpu.who \notin Attempts BY <1>1, ReplacementAssumption
  <2>3. ridLease' = [ridLease EXCEPT ![Key[cpu.txn]] = None] BY <2>2 DEF Continue
  <2> QED BY <1>1, <2>1, <2>2, <2>3 DEF TypeOK, CpuTyped, Free, Entry
<1>2. ASSUME NEW a \in Attempts, NEW done \in Final, cpu.who = a, Respond(a, done), cpu' = Free,
             answer' = answer \/ answer' = [answer EXCEPT ![a] = cpu.txn]
      PROVE  /\ spendLock' \in [Creds -> Entry]
             /\ ridLease' \in [Keys -> Entry \cup {Sweep}]
             /\ ownerLease' \in [Owners -> Entry]
             /\ pc' \in [Attempts -> {"new"} \cup Running \cup Final]
             /\ answer' \in [Attempts -> Entry]
             /\ cpu' \in [who : Entry \cup {Sweep}, txn : Entry, step : Steps \cup {"idle"}]
             /\ CpuTyped'
  <2>1. answer' \in [Attempts -> Entry] BY <1>2 DEF TypeOK, Entry
  <2>2. cpu' \in [who : Entry \cup {Sweep}, txn : Entry, step : Steps \cup {"idle"}] /\ CpuTyped'
    BY <1>2 DEF Free, Entry, CpuTyped
  <2> QED BY <1>2, <2>1, <2>2, RespondTyped
<1>3. CASE GoTo("lookup") /\ UNCHANGED <<pc, locks, answer>>
  BY <1>3 DEF GoTo, TypeOK, CpuTyped, Steps, locks
<1>4. \/ cpu.who = Sweep /\ cpu' = Free
      \/ GoTo("lookup") /\ UNCHANGED <<pc, locks, answer>>
      \/ \E a \in Attempts : \E done \in Final :
            /\ cpu.who = a /\ Respond(a, done) /\ cpu' = Free
            /\ answer' = answer \/ answer' = [answer EXCEPT ![a] = cpu.txn]
  <2>1. "answered" \in Final /\ "failed" \in Final BY DEF Final
  <2> QED BY <2>1 DEF Continue
<1> QED BY <1>1, <1>2, <1>3, <1>4

LEMMA TypeInit == ASSUME ReplacementAssumption, Init PROVE TypeInv
BY DEF ReplacementAssumption, Init, TypeInv, TypeOK, CpuTyped, Free, Entry, Steps, Running

LEMMA TypeNext == ASSUME ReplacementAssumption, TypeInv, [Next]_vars PROVE TypeInv'
<1> USE DEF TypeInv
<1>1. ASSUME NEW a \in Attempts, Arrive(a) PROVE TypeInv'
  BY <1>1 DEF Arrive, TypeOK, CpuTyped, Running, durable, locks, bounds
<1>2. ASSUME NEW a \in Attempts, NEW c \in Creds, TakeSpendLock(a, c) PROVE TypeInv'
  BY <1>2 DEF TakeSpendLock, Granted, TypeOK, CpuTyped, Entry, durable, bounds
<1>3. ASSUME NEW a \in Attempts, GiveUp(a) PROVE TypeInv'
  <2>1. Respond(a, "busy") BY <1>3 DEF GiveUp
  <2> QED BY <1>3, <2>1, RespondTyped DEF GiveUp, TypeOK, CpuTyped, Final, durable, bounds
<1>4. ASSUME NEW a \in Attempts, Lapse(a) PROVE TypeInv'
  BY <1>4 DEF Lapse, Release, TypeOK, CpuTyped, Entry, durable, bounds
<1>5. ASSUME NEW a \in Attempts, TakeLease(a) PROVE TypeInv'
  BY <1>5 DEF TakeLease, RecoveryStep, ReplacementAssumption, TypeOK, CpuTyped, Entry, Steps, Running, durable, bounds
<1>6. ASSUME NEW a \in Attempts, SkipLease(a) PROVE TypeInv'
  BY <1>6 DEF SkipLease, TypeOK, CpuTyped, Running, durable, locks, bounds
<1>7. ASSUME NEW a \in Attempts, LookUp(a) PROVE TypeInv'
  <2>1. CASE \E done \in Final : Respond(a, done)
    <3>1. answer' \in [Attempts -> Entry] BY <1>7, ReplacementAssumption DEF LookUp, Stored, TypeOK, Entry
    <3>2. PICK done \in Final : Respond(a, done) BY <2>1
    <3> QED BY <1>7, <3>1, <3>2, RespondTyped DEF LookUp, TypeOK, CpuTyped, Free, Entry, durable, bounds
  <2>2. CASE pc' = [pc EXCEPT ![a] = "checking"] /\ UNCHANGED <<locks, answer>>
    BY <1>7, <2>2 DEF LookUp, TypeOK, CpuTyped, Free, Entry, Running, durable, locks, bounds
  <2> QED BY <1>7, <2>1, <2>2 DEF LookUp, Final
<1>8. ASSUME NEW a \in Attempts, NEW c \in Creds, CheckCredential(a, c) PROVE TypeInv'
  <2>1. CASE Respond(a, "revoked")
    <3>1. checked' \in [Attempts -> SUBSET Creds] BY <1>8 DEF CheckCredential, TypeOK
    <3> QED BY <1>8, <2>1, <3>1, RespondTyped DEF CheckCredential, TypeOK, CpuTyped, Final, durable, bounds
  <2>2. CASE ~ Respond(a, "revoked")
    BY <1>8, <2>2 DEF CheckCredential, TypeOK, CpuTyped, Running, durable, locks, bounds
  <2> QED BY <2>1, <2>2
<1>9. ASSUME NEW a \in Attempts, CheckCap(a) PROVE TypeInv'
  <2>1. CASE Respond(a, "capped")
    BY <1>9, <2>1, RespondTyped DEF CheckCap, TypeOK, CpuTyped, Final, durable, bounds
  <2>2. CASE ~ Respond(a, "capped")
    BY <1>9, <2>2 DEF CheckCap, OwnerGranted, TypeOK, CpuTyped, Entry, Running, durable, bounds
  <2> QED BY <2>1, <2>2
<1>10. ASSUME NEW a \in Attempts, SigningFails(a) PROVE TypeInv'
  BY <1>10, RespondTyped DEF SigningFails, TypeOK, CpuTyped, Final, durable, bounds
<1>11. ASSUME NEW a \in Attempts, WriteJournal(a) PROVE TypeInv'
  <2>1. CASE Respond(a, "failed") /\ WriteFails /\ UNCHANGED <<journal, cpu>>
    <3>1. faults' \in Nat BY <2>1 DEF WriteFails, TypeOK
    <3>2. UNCHANGED <<revoked, holdings, replay, taken, checked, answer, lapsed, boot, crashes>>
      BY <1>11 DEF WriteJournal
    <3> QED BY <2>1, <3>1, <3>2, RespondTyped DEF TypeOK, CpuTyped, Final
  <2>2. CASE cpu' = [who |-> a, txn |-> a, step |-> "register"] /\ WriteWorks
    <3>1. /\ journal' = [journal EXCEPT ![Key[a]] = a]
          /\ pc' = [pc EXCEPT ![a] = "committing"]
          /\ ridLease' = IF a \in Anonymous THEN [ridLease EXCEPT ![Key[a]] = a] ELSE ridLease
          /\ UNCHANGED <<spendLock, ownerLease, revoked, holdings, replay, taken, checked,
                         answer, lapsed, boot, crashes, faults>>
      BY <1>11, <2>2 DEF WriteJournal, WriteWorks, Ready, Free
    <3> QED BY <2>2, <3>1 DEF TypeOK, CpuTyped, Entry, Steps, Running
  <2> QED BY <1>11, <2>1, <2>2 DEF WriteJournal
<1>12. ASSUME Register PROVE TypeInv'
  BY <1>12 DEF Register, GoTo, WriteWorks, WriteFails, TypeOK, CpuTyped, Steps, locks, request, ReplacementAssumption
<1>13. ASSUME Revoke PROVE TypeInv'
  BY <1>13 DEF Revoke, GoTo, WriteWorks, WriteFails, TypeOK, CpuTyped, Steps, locks, request, ReplacementAssumption
<1>14. ASSUME FinishRegister PROVE TypeInv'
  BY <1>14, ContinueTyped DEF FinishRegister, GoTo, WriteWorks, WriteFails, TypeOK, CpuTyped, Steps, locks, ReplacementAssumption
<1>15. ASSUME StoreReplay PROVE TypeInv'
  BY <1>15, ContinueTyped DEF StoreReplay, GoTo, WriteWorks, WriteFails, TypeOK, CpuTyped, Entry, Steps, locks, ReplacementAssumption
<1>16. ASSUME RemoveJournal PROVE TypeInv'
  BY <1>16, ContinueTyped DEF RemoveJournal, WriteWorks, WriteFails, TypeOK, CpuTyped, Entry, ReplacementAssumption
<1>17. ASSUME Unregister PROVE TypeInv'
  BY <1>17 DEF Unregister, GoTo, WriteWorks, WriteFails, TypeOK, CpuTyped, Steps, locks, request, ReplacementAssumption
<1>18. ASSUME DropJournal PROVE TypeInv'
  BY <1>18, ContinueTyped DEF DropJournal, WriteWorks, WriteFails, TypeOK, CpuTyped, Entry, ReplacementAssumption
<1>19. ASSUME NEW k \in Keys, SweepTakes(k) PROVE TypeInv'
  BY <1>19 DEF SweepTakes, Due, RecoveryStep, ReplacementAssumption, TypeOK, CpuTyped, Entry, Steps, durable, request, bounds
<1>20. ASSUME NEW c \in Creds, AdminRevoke(c) PROVE TypeInv'
  BY <1>20 DEF AdminRevoke, TypeOK, CpuTyped, locks, request, bounds
<1>21. ASSUME Crash PROVE TypeInv'
  BY <1>21 DEF Crash, TypeOK, CpuTyped, Free, Entry, Final, durable
<1>22. CASE UNCHANGED vars
  BY <1>22 DEF vars, durable, locks, request, bounds, TypeOK, CpuTyped
<1> QED
  BY <1>1, <1>2, <1>3, <1>4, <1>5, <1>6, <1>7, <1>8, <1>9, <1>10, <1>11, <1>12, <1>13,
     <1>14, <1>15, <1>16, <1>17, <1>18, <1>19, <1>20, <1>21, <1>22 DEF Next, Protocol, Advance

\* Every variable stays in its type.
THEOREM TypeCorrect == Spec => []TypeOK
<1>1. Init => TypeInv BY TypeInit, ReplacementAssumption
<1>2. TypeInv /\ [Next]_vars => TypeInv' BY TypeNext, ReplacementAssumption
<1>3. TypeInv => TypeOK BY DEF TypeInv
<1> QED BY <1>1, <1>2, <1>3, PTL DEF Spec

-----------------------------------------------------------------------------
(* NoDoubleSpend.  It holds because a request that has checked a            *)
(* credential still holds its lock when it revokes it, so the invariant    *)
(* has to carry the locks, the checks and what they have established.      *)

\* Between its first check and its own write of the revocation list.
Spending(a) ==
  \/ pc[a] \in {"checking", "signing"}
  \/ pc[a] = "committing" /\ cpu.who = a /\ cpu.step \in {"register", "revoke"}

\* No lock is ever taken from a running request.
LocksHeld ==
  /\ lapsed = {}
  /\ \A a \in Attempts : pc[a] \in Running => \A c \in taken[a] : spendLock[c] = a

\* Past "locking" all locks are taken, past "checking" all credentials checked.
ChecksUnderLock ==
  \A a \in Attempts :
    /\ checked[a] \subseteq taken[a]
    /\ pc[a] \in Running \ {"locking"} => taken[a] = Preds[a]
    /\ pc[a] \in {"signing", "committing"} => checked[a] = Preds[a]
    /\ pc[a] \in {"new", "locking", "recovering"} => checked[a] = {}
    /\ pc[a] = "new" => taken[a] = {}

\* Before the commit point the running code works on its own transaction.
CommitsOwn ==
  /\ cpu.step \in {"register", "revoke"} => cpu.who = cpu.txn /\ pc[cpu.txn] = "committing"
  /\ cpu.step = "lookup" => pc[cpu.who] = "recovering"

\* What a request has found unspent nobody spends before it does.
CheckedUnspent ==
  \A a \in Attempts : Spending(a) =>
    \A c \in checked[a] : \A t \in Attempts : <<c, t>> \notin revoked

SpendInv ==
  TypeInv /\ LocksHeld /\ ChecksUnderLock /\ CommitsOwn /\ CheckedUnspent /\ NoDoubleSpend

LEMMA SpendInit == ASSUME ReplacementAssumption, Init PROVE SpendInv
BY TypeInit DEF Init, SpendInv, LocksHeld, ChecksUnderLock, CommitsOwn, CheckedUnspent,
   Spending, NoDoubleSpend, Free, Running

\* A step of the running code that spends nothing and answers nobody.
LEMMA QuietStep ==
  ASSUME SpendInv, TypeInv', UNCHANGED <<pc, taken, checked, lapsed, revoked, spendLock>>,
         cpu'.step \notin {"register", "revoke"},
         cpu'.step = "lookup" => pc'[cpu'.who] = "recovering"
  PROVE  SpendInv'
BY DEF SpendInv, LocksHeld, ChecksUnderLock, CommitsOwn, CheckedUnspent, Spending, NoDoubleSpend

\* A request that ends gives back its own locks only.
LEMMA RespondStep ==
  ASSUME SpendInv, TypeInv', NEW a \in Attempts, NEW outcome \in Final, Respond(a, outcome),
         UNCHANGED <<taken, checked, lapsed, revoked>>, cpu' = Free
  PROVE  SpendInv'
<1> USE DEF SpendInv
<1>1. /\ pc' = [pc EXCEPT ![a] = outcome]
      /\ outcome \notin Running \cup {"new"}
      /\ \A b \in Attempts : b # a => pc'[b] = pc[b]
      /\ pc'[a] = outcome
  BY DEF Respond, Final, Running, TypeInv, TypeOK
<1>2. LocksHeld'
  BY <1>1 DEF LocksHeld, Respond, Release, TypeInv, TypeOK
<1>3. ChecksUnderLock'
  BY <1>1 DEF ChecksUnderLock, Running
<1>4. CommitsOwn' BY DEF CommitsOwn, Free
<1>5. CheckedUnspent'
  BY <1>1 DEF CheckedUnspent, Spending, Free, Running
<1>6. NoDoubleSpend' BY DEF NoDoubleSpend
<1> QED BY <1>2, <1>3, <1>4, <1>5, <1>6

\* Continue ends the work on one transaction without spending anything.
LEMMA ContinueStep ==
  ASSUME SpendInv, TypeInv', NEW outcome, Continue(outcome),
         UNCHANGED <<taken, checked, lapsed, revoked>>
  PROVE  SpendInv'
<1>1. CASE \E a \in Attempts : \E done \in Final : Respond(a, done) /\ cpu' = Free
  BY <1>1, RespondStep
<1>2. CASE /\ UNCHANGED <<pc, spendLock>>
           /\ cpu'.step = "idle" \/ (cpu'.step = "lookup" /\ pc'[cpu'.who] = "recovering")
  BY <1>2, QuietStep
<1>3. "answered" \in Final /\ "failed" \in Final BY DEF Final
<1>4. Free.step = "idle" BY DEF Free
<1>5. GoTo("lookup") => cpu'.step = "lookup" /\ cpu'.who = cpu.who BY DEF GoTo, SpendInv, TypeInv, TypeOK
<1> QED BY <1>1, <1>2, <1>3, <1>4, <1>5 DEF Continue, locks

\* One request moves on between two awaits: its locks, checks and the
\* revocation list stay as they are.
LEMMA MoveStep ==
  ASSUME SpendInv, TypeInv', NEW a \in Attempts, NEW to \in {"locking", "recovering", "checking"},
         pc[a] \in {"new", "locking", "recovering"},
         pc' = [pc EXCEPT ![a] = to],
         to = "locking" \/ (pc[a] # "new" /\ taken[a] = Preds[a]),
         UNCHANGED <<taken, checked, lapsed, revoked, spendLock>>,
         cpu.step \notin {"register", "revoke"} \/ cpu.who # a,
         cpu'.step \notin {"register", "revoke"},
         cpu'.step = "lookup" => pc'[cpu'.who] = "recovering"
  PROVE  SpendInv'
<1> USE DEF SpendInv
<1>1. pc'[a] = to /\ \A b \in Attempts : b # a => pc'[b] = pc[b]
  BY DEF TypeInv, TypeOK
<1>2. checked[a] = {} BY DEF ChecksUnderLock
<1>3. LocksHeld'
  BY <1>1 DEF LocksHeld, ChecksUnderLock, Running
<1>4. ChecksUnderLock'
  BY <1>1, <1>2 DEF ChecksUnderLock, Running
<1>5. CommitsOwn' BY DEF CommitsOwn
<1>6. CheckedUnspent'
  BY <1>1, <1>2 DEF CheckedUnspent, Spending
<1>7. NoDoubleSpend' BY DEF NoDoubleSpend
<1> QED BY <1>3, <1>4, <1>5, <1>6, <1>7

LEMMA SpendNext ==
  ASSUME ReplacementAssumption, MayLapse = FALSE, SpendInv, [Next]_vars
  PROVE  SpendInv'
<1> USE DEF SpendInv
<1>0. TypeInv' BY TypeNext
<1>1. ASSUME NEW a \in Attempts, Arrive(a) PROVE SpendInv'
  BY <1>0, <1>1, MoveStep DEF Arrive, Ready, Free, durable, locks
<1>2. ASSUME NEW a \in Attempts, NEW c \in Creds, TakeSpendLock(a, c) PROVE SpendInv'
  <2>1. /\ taken' = [taken EXCEPT ![a] = @ \cup {c}]
        /\ spendLock' = [spendLock EXCEPT ![c] = a]
        /\ spendLock[c] = None /\ c \in Preds[a] /\ pc[a] = "locking"
        /\ UNCHANGED <<pc, checked, lapsed, revoked, cpu>>
    BY <1>2 DEF TakeSpendLock, Granted, NextLock, LocksHeld, durable
  <2>2. \A b \in Attempts : b # None BY ReplacementAssumption DEF ReplacementAssumption
  <2>3. LocksHeld' BY <2>1, <2>2 DEF LocksHeld, TypeInv, TypeOK
  <2>4. ChecksUnderLock' BY <2>1 DEF ChecksUnderLock, TypeInv, TypeOK
  <2>5. CommitsOwn' /\ CheckedUnspent' /\ NoDoubleSpend'
    BY <2>1 DEF CommitsOwn, CheckedUnspent, Spending, NoDoubleSpend
  <2> QED BY <1>0, <2>3, <2>4, <2>5
<1>3. ASSUME NEW a \in Attempts, GiveUp(a) PROVE SpendInv'
  <2>1. "busy" \in Final /\ Respond(a, "busy") BY <1>3 DEF Final, GiveUp
  <2> QED BY <1>0, <1>3, <2>1, RespondStep DEF GiveUp, Ready, durable
<1>4. ASSUME NEW a \in Attempts, Lapse(a) PROVE SpendInv'
  BY <1>4 DEF Lapse
<1>5. ASSUME NEW a \in Attempts, TakeLease(a) PROVE SpendInv'
  <2>1. cpu'.step \notin {"register", "revoke"} /\ cpu'.who = a /\ pc'[a] = "recovering"
    BY <1>5 DEF TakeLease, RecoveryStep, TypeInv, TypeOK
  <2> QED BY <1>0, <1>5, <2>1, MoveStep DEF TakeLease, Ready, Free, durable
<1>6. ASSUME NEW a \in Attempts, SkipLease(a) PROVE SpendInv'
  BY <1>0, <1>6, MoveStep DEF SkipLease, Ready, Free, durable, locks
<1>7. ASSUME NEW a \in Attempts, LookUp(a) PROVE SpendInv'
  <2>1. CASE \E done \in Final : Respond(a, done)
    <3>1. PICK done \in Final : Respond(a, done) BY <2>1
    <3> QED BY <1>0, <1>7, <3>1, RespondStep DEF LookUp, durable
  <2>2. CASE pc' = [pc EXCEPT ![a] = "checking"] /\ UNCHANGED locks
    <3>1. pc[a] = "recovering" BY <1>7 DEF LookUp, CommitsOwn
    <3>2. taken[a] = Preds[a] BY <3>1 DEF ChecksUnderLock, Running
    <3> QED BY <1>0, <1>7, <2>2, <3>1, <3>2, MoveStep DEF LookUp, Free, durable, locks
  <2>3. "answered" \in Final /\ "conflict" \in Final BY DEF Final
  <2> QED BY <1>7, <2>1, <2>2, <2>3 DEF LookUp
<1>8. ASSUME NEW a \in Attempts, NEW c \in Creds, CheckCredential(a, c) PROVE SpendInv'
  <2>1. CASE Respond(a, "revoked") /\ UNCHANGED checked
    <3>1. "revoked" \in Final BY DEF Final
    <3> QED BY <1>0, <1>8, <2>1, <3>1, RespondStep DEF CheckCredential, Ready, durable
  <2>2. CASE ~ IsRevoked(c)
    <3>1. /\ checked' = [checked EXCEPT ![a] = @ \cup {c}]
          /\ pc' = [pc EXCEPT ![a] = IF checked'[a] = Preds[a] THEN "signing" ELSE @]
          /\ UNCHANGED <<taken, lapsed, revoked, spendLock, cpu>>
          /\ c \in Preds[a] /\ pc[a] = "checking"
      BY <1>8, <2>2 DEF CheckCredential, locks, durable
    <3>2. \A t \in Attempts : <<c, t>> \notin revoked BY <2>2 DEF IsRevoked
    <3>3. taken[a] = Preds[a] BY <3>1 DEF ChecksUnderLock, Running
    <3>4. /\ checked'[a] = checked[a] \cup {c}
          /\ \A b \in Attempts : b # a => checked'[b] = checked[b] /\ pc'[b] = pc[b]
          /\ pc'[a] \in {"checking", "signing"}
          /\ pc'[a] = "signing" => checked'[a] = Preds[a]
      BY <3>1 DEF TypeInv, TypeOK
    <3>5. LocksHeld' BY <3>1, <3>4 DEF LocksHeld, Running
    <3>6. ChecksUnderLock' BY <3>1, <3>3, <3>4 DEF ChecksUnderLock, Running
    <3>7. CommitsOwn' /\ NoDoubleSpend'
      BY <1>8, <3>1 DEF CommitsOwn, NoDoubleSpend, CheckCredential, Ready, Free
    <3>8. CheckedUnspent'
      <4> SUFFICES ASSUME NEW b \in Attempts, Spending(b)', NEW d \in checked'[b], NEW t \in Attempts
                   PROVE  <<d, t>> \notin revoked
        BY <3>1 DEF CheckedUnspent
      <4>1. CASE b = a BY <3>1, <3>2, <3>4, <4>1 DEF CheckedUnspent, Spending
      <4>2. CASE b # a BY <3>1, <3>4, <4>2 DEF CheckedUnspent, Spending
      <4> QED BY <4>1, <4>2
    <3> QED BY <1>0, <3>5, <3>6, <3>7, <3>8
  <2> QED BY <1>8, <2>1, <2>2 DEF CheckCredential
<1>9. ASSUME NEW a \in Attempts, CheckCap(a) PROVE SpendInv'
  <2>1. CASE Respond(a, "capped")
    <3>1. "capped" \in Final BY DEF Final
    <3> QED BY <1>0, <1>9, <2>1, <3>1, RespondStep DEF CheckCap, Ready, durable
  <2>2. CASE ~ Respond(a, "capped")
    <3>1. /\ pc' = [pc EXCEPT ![a] = "signing"] /\ pc[a] = "checking" /\ Preds[a] = {}
          /\ UNCHANGED <<taken, checked, lapsed, revoked, spendLock, cpu>> /\ cpu = Free
      BY <1>9, <2>2 DEF CheckCap, IsIssue, Ready, durable
    <3>2. /\ pc'[a] = "signing" /\ taken[a] = {} /\ checked[a] = {}
          /\ \A b \in Attempts : b # a => pc'[b] = pc[b]
      BY <3>1 DEF ChecksUnderLock, Running, TypeInv, TypeOK
    <3>3. LocksHeld' /\ ChecksUnderLock'
      <4>1. LocksHeld' BY <3>1, <3>2 DEF LocksHeld, Running
      <4>2. ChecksUnderLock' BY <3>1, <3>2 DEF ChecksUnderLock, Running
      <4> QED BY <4>1, <4>2
    <3>4. CommitsOwn' /\ CheckedUnspent' /\ NoDoubleSpend'
      BY <3>1, <3>2 DEF CommitsOwn, CheckedUnspent, Spending, NoDoubleSpend, Free
    <3> QED BY <1>0, <3>3, <3>4
  <2> QED BY <2>1, <2>2
<1>10. ASSUME NEW a \in Attempts, SigningFails(a) PROVE SpendInv'
  <2>1. "failed" \in Final BY DEF Final
  <2> QED BY <1>0, <1>10, <2>1, RespondStep DEF SigningFails, Ready, durable
<1>11. ASSUME NEW a \in Attempts, WriteJournal(a) PROVE SpendInv'
  <2>1. CASE Respond(a, "failed") /\ UNCHANGED cpu
    <3>1. "failed" \in Final BY DEF Final
    <3> QED BY <1>0, <1>11, <2>1, <3>1, RespondStep DEF WriteJournal, Ready
  <2>2. CASE cpu' = [who |-> a, txn |-> a, step |-> "register"] /\ pc' = [pc EXCEPT ![a] = "committing"]
             /\ UNCHANGED spendLock
    <3>1. pc[a] = "signing" /\ cpu = Free /\ UNCHANGED <<taken, checked, lapsed, revoked>>
      BY <1>11 DEF WriteJournal, Ready
    <3>2. pc'[a] = "committing" /\ \A b \in Attempts : b # a => pc'[b] = pc[b]
      BY <2>2 DEF TypeInv, TypeOK
    <3>3. LocksHeld' /\ ChecksUnderLock'
      BY <2>2, <3>1, <3>2 DEF LocksHeld, ChecksUnderLock, Running
    <3>4. CommitsOwn' BY <2>2, <3>2 DEF CommitsOwn
    <3>5. CheckedUnspent' BY <2>2, <3>1, <3>2 DEF CheckedUnspent, Spending
    <3>6. NoDoubleSpend' BY <3>1 DEF NoDoubleSpend
    <3> QED BY <1>0, <3>3, <3>4, <3>5, <3>6
  <2> QED BY <1>11, <2>1, <2>2 DEF WriteJournal
<1>12. ASSUME Register PROVE SpendInv'
  <2>1. /\ cpu.step = "register" /\ cpu'.step \in {"revoke", "unregister"} /\ cpu'.who = cpu.who
        /\ cpu'.txn = cpu.txn /\ UNCHANGED <<pc, taken, checked, lapsed, revoked, spendLock>>
    BY <1>12 DEF Register, GoTo, TypeInv, TypeOK, locks, request
  <2>2. LocksHeld' /\ ChecksUnderLock' /\ NoDoubleSpend'
    BY <2>1 DEF LocksHeld, ChecksUnderLock, NoDoubleSpend
  <2>3. CommitsOwn' /\ CheckedUnspent'
    BY <2>1 DEF CommitsOwn, CheckedUnspent, Spending
  <2> QED BY <1>0, <2>2, <2>3
<1>13. ASSUME Revoke PROVE SpendInv'
  <2> DEFINE t == cpu.txn
  <2>1. /\ cpu.who = t /\ t \in Attempts /\ pc[t] = "committing" /\ cpu.step = "revoke"
        /\ UNCHANGED <<pc, taken, checked, lapsed, spendLock>>
        /\ cpu'.step \in {"finish", "unregister"}
        /\ revoked' = revoked \/ revoked' = revoked \cup (Preds[t] \X {t})
    BY <1>13 DEF Revoke, GoTo, CommitsOwn, TypeInv, TypeOK, CpuTyped, locks, request
  <2>2. checked[t] = Preds[t] /\ taken[t] = Preds[t] BY <2>1 DEF ChecksUnderLock, Running
  <2>3. \A c \in Preds[t] : \A s \in Attempts : <<c, s>> \notin revoked
    BY <2>1, <2>2 DEF CheckedUnspent, Spending
  <2>4. LocksHeld' /\ ChecksUnderLock' /\ CommitsOwn'
    BY <2>1 DEF LocksHeld, ChecksUnderLock, CommitsOwn
  <2>5. ASSUME NEW b \in Attempts, Spending(b)', NEW c \in checked[b], NEW s \in Attempts
        PROVE  <<c, s>> \notin revoked'
    <3>1. Spending(b) /\ b # t /\ pc[b] \in Running BY <2>1, <2>5 DEF Spending, Running
    <3>2. c \in taken[b] BY DEF ChecksUnderLock
    <3>3. c \notin Preds[t] BY <2>1, <2>2, <3>1, <3>2 DEF LocksHeld, Running
    <3>4. <<c, s>> \notin revoked BY <3>1 DEF CheckedUnspent
    <3> QED BY <2>1, <3>3, <3>4
  <2>6. CheckedUnspent' BY <2>1, <2>5 DEF CheckedUnspent
  <2>7. NoDoubleSpend' BY <2>1, <2>3 DEF NoDoubleSpend
  <2> QED BY <1>0, <2>4, <2>6, <2>7
<1>14. ASSUME FinishRegister PROVE SpendInv'
  <2>1. CASE \E outcome : Continue(outcome)
    BY <1>0, <1>14, <2>1, ContinueStep DEF FinishRegister
  <2>2. CASE GoTo("store") /\ UNCHANGED <<locks, pc, answer>>
    <3>1. cpu'.step = "store" BY <2>2 DEF GoTo, TypeInv, TypeOK
    <3> QED BY <1>0, <1>14, <2>2, <3>1, QuietStep DEF FinishRegister, locks
  <2> QED BY <1>14, <2>1, <2>2 DEF FinishRegister
<1>15. ASSUME StoreReplay PROVE SpendInv'
  <2>1. CASE \E outcome : Continue(outcome)
    BY <1>0, <1>15, <2>1, ContinueStep DEF StoreReplay
  <2>2. CASE GoTo("remove") /\ UNCHANGED <<locks, pc, answer>>
    <3>1. cpu'.step = "remove" BY <2>2 DEF GoTo, TypeInv, TypeOK
    <3> QED BY <1>0, <1>15, <2>2, <3>1, QuietStep DEF StoreReplay, locks
  <2> QED BY <1>15, <2>1, <2>2 DEF StoreReplay
<1>16. ASSUME RemoveJournal PROVE SpendInv'
  BY <1>0, <1>16, ContinueStep DEF RemoveJournal
<1>17. ASSUME Unregister PROVE SpendInv'
  <2>1. cpu'.step = "drop" BY <1>17 DEF Unregister, GoTo, TypeInv, TypeOK
  <2> QED BY <1>0, <1>17, <2>1, QuietStep DEF Unregister, locks, request
<1>18. ASSUME DropJournal PROVE SpendInv'
  BY <1>0, <1>18, ContinueStep DEF DropJournal
<1>19. ASSUME NEW k \in Keys, SweepTakes(k) PROVE SpendInv'
  <2>1. cpu'.step \notin {"register", "revoke", "lookup"} BY <1>19 DEF SweepTakes, RecoveryStep
  <2> QED BY <1>0, <1>19, <2>1, QuietStep DEF SweepTakes, durable, request
<1>20. ASSUME NEW c \in Creds, AdminRevoke(c) PROVE SpendInv'
  <2>1. /\ \A d \in Creds : \A t \in Attempts : <<d, t>> \in revoked' <=> <<d, t>> \in revoked
        /\ UNCHANGED <<pc, taken, checked, lapsed, spendLock, cpu>>
    BY <1>20, ReplacementAssumption DEF AdminRevoke, locks, request, ReplacementAssumption
  <2>2. LocksHeld' /\ ChecksUnderLock' /\ CommitsOwn' /\ NoDoubleSpend'
    BY <2>1 DEF LocksHeld, ChecksUnderLock, CommitsOwn, NoDoubleSpend
  <2>3. CheckedUnspent'
    <3>1. \A a \in Attempts : /\ Spending(a)' <=> Spending(a)
                              /\ checked'[a] = checked[a] /\ checked[a] \subseteq Creds
      BY <2>1 DEF Spending, TypeInv, TypeOK
    <3> QED BY <2>1, <3>1 DEF CheckedUnspent
  <2> QED BY <1>0, <2>2, <2>3
<1>21. ASSUME Crash PROVE SpendInv'
  <2>1. /\ \A a \in Attempts : pc'[a] \notin Running
        /\ \A a \in Attempts : pc'[a] = "new" => pc[a] = "new"
        /\ UNCHANGED <<taken, checked, lapsed, revoked>> /\ cpu' = Free
    BY <1>21 DEF Crash, Running, durable
  <2>2. LocksHeld' /\ ChecksUnderLock'
    BY <2>1 DEF LocksHeld, ChecksUnderLock, Running
  <2>3. CommitsOwn' /\ CheckedUnspent' /\ NoDoubleSpend'
    BY <2>1 DEF CommitsOwn, CheckedUnspent, Spending, NoDoubleSpend, Free, Running
  <2> QED BY <1>0, <2>2, <2>3
<1>22. CASE UNCHANGED vars
  BY <1>0, <1>22 DEF vars, durable, locks, request, LocksHeld, ChecksUnderLock, CommitsOwn,
     CheckedUnspent, Spending, NoDoubleSpend
<1> QED
  BY <1>1, <1>2, <1>3, <1>4, <1>5, <1>6, <1>7, <1>8, <1>9, <1>10, <1>11, <1>12, <1>13,
     <1>14, <1>15, <1>16, <1>17, <1>18, <1>19, <1>20, <1>21, <1>22 DEF Next, Protocol, Advance

\* While no lock is taken from a running request, no two transactions spend
\* the same credential (lockSpend, checkPresentedAsset, revokeMany).
THEOREM SpentOnce == MayLapse = FALSE => (Spec => []NoDoubleSpend)
<1> SUFFICES ASSUME MayLapse = FALSE PROVE Spec => []NoDoubleSpend OBVIOUS
<1>1. Init => SpendInv BY SpendInit, ReplacementAssumption
<1>2. SpendInv /\ [Next]_vars => SpendInv' BY SpendNext, ReplacementAssumption
<1>3. SpendInv => NoDoubleSpend BY DEF SpendInv
<1> QED BY <1>1, <1>2, <1>3, PTL DEF Spec

=============================================================================
