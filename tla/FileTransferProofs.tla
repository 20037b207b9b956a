--------------------------- MODULE FileTransferProofs ---------------------------
(***************************************************************************)
(* The item is there exactly once (ValueKeptOnce) and changes its form as  *)
(* OneItem does, for every set of requests and any number of stops, as     *)
(* long as the owner does not recover while a request is spending the      *)
(* original (Overlap = FALSE).                                             *)
(***************************************************************************)
EXTENDS FileTransfer, FiniteSetTheorems, TLAPS

Spending(s) == s \in Spends /\ pc[s] = "minting"

Busy == {"locked", "minting", "writing"}

\* from the lock to the answer a request holds its spend lock
LockHeld ==
  \A r \in Requests : pc[r] \in Busy => lock[LockOf(r)] = r

\* who may be in the synchronous stretch, and what it has already seen there
CpuKnows ==
  /\ cpu.who \in Requests => pc[cpu.who] = "writing"
  /\ cpu.who \in Exports => claim = None
  /\ Overlap = FALSE /\ cpu.who \in Exports \cup Challenges => \A s \in Spends : ~ Spending(s)
  /\ cpu.at = "reconcile" => record # None /\ cpu.who \in Exports \cup Challenges
  /\ cpu.at \in {"finish", "note", "answer"} => claim # None /\ cpu.who \in Claims \cup Challenges
  /\ cpu.at = "answer" => cpu.who \in Claims

NoFile == listed = {} /\ released = {} /\ claim = None
Ended  == {"pending", "claimed", "revoked"}

\* what the state of the export record says of the other files
RecordTells ==
  /\ revoked[Original] # "file-claimed"
  /\ record = None => NoFile /\ revoked[Original] # "file-transferred" /\ \A f \in Exports : revoked[f] = None
  /\ record # None =>
       /\ listed \subseteq {File} /\ released \subseteq {File}
       /\ \A f \in Exports \ {File} : revoked[f] = None
       /\ revoked[File] \in {None, "operator", "file-claimed"}
       /\ revoked[File] = "file-claimed" => claim # None
       /\ record.state \in {"prepared", "abandoned"} => NoFile /\ revoked[File] = None
       /\ record.state = "abandoned" => revoked[Original] \notin {None, "file-transferred"}
       /\ record.state \in {"original-revoked"} \cup Ended => revoked[Original] = "file-transferred"
       /\ record.state = "original-revoked" => released = {} /\ claim = None /\ revoked[File] = None
       /\ record.state \in Ended /\ claim = None => File \in listed
       /\ record.state \in Ended \ {"pending"} /\ claim = None => revoked[File] # None

\* one spend at most, and none once the original has gone into a file
OneSpend == Overlap = FALSE =>
  /\ \A s \in Spends : Spending(s) => revoked[Original] \in {None, "operator"}
  /\ \A s \in Spends : pc[s] = "done" =>
       /\ revoked[Original] \in {"spent", "operator"}
       /\ \A t \in Spends : Spending(t) \/ pc[t] = "done" => t = s
  /\ revoked[Original] = "spent" => \E s \in Spends : pc[s] = "done"

\* one claim at most, and every answer is its credential
OneClaim ==
  /\ \A c \in Claims : pc[c] # "new" => released # {}
  /\ \A c \in Claims : pc[c] = "minting" => claim = None
  /\ \A c \in Claims : answer[c] # None => claim # None /\ answer[c] = claim.minted

FileInv == TypeOK /\ LockHeld /\ CpuKnows /\ RecordTells /\ OneSpend /\ OneClaim

-----------------------------------------------------------------------------
(* What an action that does not touch a part leaves true of it.            *)

\* Nobody begins to hold a lock, and no lock changes hands.
LEMMA LocksKept ==
  ASSUME LockHeld, UNCHANGED lock,
         \A r \in Requests : pc'[r] \in Busy => pc[r] \in Busy
  PROVE  LockHeld'
BY DEF LockHeld, LockOf, Busy

\* The one request that gives its lock back has ended.
LEMMA LocksEnd ==
  ASSUME FileAssumption, TypeOK, LockHeld, NEW r \in Requests, NEW outcome, outcome \notin Busy,
         End(r, outcome)
  PROVE  LockHeld'
<1>1. ASSUME NEW q \in Requests, pc'[q] \in Busy PROVE lock'[LockOf(q)] = q
  <2>1. q # r /\ pc'[q] = pc[q] BY <1>1 DEF End, To, TypeOK, Requests
  <2>2. lock[LockOf(q)] = q BY <1>1, <2>1 DEF LockHeld, Busy
  <2>3. LockOf(q) \in DOMAIN lock BY DEF LockOf, TypeOK
  <2> QED BY <2>1, <2>2, <2>3 DEF End
<1> QED BY <1>1 DEF LockHeld, Busy

LEMMA RecordKept ==
  ASSUME RecordTells, UNCHANGED <<record, listed, revoked, claim, released>>
  PROVE  RecordTells'
BY DEF RecordTells, NoFile, Ended, File

\* No spend begins to mint, and none is done.
LEMMA SpendsKept ==
  ASSUME OneSpend, UNCHANGED revoked,
         \A s \in Spends : /\ pc'[s] = "done" <=> pc[s] = "done"
                           /\ pc'[s] = "minting" => pc[s] = "minting"
  PROVE  OneSpend'
BY DEF OneSpend, Spending

LEMMA ClaimsKept ==
  ASSUME OneClaim, UNCHANGED <<claim, released, answer>>,
         \A c \in Claims : /\ pc[c] = "new" => pc'[c] = "new"
                           /\ pc'[c] = "minting" => pc[c] = "minting"
  PROVE  OneClaim'
BY DEF OneClaim

\* An empty stretch has seen nothing.
LEMMA IdleKnows ==
  ASSUME FileAssumption, cpu' = Idle PROVE CpuKnows'
BY DEF FileAssumption, CpuKnows, Idle, Requests

-----------------------------------------------------------------------------
(* Requests                                                                *)

LEMMA RequestNext ==
  ASSUME FileAssumption, FileInv, NEW r \in Requests,
         Start(r) \/ TakeLock(r) \/ GiveUp(r) \/ CheckOriginal(r) \/ MintFails(r)
  PROVE  FileInv'
<1> USE DEF disk, memory, clients
<1>1. TypeOK /\ LockHeld /\ CpuKnows /\ RecordTells /\ OneSpend /\ OneClaim BY DEF FileInv
<1>2. cpu = Idle /\ UNCHANGED <<disk, cpu, clients, faults>> /\ r \notin Challenges
  BY DEF Start, TakeLock, GiveUp, CheckOriginal, MintFails, Ready, FileAssumption
<1>3. CpuKnows' /\ RecordTells' BY <1>1, <1>2, IdleKnows, RecordKept
<1>4. pc[r] \in {"new", "waiting", "locked", "minting"}
  BY DEF Start, TakeLock, GiveUp, CheckOriginal, MintFails
<1>5. ASSUME NEW outcome \in {"busy", "refused", "failed"}, End(r, outcome), pc[r] # "new" PROVE FileInv'
  <2>1. TypeOK' BY <1>1, <1>2, <1>5 DEF TypeOK, End, To, Running
  <2>2. LockHeld' BY <1>1, <1>5, LocksEnd DEF Busy
  <2>3. OneSpend' /\ OneClaim'
    BY <1>1, <1>2, <1>4, <1>5, SpendsKept, ClaimsKept DEF End, To, TypeOK, Requests
  <2> QED BY <1>3, <2>1, <2>2, <2>3 DEF FileInv
<1>6. CASE Start(r)
  <2>1. TypeOK' BY <1>1, <1>6 DEF Start, To, TypeOK, Running
  <2>2. LockHeld' BY <1>1, <1>6, LocksKept DEF Start, To, TypeOK, Busy
  <2>3. OneSpend' BY <1>1, <1>6, SpendsKept DEF Start, To, TypeOK, Requests
  <2>4. OneClaim' BY <1>1, <1>6 DEF Start, To, TypeOK, OneClaim, Requests, FileAssumption
  <2> QED BY <1>3, <2>1, <2>2, <2>3, <2>4 DEF FileInv
<1>7. CASE TakeLock(r)
  <2>1. TypeOK' BY <1>1, <1>7 DEF TakeLock, To, TypeOK, LockOf, Running
  <2>2. LockHeld'
    BY <1>1, <1>7 DEF TakeLock, To, Free, TypeOK, LockHeld, LockOf, Busy, FileAssumption
  <2>3. OneSpend' /\ OneClaim'
    BY <1>1, <1>7, SpendsKept, ClaimsKept DEF TakeLock, To, TypeOK, Requests
  <2> QED BY <1>3, <2>1, <2>2, <2>3 DEF FileInv
<1>8. CASE GiveUp(r) BY <1>5, <1>8 DEF GiveUp
<1>9. CASE CheckOriginal(r)
  <2>1. CASE revoked[Original] # None BY <1>5, <1>9, <2>1 DEF CheckOriginal
  <2>2. CASE revoked[Original] = None
    <3>1. pc[r] = "locked" /\ r \in Exports \cup Spends /\ To(r, "minting") /\ UNCHANGED <<lock, inFlight>>
      BY <1>9, <2>2 DEF CheckOriginal
    <3>2. TypeOK' BY <1>1, <1>2, <3>1 DEF To, TypeOK, Running
    <3>3. LockHeld' BY <1>1, <3>1, LocksKept DEF To, TypeOK, Busy
    <3>4. OneSpend'
      <4>1. Overlap = FALSE => \A s \in Spends : pc[s] # "done" BY <1>1, <2>2 DEF OneSpend, FileAssumption, Reasons
      <4> QED BY <1>1, <1>2, <2>2, <3>1, <4>1 DEF OneSpend, Spending, To, TypeOK, Requests
    <3>5. OneClaim' BY <1>1, <1>2, <3>1, ClaimsKept DEF To, TypeOK, Requests, FileAssumption
    <3> QED BY <1>3, <3>2, <3>3, <3>4, <3>5 DEF FileInv
  <2> QED BY <2>1, <2>2
<1>10. CASE MintFails(r) BY <1>5, <1>10 DEF MintFails
<1> QED BY <1>6, <1>7, <1>8, <1>9, <1>10

LEMMA ExportNext ==
  ASSUME FileAssumption, FileInv, NEW x \in Exports, StartExport(x) \/ CreateExport(x)
  PROVE  FileInv'
<1> USE DEF disk, memory, clients
<1>1. TypeOK /\ LockHeld /\ CpuKnows /\ RecordTells /\ OneSpend /\ OneClaim BY DEF FileInv
<1>2. x \in Requests /\ x \notin Claims \cup Spends \cup Challenges
      /\ UNCHANGED <<listed, revoked, claim, used, clients, faults>>
  BY DEF Requests, FileAssumption, StartExport, CreateExport
<1>3. (\E where : To(x, where)) => OneSpend' /\ OneClaim'
  BY <1>1, <1>2, SpendsKept, ClaimsKept DEF To, TypeOK, Requests
<1>4. CASE StartExport(x)
  <2>1. pc[x] = "new" /\ UNCHANGED <<record, lock, cpu>>
        /\ \/ inFlight' = x /\ pc' = [pc EXCEPT ![x] = "waiting"]
           \/ inFlight' = inFlight /\ pc' = [pc EXCEPT ![x] = "refused"]
    BY <1>4 DEF StartExport, To
  <2>4. inFlight # x /\ \A l \in {"original", "file"} : lock[l] # x
    BY <1>1, <1>2, <2>1 DEF TypeOK, Running, FileAssumption
  <2>5. inFlight' \in {z \in Exports : pc'[z] \in Running} \cup {None}
    BY <1>1, <1>2, <2>1, <2>4 DEF TypeOK, Running, Requests
  <2>6. \A z \in Requests : z # x => pc'[z] = pc[z] BY <1>1, <2>1 DEF TypeOK
  <2>7. lock' \in [{"original", "file"} -> {r \in Requests : pc'[r] \in Running} \cup {None}]
    BY <1>1, <2>1, <2>4, <2>6 DEF TypeOK
  <2>0. TypeOK' BY <1>1, <1>2, <2>1, <2>5, <2>7 DEF TypeOK, Running
  <2>2. LockHeld' BY <1>1, <1>2, <1>4, LocksKept DEF StartExport, To, TypeOK, Busy
  <2>3. CpuKnows' /\ RecordTells' BY <1>1, <1>4, IdleKnows, RecordKept DEF StartExport, Ready
  <2> QED BY <1>3, <1>4, <2>0, <2>2, <2>3 DEF FileInv, StartExport
<1>5. CASE CreateExport(x) /\ End(x, "refused") /\ UNCHANGED <<record, cpu>>
  <2>1. TypeOK' BY <1>1, <1>2, <1>5 DEF CreateExport, End, To, TypeOK, Running
  <2>2. LockHeld' BY <1>1, <1>2, <1>5, LocksEnd DEF Busy
  <2>3. CpuKnows' /\ RecordTells' BY <1>1, <1>2, <1>5, IdleKnows, RecordKept DEF CreateExport, Ready
  <2> QED BY <1>3, <1>5, <2>1, <2>2, <2>3 DEF FileInv, End
<1>6. CASE /\ CreateExport(x) /\ record = None /\ To(x, "writing") /\ Enter(x, "reconcile")
           /\ record' = [file |-> x, state |-> "prepared"] /\ UNCHANGED <<inFlight, lock>>
  <2>1. TypeOK' BY <1>1, <1>2, <1>6 DEF Enter, To, TypeOK, Running, ExportRecords
  <2>2. LockHeld' BY <1>1, <1>2, <1>6, LocksKept DEF CreateExport, To, TypeOK, Busy
  <2>3. lock["original"] = x
    BY <1>1, <1>2, <1>6 DEF CreateExport, LockHeld, LockOf, Busy
  <2>4. \A s \in Spends : pc[s] # "minting"
    BY <1>1, <1>2, <2>3 DEF LockHeld, LockOf, Busy, Requests, FileAssumption
  <2>5. CpuKnows'
    BY <1>1, <1>2, <1>6, <2>4 DEF CpuKnows, Enter, To, TypeOK, Requests, Spending, RecordTells, NoFile,
         ExportRecords, FileAssumption
  <2>6. RecordTells' BY <1>1, <1>2, <1>6 DEF RecordTells, NoFile, Ended, File, TypeOK, ExportRecords, FileAssumption, Reasons
  <2> QED BY <1>3, <1>6, <2>1, <2>2, <2>5, <2>6 DEF FileInv
<1> QED BY <1>4, <1>5, <1>6 DEF CreateExport

\* A spend that commits is the only one: it has held the lock since it saw that
\* the original was not revoked.
LEMMA SpendNext ==
  ASSUME FileAssumption, FileInv, NEW s \in Spends, SpendCommits(s)
  PROVE  FileInv'
<1> USE DEF disk, memory, clients
<1>1. TypeOK /\ LockHeld /\ CpuKnows /\ RecordTells /\ OneSpend /\ OneClaim BY DEF FileInv
<1>2. /\ s \in Requests /\ s \notin Exports \cup Claims /\ pc[s] = "minting" /\ End(s, "done")
      /\ cpu' = Idle /\ UNCHANGED <<record, listed, claim, used, clients, faults>>
  BY DEF SpendCommits, Ready, Requests, FileAssumption
<1>3. Overlap = FALSE => revoked[Original] \in {None, "operator"} BY <1>1, <1>2 DEF OneSpend, Spending
<1>4. revoked' = [revoked EXCEPT ![Original] = IF @ = None THEN "spent" ELSE @] /\ Original \in Items
  BY <1>1 DEF SpendCommits, Revoke, TypeOK, Items
<1>5. /\ revoked'[Original] = IF revoked[Original] = None THEN "spent" ELSE revoked[Original]
      /\ \A f \in Exports : revoked'[f] = revoked[f]
  BY <1>1, <1>3, <1>4 DEF TypeOK, Items, FileAssumption, Requests
<1>6. TypeOK' BY <1>1, <1>2, <1>4 DEF End, To, TypeOK, Running, Reasons
<1>7. LockHeld' BY <1>1, <1>2, LocksEnd DEF Busy
<1>8. CpuKnows' BY <1>2, IdleKnows
<1>9. RecordTells' BY <1>1, <1>2, <1>3, <1>5 DEF RecordTells, NoFile, Ended, File, TypeOK, ExportRecords, Terminal, Reasons, FileAssumption
<1>10. OneSpend'
  <2>1. Overlap = FALSE => \A t \in Spends : Spending(t) \/ pc[t] = "done" => t = s
    BY <1>1, <1>2 DEF LockHeld, LockOf, Busy, OneSpend, Spending, Requests, FileAssumption
  <2> QED BY <1>1, <1>2, <1>3, <1>5, <2>1 DEF OneSpend, Spending, End, To, TypeOK, Requests, FileAssumption
<1>11. OneClaim' BY <1>1, <1>2, ClaimsKept DEF End, To, TypeOK, Requests
<1> QED BY <1>6, <1>7, <1>8, <1>9, <1>10, <1>11 DEF FileInv

LEMMA ClaimNext ==
  ASSUME FileAssumption, FileInv, NEW c \in Claims, CheckClaim(c) \/ CreateClaim(c)
  PROVE  FileInv'
<1> USE DEF disk, memory, clients
<1>1. TypeOK /\ LockHeld /\ CpuKnows /\ RecordTells /\ OneSpend /\ OneClaim BY DEF FileInv
<1>2. /\ c \in Requests /\ c \notin Exports \cup Spends \cup Challenges /\ pc[c] \in {"locked", "minting"}
      /\ UNCHANGED <<record, listed, revoked, used, clients, faults>> /\ cpu = Idle
  BY DEF Requests, FileAssumption, CheckClaim, CreateClaim, Ready
<1>3. (\E where : To(c, where)) => OneSpend'
  BY <1>1, <1>2, SpendsKept DEF To, TypeOK, Requests
<1>4. CASE CheckClaim(c) /\ End(c, "refused") /\ UNCHANGED cpu
  <2>1. TypeOK' BY <1>1, <1>2, <1>4 DEF CheckClaim, End, To, TypeOK, Running
  <2>2. LockHeld' BY <1>1, <1>2, <1>4, LocksEnd DEF Busy
  <2>3. CpuKnows' /\ RecordTells' BY <1>1, <1>2, <1>4, IdleKnows, RecordKept DEF CheckClaim
  <2>4. OneClaim' BY <1>1, <1>2, <1>4, ClaimsKept DEF CheckClaim, End, To, TypeOK, Requests
  <2> QED BY <1>3, <1>4, <2>1, <2>2, <2>3, <2>4 DEF FileInv, End
<1>5. CASE CheckClaim(c) /\ claim # None /\ To(c, "writing") /\ Enter(c, "finish") /\ UNCHANGED <<inFlight, lock>>
  <2>1. TypeOK' BY <1>1, <1>2, <1>5 DEF CheckClaim, Enter, To, TypeOK, Running
  <2>2. LockHeld' BY <1>1, <1>2, <1>5, LocksKept DEF CheckClaim, To, TypeOK, Busy
  <2>3. CpuKnows' BY <1>1, <1>2, <1>5 DEF CheckClaim, CpuKnows, Enter, To, TypeOK, Requests
  <2>4. RecordTells' BY <1>1, <1>2, <1>5, RecordKept DEF CheckClaim
  <2>5. OneClaim' BY <1>1, <1>2, <1>5, ClaimsKept DEF CheckClaim, To, TypeOK, Requests
  <2> QED BY <1>3, <1>5, <2>1, <2>2, <2>3, <2>4, <2>5 DEF FileInv
<1>6. CASE CheckClaim(c) /\ claim = None /\ To(c, "minting") /\ UNCHANGED <<inFlight, lock, cpu>>
  <2>1. TypeOK' BY <1>1, <1>2, <1>6 DEF CheckClaim, To, TypeOK, Running
  <2>2. LockHeld' BY <1>1, <1>2, <1>6, LocksKept DEF CheckClaim, To, TypeOK, Busy
  <2>3. CpuKnows' /\ RecordTells' BY <1>1, <1>2, <1>6, IdleKnows, RecordKept DEF CheckClaim
  <2>4. OneClaim' BY <1>1, <1>2, <1>6 DEF CheckClaim, OneClaim, To, TypeOK, Requests
  <2> QED BY <1>3, <1>6, <2>1, <2>2, <2>3, <2>4 DEF FileInv
<1>7. CASE CreateClaim(c)
  <2>0. claim' \in ClaimRecords /\ claim'.minted = c BY <1>7 DEF CreateClaim, ClaimRecords
  <2>1. claim = None /\ claim' # None /\ record # None /\ record.state \in Ended
    BY <1>1, <1>2, <1>7, <2>0
    DEF CreateClaim, OneClaim, RecordTells, NoFile, Ended, TypeOK, ExportRecords, Terminal, FileAssumption
  <2>2. TypeOK' BY <1>1, <1>2, <1>7, <2>0 DEF CreateClaim, Enter, To, TypeOK, Running
  <2>3. LockHeld' BY <1>1, <1>2, <1>7, LocksKept DEF CreateClaim, To, TypeOK, Busy
  <2>4. CpuKnows' BY <1>1, <1>2, <1>7, <2>1 DEF CreateClaim, CpuKnows, Enter, To, TypeOK, Requests
  <2>5. RecordTells' BY <1>1, <1>2, <1>7, <2>0, <2>1 DEF CreateClaim, RecordTells, NoFile, Ended, File
  <2>6. OneClaim'
    <3>1. \A d \in Claims : pc[d] = "minting" => d = c
      BY <1>1, <1>2, <1>7 DEF CreateClaim, LockHeld, LockOf, Busy, Requests
    <3> QED BY <1>1, <1>2, <1>7, <2>0, <2>1, <3>1 DEF CreateClaim, OneClaim, To, TypeOK, Requests
  <2> QED BY <1>3, <1>7, <2>2, <2>3, <2>4, <2>5, <2>6 DEF FileInv, CreateClaim
<1> QED BY <1>4, <1>5, <1>6, <1>7 DEF CheckClaim

LEMMA RecoverNext ==
  ASSUME FileAssumption, FileInv, NEW h \in Challenges, Recover(h)
  PROVE  FileInv'
<1>1. TypeOK /\ LockHeld /\ CpuKnows /\ RecordTells /\ OneSpend /\ OneClaim BY DEF FileInv
<1>2. /\ h \notin Requests /\ record # None /\ cpu' = [who |-> h, at |-> "reconcile"]
      /\ Overlap = FALSE => \A s \in Spends : pc[s] # "minting"
      /\ used' = used \cup {h}
      /\ UNCHANGED <<record, listed, revoked, claim, inFlight, lock, pc, clients, faults>>
  BY DEF Recover, Enter, FileAssumption
<1>3. TypeOK' BY <1>1, <1>2 DEF TypeOK, clients
<1>4. CpuKnows' BY <1>1, <1>2 DEF CpuKnows, Spending, Requests
<1>5. LockHeld' /\ RecordTells' /\ OneSpend' /\ OneClaim'
  BY <1>1, <1>2, LocksKept, RecordKept, SpendsKept, ClaimsKept DEF clients
<1> QED BY <1>3, <1>4, <1>5 DEF FileInv

-----------------------------------------------------------------------------
(* reconcileFileExport                                                     *)

\* The steps that write one of the three files of an export.
Written ==
  \/ Abandon \/ RevokeOriginal \/ RecordRevoked \/ ListFile \/ RecordPending \/ SettleExport

LEMMA WrittenNext ==
  ASSUME FileAssumption, FileInv, Written PROVE FileInv'
<1> USE DEF clients
<1>1. TypeOK /\ LockHeld /\ CpuKnows /\ RecordTells /\ OneSpend /\ OneClaim BY DEF FileInv
<1>2. At("reconcile") /\ UNCHANGED onDisk
  BY DEF Written, Abandon, RevokeOriginal, RecordRevoked, ListFile, RecordPending, SettleExport,
         RecordIs, ToList
<1>3. record \in ExportRecords /\ cpu.who \in Exports \cup Challenges /\ (Overlap = FALSE => \A s \in Spends : ~ Spending(s))
  BY <1>1, <1>2 DEF At, CpuKnows, TypeOK
<1>4. File \in Exports /\ File \in Items /\ Original \in Items /\ File # Original
  BY <1>3 DEF File, ExportRecords, Items, FileAssumption, Requests
<1>5. LockHeld' /\ OneClaim' BY <1>1, <1>2, LocksKept, ClaimsKept DEF onDisk
<1>6. ASSUME TypeOK', RecordTells', OneSpend', record' # None PROVE FileInv'
  <2>1. CpuKnows' BY <1>1, <1>2, <1>6 DEF onDisk, CpuKnows, Spending
  <2> QED BY <1>5, <1>6, <2>1 DEF FileInv
<1>7. ASSUME NEW to \in Terminal \cup {"original-revoked", "pending"}, Record(to),
             UNCHANGED <<listed, revoked>>, RecordTells'
      PROVE  FileInv'
  <2>1. record' \in ExportRecords BY <1>3, <1>7 DEF Record, ExportRecords
  <2>2. TypeOK' BY <1>1, <1>2, <1>7, <2>1 DEF onDisk, TypeOK
  <2>3. OneSpend' BY <1>1, <1>2, <1>7, SpendsKept DEF onDisk
  <2>4. record' # None BY <2>1 DEF FileAssumption
  <2> QED BY <1>6, <1>7, <2>2, <2>3, <2>4
<1>8. CASE Abandon
  <2>1. Record("abandoned") /\ UNCHANGED <<listed, revoked>> BY <1>8 DEF Abandon
  <2>2. RecordTells'
    BY <1>1, <1>2, <1>3, <1>8, FileAssumption
    DEF Abandon, RecordIs, Record, onDisk, RecordTells, NoFile, Ended, File, ExportRecords, FileAssumption
  <2> QED BY <1>7, <2>1, <2>2 DEF Terminal
<1>9. CASE RevokeOriginal
  <2>1. /\ revoked[Original] = None /\ revoked' = [revoked EXCEPT ![Original] = "file-transferred"]
        /\ record.state = "prepared" /\ UNCHANGED <<record, listed>>
    BY <1>9 DEF RevokeOriginal, Revoke, RecordIs
  <2>2. TypeOK' BY <1>1, <1>2, <1>4, <2>1 DEF onDisk, TypeOK, Reasons
  <2>3. RecordTells'
    BY <1>1, <1>2, <1>3, <1>4, <2>1
    DEF onDisk, RecordTells, NoFile, Ended, File, ExportRecords, TypeOK, Items, Requests, FileAssumption
  <2>4. OneSpend'
    BY <1>1, <1>2, <1>3, <1>4, <2>1 DEF onDisk, OneSpend, Spending, TypeOK, Reasons, FileAssumption
  <2> QED BY <1>3, <1>6, <2>1, <2>2, <2>3, <2>4 DEF FileAssumption
<1>10. CASE RecordRevoked
  <2>1. Record("original-revoked") /\ UNCHANGED <<listed, revoked>> BY <1>10 DEF RecordRevoked
  <2>2. RecordTells'
    BY <1>1, <1>2, <1>3, <1>10
    DEF RecordRevoked, RecordIs, Record, onDisk, RecordTells, NoFile, Ended, File, ExportRecords, FileAssumption
  <2> QED BY <1>7, <2>1, <2>2
<1>11. CASE ListFile
  <2>1. listed' = listed \cup {File} /\ record.state = "original-revoked" /\ UNCHANGED <<record, revoked>>
    BY <1>11 DEF ListFile, ToList, RecordIs
  <2>2. TypeOK' BY <1>1, <1>2, <1>4, <2>1 DEF onDisk, TypeOK
  <2>3. RecordTells' BY <1>1, <1>2, <1>3, <2>1 DEF onDisk, RecordTells, NoFile, Ended, File, ExportRecords, FileAssumption
  <2>4. OneSpend' BY <1>1, <1>2, <2>1, SpendsKept DEF onDisk
  <2> QED BY <1>3, <1>6, <2>1, <2>2, <2>3, <2>4 DEF FileAssumption
<1>12. CASE RecordPending
  <2>1. /\ Record("pending") /\ UNCHANGED <<listed, revoked>> /\ record.state = "original-revoked"
        /\ File \in listed \/ revoked[File] # None
    BY <1>12 DEF RecordPending, RecordIs, ToList
  <2>2. RecordTells'
    BY <1>1, <1>2, <1>3, <2>1
    DEF Record, onDisk, RecordTells, NoFile, Ended, File, ExportRecords, FileAssumption
  <2> QED BY <1>7, <2>1, <2>2
<1>13. CASE SettleExport
  <2>1. PICK to \in {"claimed", "revoked"} :
          /\ Record(to) /\ UNCHANGED <<listed, revoked>> /\ record.state = "pending" /\ revoked[File] # None
    BY <1>13 DEF SettleExport, RecordIs
  <2>3. record'.file = record.file /\ record'.state = to /\ record # None
    BY <1>3, <2>1 DEF Record, ExportRecords, FileAssumption
  <2>4. record' # None BY <1>3, <2>1 DEF Record, ExportRecords, Terminal, FileAssumption
  <2>2. RecordTells'
    BY <1>1, <1>2, <2>1, <2>3, <2>4 DEF onDisk, RecordTells, NoFile, Ended, File
  <2> QED BY <1>7, <2>1, <2>2 DEF Terminal
<1> QED BY <1>8, <1>9, <1>10, <1>11, <1>12, <1>13 DEF Written

LEMMA AnswerNext ==
  ASSUME FileAssumption, FileInv, AnswerOwner PROVE FileInv'
<1> USE DEF disk
<1>1. TypeOK /\ LockHeld /\ CpuKnows /\ RecordTells /\ OneSpend /\ OneClaim BY DEF FileInv
<1>2. /\ cpu.at = "reconcile" /\ cpu' = Idle /\ UNCHANGED <<disk, answer, faults>>
      /\ released' \in {released, released \cup {File}}
      /\ released' # released => record.state = "pending" /\ File \in listed
  BY DEF AnswerOwner, Settled, Claimable, At
<1>3. record \in ExportRecords /\ File \in Exports /\ cpu.who \in Exports \cup Challenges
  BY <1>1, <1>2 DEF CpuKnows, TypeOK, ExportRecords, File
<1>4. CpuKnows' BY <1>2, IdleKnows
<1>5. RecordTells' BY <1>1, <1>2, <1>3 DEF RecordTells, NoFile, Ended, File, ExportRecords, FileAssumption
<1>6. CASE cpu.who \in Exports
  <2>1. PICK outcome \in {"done", "refused"} : End(cpu.who, outcome) BY <1>6 DEF AnswerOwner
  <2>2. cpu.who \in Requests /\ cpu.who \notin Claims \cup Spends /\ pc[cpu.who] = "writing"
    BY <1>1, <1>6 DEF CpuKnows, Requests, FileAssumption
  <2>3. TypeOK' BY <1>1, <1>2, <1>3, <2>1, <2>2 DEF TypeOK, End, To, Running
  <2>4. LockHeld' BY <1>1, <2>1, <2>2, LocksEnd DEF Busy
  <2>5. OneSpend' BY <1>1, <1>2, <2>1, <2>2, SpendsKept DEF End, To, TypeOK, Requests
  <2>6. OneClaim' BY <1>1, <1>2, <2>1, <2>2 DEF OneClaim, End, To, TypeOK, Requests
  <2> QED BY <1>4, <1>5, <2>3, <2>4, <2>5, <2>6 DEF FileInv
<1>7. CASE cpu.who \notin Exports
  <2>1. UNCHANGED <<inFlight, lock, pc>> BY <1>7 DEF AnswerOwner
  <2>2. TypeOK' BY <1>1, <1>2, <1>3, <2>1 DEF TypeOK
  <2>3. LockHeld' /\ OneSpend' BY <1>1, <1>2, <2>1, LocksKept, SpendsKept
  <2>4. OneClaim' BY <1>1, <1>2, <2>1 DEF OneClaim
  <2> QED BY <1>4, <1>5, <2>2, <2>3, <2>4 DEF FileInv
<1> QED BY <1>6, <1>7

-----------------------------------------------------------------------------
(* finishFileClaim                                                         *)

LEMMA FinishNext ==
  ASSUME FileAssumption, FileInv,
         FinishesClaim \/ TakeFile \/ RevokeFile \/ MarkClaimed \/ AlreadyFinished \/ Note
  PROVE  FileInv'
<1> USE DEF clients
<1>1. TypeOK /\ LockHeld /\ CpuKnows /\ RecordTells /\ OneSpend /\ OneClaim BY DEF FileInv
<1>2. UNCHANGED <<used, inFlight, lock, pc, released, answer>>
  BY DEF FinishesClaim, TakeFile, RevokeFile, MarkClaimed, AlreadyFinished, Note, onDisk, disk
<1>3. LockHeld' BY <1>1, <1>2, LocksKept
\* whoever finishes a claim has found one, and the owner's file was released before
<1>4. claim \in ClaimRecords /\ claim # None /\ cpu.who \in Claims \cup Challenges
  BY <1>1
  DEF FinishesClaim, TakeFile, RevokeFile, MarkClaimed, AlreadyFinished, Note, At, RecordIs, Unfinished,
      CpuKnows, TypeOK
<1>5. record \in ExportRecords /\ record # None /\ record.state \in Ended /\ File \in Exports
  BY <1>1, <1>4 DEF RecordTells, NoFile, Ended, TypeOK, ExportRecords, Terminal, File
<1>6. cpu.at \in {"reconcile", "finish", "note"}
  BY DEF FinishesClaim, TakeFile, RevokeFile, MarkClaimed, AlreadyFinished, Note, At, RecordIs
<1>7. cpu \in [who : Exports \cup Claims \cup Challenges, at : {"reconcile", "finish", "note", "answer"}]
  BY <1>1, <1>6 DEF TypeOK, Idle
<1>8. ASSUME NEW at \in {"reconcile", "finish", "note", "answer"}, Enter(cpu.who, at),
             at = "reconcile" => cpu.who \in Challenges,
             at = "answer" => cpu.who \in Claims,
             record' # None, claim' # None
      PROVE  CpuKnows' /\ cpu' \in [who : Exports \cup Claims \cup Challenges, at : {"reconcile", "finish", "note", "answer"}]
  BY <1>1, <1>2, <1>4, <1>7, <1>8 DEF CpuKnows, Enter, Spending, FileAssumption, Requests
<1>9. CASE FinishesClaim
  <2>1. UNCHANGED <<disk, faults>> /\ Enter(cpu.who, "finish") BY <1>9 DEF FinishesClaim
  <2>2. TypeOK' BY <1>1, <1>2, <1>4, <1>5, <1>8, <2>1 DEF TypeOK, disk
  <2>3. RecordTells' /\ OneSpend' /\ OneClaim'
    BY <1>1, <1>2, <2>1, RecordKept, SpendsKept, ClaimsKept DEF disk
  <2> QED BY <1>3, <1>4, <1>5, <1>8, <2>1, <2>2, <2>3 DEF FileInv, disk
<1>10. CASE TakeFile
  <2>1. listed' = listed \ {File} /\ UNCHANGED <<record, revoked, claim, cpu, faults>>
    BY <1>10 DEF TakeFile, onDisk
  <2>2. TypeOK' BY <1>1, <1>2, <2>1 DEF TypeOK
  <2>3. CpuKnows' BY <1>1, <1>2, <2>1 DEF CpuKnows, Spending
  <2>4. RecordTells' BY <1>1, <1>2, <1>4, <1>5, <2>1 DEF RecordTells, NoFile, Ended, File
  <2>5. OneSpend' /\ OneClaim' BY <1>1, <1>2, <2>1, SpendsKept, ClaimsKept
  <2> QED BY <1>3, <2>2, <2>3, <2>4, <2>5 DEF FileInv
<1>11. CASE RevokeFile
  <2>1. revoked' = [revoked EXCEPT ![File] = "file-claimed"] /\ UNCHANGED <<record, listed, claim, cpu, faults>>
    BY <1>11 DEF RevokeFile, Revoke, onDisk
  <2>2. /\ revoked'[File] = "file-claimed" /\ revoked'[Original] = revoked[Original]
        /\ \A f \in Exports : f # File => revoked'[f] = revoked[f]
        /\ revoked' \in [Items -> Reasons \cup {None}]
    BY <1>1, <1>5, <2>1 DEF TypeOK, Items, Reasons, FileAssumption, Requests
  <2>3. TypeOK' BY <1>1, <1>2, <2>1, <2>2 DEF TypeOK
  <2>4. CpuKnows' BY <1>1, <1>2, <2>1 DEF CpuKnows, Spending
  <2>5. RecordTells' BY <1>1, <1>2, <1>4, <1>5, <2>1, <2>2 DEF RecordTells, NoFile, Ended, File
  <2>6. OneSpend' BY <1>1, <1>2, <2>2 DEF OneSpend, Spending
  <2>7. OneClaim' BY <1>1, <1>2, <2>1, ClaimsKept
  <2> QED BY <1>3, <2>3, <2>4, <2>5, <2>6, <2>7 DEF FileInv
<1>12. CASE MarkClaimed
  <2>1. /\ claim' = [claim EXCEPT !.state = "claimed"] /\ Enter(cpu.who, "note")
        /\ UNCHANGED <<record, listed, revoked, faults>>
    BY <1>12 DEF MarkClaimed
  <2>2. claim' \in ClaimRecords /\ claim'.minted = claim.minted BY <1>4, <2>1 DEF ClaimRecords
  <2>3. claim' # None BY <2>2 DEF FileAssumption
  <2>4. TypeOK' BY <1>1, <1>2, <1>5, <1>8, <2>1, <2>2, <2>3 DEF TypeOK
  <2>5. RecordTells' BY <1>1, <1>2, <1>4, <1>5, <2>1, <2>3 DEF RecordTells, NoFile, Ended, File
  <2>6. OneSpend' BY <1>1, <1>2, <2>1, SpendsKept
  <2>7. OneClaim' BY <1>1, <1>2, <1>4, <2>2, <2>3 DEF OneClaim
  <2> QED BY <1>3, <1>5, <1>8, <2>1, <2>3, <2>4, <2>5, <2>6, <2>7 DEF FileInv
<1>13. ASSUME AfterClaim, record' # None, claim' # None
       PROVE  CpuKnows' /\ cpu' \in [who : Exports \cup Claims \cup Challenges, at : {"reconcile", "finish", "note", "answer"}]
  BY <1>4, <1>8, <1>13 DEF AfterClaim
<1>14. CASE AlreadyFinished
  <2>1. UNCHANGED <<disk, faults>> /\ AfterClaim BY <1>14 DEF AlreadyFinished
  <2>2. TypeOK' BY <1>1, <1>2, <1>4, <1>5, <1>13, <2>1 DEF TypeOK, disk
  <2>3. RecordTells' /\ OneSpend' /\ OneClaim'
    BY <1>1, <1>2, <2>1, RecordKept, SpendsKept, ClaimsKept DEF disk
  <2> QED BY <1>3, <1>4, <1>5, <1>13, <2>1, <2>2, <2>3 DEF FileInv, disk
<1>15. CASE Note
  <2>1. UNCHANGED <<listed, revoked, claim>> /\ AfterClaim BY <1>15 DEF Note
  <2>2. record' \in {record, [record EXCEPT !.state = "claimed"]} BY <1>15 DEF Note, Record
  <2>3. record' \in ExportRecords /\ record'.file = record.file /\ record'.state \in {record.state, "claimed"}
    BY <1>5, <2>2 DEF ExportRecords, Terminal
  <2>4. record' # None BY <2>3 DEF FileAssumption
  <2>5. TypeOK' BY <1>1, <1>2, <1>4, <1>13, <2>1, <2>3, <2>4 DEF TypeOK
  <2>6. RecordTells' BY <1>1, <1>2, <1>4, <1>5, <2>1, <2>3, <2>4 DEF RecordTells, NoFile, Ended, File
  <2>7. OneSpend' /\ OneClaim' BY <1>1, <1>2, <2>1, SpendsKept, ClaimsKept
  <2> QED BY <1>3, <1>4, <1>13, <2>1, <2>4, <2>5, <2>6, <2>7 DEF FileInv
<1> QED BY <1>9, <1>10, <1>11, <1>12, <1>14, <1>15

\* Every answer to a claim is the credential of the one claim there is.
LEMMA ReplyNext ==
  ASSUME FileAssumption, FileInv, AnswerClaim PROVE FileInv'
<1> USE DEF disk
<1>1. TypeOK /\ LockHeld /\ CpuKnows /\ RecordTells /\ OneSpend /\ OneClaim BY DEF FileInv
<1>2. /\ cpu.at = "answer" /\ cpu' = Idle /\ UNCHANGED <<disk, released, faults>>
      /\ answer' \in {answer, [answer EXCEPT ![cpu.who] = claim.minted]}
  BY DEF AnswerClaim, At
<1>3. PICK outcome \in {"done", "refused"} : End(cpu.who, outcome) BY DEF AnswerClaim
<1>4. /\ cpu.who \in Claims /\ cpu.who \in Requests /\ cpu.who \notin Exports \cup Spends
      /\ pc[cpu.who] = "writing" /\ claim # None /\ claim.minted \in Claims
  BY <1>1, <1>2 DEF CpuKnows, TypeOK, ClaimRecords, Requests, FileAssumption
<1>5. TypeOK' BY <1>1, <1>2, <1>3, <1>4 DEF TypeOK, End, To, Running
<1>6. LockHeld' BY <1>1, <1>3, <1>4, LocksEnd DEF Busy
<1>7. CpuKnows' /\ RecordTells' BY <1>1, <1>2, IdleKnows, RecordKept
<1>8. OneSpend' BY <1>1, <1>2, <1>3, <1>4, SpendsKept DEF End, To, TypeOK, Requests
<1>9. OneClaim' BY <1>1, <1>2, <1>3, <1>4 DEF OneClaim, End, To, TypeOK, Requests
<1> QED BY <1>5, <1>6, <1>7, <1>8, <1>9 DEF FileInv

-----------------------------------------------------------------------------
(* Faults, the operator, time                                              *)

LEMMA FaultNext ==
  ASSUME FileAssumption, FileInv, WriteFails \/ Crash PROVE FileInv'
<1> USE DEF disk, clients
<1>1. TypeOK /\ LockHeld /\ CpuKnows /\ RecordTells /\ OneSpend /\ OneClaim BY DEF FileInv
<1>2. cpu' = Idle /\ UNCHANGED <<disk, clients>> BY DEF WriteFails, Crash
<1>3. CpuKnows' /\ RecordTells' BY <1>1, <1>2, IdleKnows, RecordKept
<1>4. CASE Crash
  <2>1. pc' = [r \in Requests |-> IF pc[r] \in Running THEN "failed" ELSE pc[r]] BY <1>4 DEF Crash
  <2>2. TypeOK' BY <1>1, <1>2, <1>4, <2>1 DEF Crash, TypeOK
  <2>3. LockHeld' BY <2>1 DEF LockHeld, Busy, Running
  <2>4. OneSpend' /\ OneClaim' BY <1>1, <1>2, <2>1, SpendsKept, ClaimsKept DEF Running, Requests
  <2> QED BY <1>3, <2>2, <2>3, <2>4 DEF FileInv
<1>5. CASE WriteFails /\ cpu.who \in Requests
  <2>1. End(cpu.who, "failed") BY <1>5 DEF WriteFails
  <2>2. pc[cpu.who] = "writing" BY <1>1, <1>5 DEF CpuKnows
  <2>3. TypeOK' BY <1>1, <1>2, <1>5, <2>1, <2>2 DEF TypeOK, End, To, Running
  <2>4. LockHeld' BY <1>1, <1>5, <2>1, LocksEnd DEF Busy
  <2>5. OneSpend' /\ OneClaim'
    BY <1>1, <1>2, <1>5, <2>1, <2>2, SpendsKept, ClaimsKept DEF End, To, TypeOK, Requests
  <2> QED BY <1>3, <2>3, <2>4, <2>5 DEF FileInv
<1>6. CASE WriteFails /\ cpu.who \notin Requests
  <2>1. UNCHANGED <<inFlight, lock, pc>> BY <1>6 DEF WriteFails
  <2>2. TypeOK' BY <1>1, <1>2, <2>1 DEF TypeOK
  <2>3. LockHeld' /\ OneSpend' /\ OneClaim' BY <1>1, <1>2, <2>1, LocksKept, SpendsKept, ClaimsKept
  <2> QED BY <1>3, <2>2, <2>3 DEF FileInv
<1> QED BY <1>4, <1>5, <1>6

LEMMA OperatorNext ==
  ASSUME FileAssumption, FileInv, (\E i \in Items : AdminRevoke(i)) \/ Compact \/ UNCHANGED vars
  PROVE  FileInv'
<1> USE DEF memory, clients
<1>1. TypeOK /\ LockHeld /\ CpuKnows /\ RecordTells /\ OneSpend /\ OneClaim BY DEF FileInv
<1>2. UNCHANGED <<record, listed, used, memory, clients, faults>>
  BY DEF AdminRevoke, Compact, vars, disk
<1>3. LockHeld' BY <1>1, <1>2, LocksKept
<1>4. ASSUME NEW i \in Items, AdminRevoke(i) PROVE FileInv'
  <2>1. /\ revoked[i] = None /\ revoked' = [revoked EXCEPT ![i] = "operator"] /\ UNCHANGED claim
        /\ cpu = Idle /\ (i = Original \/ i \in released)
    BY <1>4 DEF AdminRevoke, Revoke, Ready
  <2>2. TypeOK' BY <1>1, <1>2, <2>1 DEF TypeOK, Reasons
  <2>3. CpuKnows' BY <1>2, <2>1, IdleKnows
  <2>7. ASSUME i = Original PROVE RecordTells'
    <3>1. revoked'[Original] = "operator" /\ \A f \in Exports : revoked'[f] = revoked[f]
      BY <1>1, <2>1, <2>7 DEF TypeOK, Items, FileAssumption, Requests
    <3> QED BY <1>1, <1>2, <2>1, <2>7, <3>1
      DEF RecordTells, NoFile, Ended, File, TypeOK, ExportRecords, Terminal, FileAssumption, Reasons
  <2>8. ASSUME i # Original PROVE RecordTells'
    <3>1. record # None /\ i = File /\ released # {} BY <1>1, <2>1, <2>8 DEF RecordTells, NoFile
    <3>2. /\ revoked'[File] = "operator" /\ revoked'[Original] = revoked[Original]
          /\ \A f \in Exports : f # File => revoked'[f] = revoked[f]
      BY <1>1, <2>1, <2>8, <3>1 DEF TypeOK, Items
    <3> QED BY <1>1, <1>2, <2>1, <3>1, <3>2
      DEF RecordTells, NoFile, Ended, File, TypeOK, ExportRecords, Terminal, FileAssumption
  <2>4. RecordTells' BY <2>7, <2>8
  <2>5. OneSpend'
    BY <1>1, <1>2, <2>1 DEF OneSpend, Spending, TypeOK, Items, Reasons, Requests, FileAssumption
  <2>6. OneClaim' BY <1>1, <1>2, <2>1, ClaimsKept
  <2> QED BY <1>3, <2>2, <2>3, <2>4, <2>5, <2>6 DEF FileInv
<1>5. CASE Compact
  <2>1. claim # None /\ claim' = [claim EXCEPT !.kept = FALSE] /\ UNCHANGED revoked /\ cpu = Idle
    BY <1>5 DEF Compact, Ready
  <2>2. claim' \in ClaimRecords /\ claim'.minted = claim.minted BY <1>1, <2>1 DEF TypeOK, ClaimRecords
  <2>3. claim' # None BY <2>2 DEF FileAssumption
  <2>4. TypeOK' BY <1>1, <1>2, <2>1, <2>2 DEF TypeOK
  <2>5. CpuKnows' BY <1>2, <2>1, IdleKnows
  <2>6. RecordTells' BY <1>1, <1>2, <2>1, <2>3 DEF RecordTells, NoFile, Ended, File
  <2>7. OneSpend' BY <1>1, <1>2, <2>1, SpendsKept
  <2>8. OneClaim' BY <1>1, <1>2, <2>1, <2>2, <2>3 DEF OneClaim
  <2> QED BY <1>3, <2>4, <2>5, <2>6, <2>7, <2>8 DEF FileInv
<1>6. CASE UNCHANGED vars
  <2>1. UNCHANGED <<revoked, claim>> BY <1>6 DEF vars, disk
  <2>2. TypeOK' BY <1>1, <1>2, <2>1 DEF TypeOK
  <2>3. CpuKnows' BY <1>1, <1>2, <2>1 DEF CpuKnows, Spending
  <2>4. RecordTells' /\ OneSpend' /\ OneClaim'
    BY <1>1, <1>2, <2>1, RecordKept, SpendsKept, ClaimsKept
  <2> QED BY <1>3, <2>2, <2>3, <2>4 DEF FileInv
<1> QED BY <1>4, <1>5, <1>6

-----------------------------------------------------------------------------
(* The theorems                                                            *)

LEMMA FileInit ==
  ASSUME FileAssumption, Init PROVE FileInv
<1>1. TypeOK BY DEF Init, TypeOK, Requests, FileAssumption
<1>2. LockHeld /\ OneClaim BY DEF Init, LockHeld, Busy, OneClaim, Requests
<1>3. CpuKnows BY DEF Init, CpuKnows, Idle, Requests, FileAssumption
<1>4. RecordTells BY DEF Init, RecordTells, NoFile, Items, FileAssumption, Reasons
<1>5. OneSpend BY DEF Init, OneSpend, Spending, Items, Requests, Reasons, FileAssumption
<1> QED BY <1>1, <1>2, <1>3, <1>4, <1>5 DEF FileInv

LEMMA FileNext ==
  ASSUME FileAssumption, FileInv, [Next]_vars PROVE FileInv'
BY RequestNext, ExportNext, SpendNext, ClaimNext, RecoverNext, WrittenNext, AnswerNext, FinishNext,
   ReplyNext, FaultNext, OperatorNext
DEF Next, Reconcile, FinishClaim, Written

\* The files, the locks and the requests keep their shape in every step.
THEOREM TypesHold == Spec => []TypeOK
<1>1. Init => FileInv BY FileInit, FileAssumption
<1>2. FileInv /\ [Next]_vars => FileInv' BY FileNext, FileAssumption
<1>3. FileInv => TypeOK BY DEF FileInv
<1> QED BY <1>1, <1>2, <1>3, PTL DEF Spec

\* What can be used, and what a recovery will still list, are one thing, or, if
\* the operator revoked it, nothing or one thing.
LEMMA OneForm ==
  ASSUME FileAssumption, Overlap = FALSE, FileInv PROVE ValueKeptOnce
<1>1. TypeOK /\ RecordTells /\ OneSpend /\ OneClaim BY DEF FileInv
<1>2. \E v : Live \cup Coming \subseteq {v}
  <2>1. CASE claim # None
    <3>1. record # None /\ record.state \in Ended /\ revoked[Original] = "file-transferred"
      BY <1>1, <2>1 DEF RecordTells, NoFile, Ended, TypeOK, ExportRecords, Terminal
    <3>2. LiveFiles = {} /\ Coming = {} BY <2>1, <3>1 DEF LiveFiles, Coming, Ended
    <3>3. \A s \in Spends : pc[s] # "done" BY <1>1, <3>1 DEF OneSpend
    <3> QED BY <1>1, <2>1, <3>1, <3>2, <3>3 DEF Live, OneClaim, FileAssumption, Reasons
  <2>2. CASE claim = None
    <3>1. {answer[c] : c \in Claims} \ {None} = {} BY <1>1, <2>2 DEF OneClaim
    <3>2. CASE revoked[Original] = "file-transferred"
      <4>1. record # None /\ LiveFiles \subseteq {File} /\ Coming \subseteq {File}
        BY <1>1, <3>2 DEF RecordTells, LiveFiles, Coming
      <4>2. \A s \in Spends : pc[s] # "done" BY <1>1, <3>2 DEF OneSpend
      <4> QED BY <2>2, <3>1, <3>2, <4>1, <4>2 DEF Live, FileAssumption, Reasons
    <3>3. CASE revoked[Original] # "file-transferred"
      <4>1. LiveFiles = {} /\ Coming = {}
        BY <1>1, <3>3 DEF RecordTells, NoFile, Ended, LiveFiles, Coming, TypeOK, ExportRecords, Terminal
      <4>2. CASE revoked[Original] = None
        <5>1. \A s \in Spends : pc[s] # "done" BY <1>1, <4>2 DEF OneSpend, FileAssumption, Reasons
        <5> QED BY <2>2, <3>1, <4>1, <4>2, <5>1 DEF Live
      <4>3. CASE revoked[Original] # None
        <5>1. \A s, t \in Spends : pc[s] = "done" /\ pc[t] = "done" => s = t BY <1>1 DEF OneSpend
        <5> QED BY <2>2, <3>1, <4>1, <4>3, <5>1 DEF Live
      <4> QED BY <4>2, <4>3
    <3> QED BY <3>2, <3>3
  <2> QED BY <2>1, <2>2
<1>3. ASSUME \A i \in Items : revoked[i] # "operator" PROVE Live \cup Coming # {}
  <2>1. revoked[Original] \in {None, "spent", "file-transferred"}
    BY <1>1, <1>3 DEF TypeOK, RecordTells, Items, Reasons
  <2>2. CASE revoked[Original] = None BY <2>2 DEF Live
  <2>3. CASE revoked[Original] = "spent"
    <3>1. \E s \in Spends : pc[s] = "done" BY <1>1, <2>3 DEF OneSpend
    <3> QED BY <3>1 DEF Live
  <2>4. CASE revoked[Original] = "file-transferred" /\ claim # None BY <2>4 DEF Live
  <2>5. CASE revoked[Original] = "file-transferred" /\ claim = None
    <3>1. record \in ExportRecords /\ record # None /\ record.state # "abandoned" /\ File \in Items
      BY <1>1, <2>5 DEF RecordTells, TypeOK, ExportRecords, File, Items
    <3>2. CASE record.state \in {"prepared", "original-revoked"} BY <2>5, <3>1, <3>2 DEF Coming
    <3>3. CASE record.state \in Ended
      <4>1. File \in listed /\ revoked[File] = None BY <1>1, <1>3, <2>5, <3>1, <3>3 DEF RecordTells
      <4>2. File \in LiveFiles BY <2>5, <4>1 DEF LiveFiles
      <4> QED BY <4>2 DEF Live
    <3> QED BY <3>1, <3>2, <3>3 DEF ExportRecords, Terminal, Ended
  <2> QED BY <2>1, <2>2, <2>3, <2>4, <2>5
<1>4. PICK v : Live \cup Coming \subseteq {v} BY <1>2
<1>5. Cardinality({}) = 0 /\ Cardinality({v}) = 1 BY FS_EmptySet, FS_Singleton
<1>6. NeverBothLive
  <2>1. Live = {} \/ Live = {v} BY <1>4
  <2> QED BY <1>5, <2>1 DEF NeverBothLive
<1>7. ASSUME \A i \in Items : revoked[i] # "operator" PROVE Cardinality(Live \cup Coming) = 1
  <2>1. Live \cup Coming = {v} BY <1>3, <1>4, <1>7
  <2> QED BY <1>5, <2>1
<1> QED BY <1>6, <1>7 DEF ValueKeptOnce

\* The item is never in two forms, and, unless the operator revokes it, never in
\* none, whatever stops, fails, is repeated or is recovered (reconcileFileExport,
\* finishFileClaim); for owners who do not recover while a request is spending.
THEOREM ItemKeptOnce == Overlap = FALSE => (Spec => []ValueKeptOnce)
<1> SUFFICES ASSUME Overlap = FALSE PROVE Spec => []ValueKeptOnce OBVIOUS
<1>1. Init => FileInv BY FileInit, FileAssumption
<1>2. FileInv /\ [Next]_vars => FileInv' BY FileNext, FileAssumption
<1>3. FileInv => ValueKeptOnce BY OneForm, FileAssumption
<1> QED BY <1>1, <1>2, <1>3, PTL DEF Spec

\* A claim is refused only when none was committed, when another key committed
\* it, or when its credential is no longer kept; with any recovery whatsoever.
THEOREM ClaimersAreServed == Spec => RetryGetsIt
<1> DEFINE Due == \A c \in Claims : pc[c] # "refused" /\ pc'[c] = "refused" =>
                     claim = None \/ Key[c] # claim.key \/ ~ claim.kept
<1>1. Init => FileInv BY FileInit, FileAssumption
<1>2. FileInv /\ [Next]_vars => FileInv' BY FileNext, FileAssumption
<1>3. FileInv /\ [Next]_vars => [Due]_vars
  <2> SUFFICES ASSUME FileInv, Next, NEW c \in Claims, pc[c] # "refused", pc'[c] = "refused"
               PROVE  claim = None \/ Key[c] # claim.key \/ ~ claim.kept
    OBVIOUS
  <2> USE FileAssumption
  <2>1. TypeOK /\ CpuKnows /\ c \in Requests BY DEF FileInv, Requests
  <2>2. ASSUME NEW r \in Requests, NEW where, To(r, where) PROVE r = c /\ where = "refused"
    BY <2>1, <2>2 DEF To, TypeOK
  <2>3. ASSUME NEW r \in Requests, NEW outcome, End(r, outcome) PROVE r = c /\ outcome = "refused"
    BY <2>2, <2>3 DEF End
  <2>4. pc' # pc OBVIOUS
  <2>5. ASSUME NEW r \in Requests,
               Start(r) \/ TakeLock(r) \/ GiveUp(r) \/ CheckOriginal(r) \/ MintFails(r) PROVE FALSE
    BY <2>2, <2>3, <2>5 DEF Start, TakeLock, GiveUp, CheckOriginal, MintFails, FileAssumption
  <2>6. ASSUME NEW x \in Exports, StartExport(x) \/ CreateExport(x) PROVE FALSE
    BY <2>2, <2>3, <2>6 DEF StartExport, CreateExport, FileAssumption, Requests
  <2>7. ASSUME NEW s \in Spends, SpendCommits(s) PROVE FALSE
    BY <2>2, <2>3, <2>7 DEF SpendCommits, Requests
  <2>8. ASSUME NEW d \in Claims, CheckClaim(d) \/ CreateClaim(d) PROVE claim = None
    BY <2>2, <2>3, <2>8 DEF CheckClaim, CreateClaim, Requests
  <2>9. ASSUME AnswerClaim PROVE Key[c] # claim.key \/ ~ claim.kept
    BY <2>1, <2>3, <2>9 DEF AnswerClaim, MayHave, At, CpuKnows, Requests
  <2>10. ASSUME AnswerOwner PROVE FALSE
    BY <2>1, <2>3, <2>10 DEF AnswerOwner, Requests, FileAssumption
  <2>11. ASSUME WriteFails PROVE FALSE BY <2>3, <2>4, <2>11 DEF WriteFails
  <2>12. ASSUME Crash PROVE FALSE BY <2>1, <2>12 DEF Crash
  <2>13. Abandon \/ RevokeOriginal \/ RecordRevoked \/ ListFile \/ RecordPending \/ FinishesClaim
         \/ SettleExport \/ TakeFile \/ RevokeFile \/ MarkClaimed \/ AlreadyFinished \/ Note
         \/ Compact \/ (\E i \in Items : AdminRevoke(i)) \/ (\E h \in Challenges : Recover(h)) => pc' = pc
    BY DEF Abandon, RevokeOriginal, RecordRevoked, ListFile, RecordPending, FinishesClaim, SettleExport,
           TakeFile, RevokeFile, MarkClaimed, AlreadyFinished, Note, Compact, AdminRevoke, Recover,
           onDisk, memory
  <2> QED BY <2>4, <2>5, <2>6, <2>7, <2>8, <2>9, <2>10, <2>11, <2>12, <2>13
      DEF Next, Reconcile, FinishClaim
<1> QED BY <1>1, <1>2, <1>3, PTL DEF Spec, RetryGetsIt

-----------------------------------------------------------------------------
(* FileTransfer implements OneItem.                                        *)

\* What the item is, as the invariant lets one read it off the files.
LEMMA HolderIs ==
  ASSUME FileAssumption, Overlap = FALSE, FileInv
  PROVE  /\ claim # None => Holder = claim.minted /\ Holder \in Claims
         /\ \A s \in Spends : pc[s] = "done" => claim = None /\ Holder = s
         /\ claim = None /\ Spent = {} /\ revoked[Original] = "file-transferred" =>
              record # None /\ Holder = File /\ Holder \in Exports
         /\ claim = None /\ Spent = {} /\ revoked[Original] # "file-transferred" =>
              Holder = Original
<1>1. TypeOK /\ RecordTells /\ OneSpend BY DEF FileInv
<1>2. claim # None => Holder = claim.minted /\ Holder \in Claims
  BY <1>1 DEF Holder, TypeOK, ClaimRecords
<1>3. ASSUME NEW s \in Spends, pc[s] = "done" PROVE claim = None /\ Holder = s
  <2>1. revoked[Original] # "file-transferred" /\ \A t \in Spends : pc[t] = "done" => t = s
    BY <1>1, <1>3 DEF OneSpend
  <2>2. claim = None
    BY <1>1, <2>1 DEF RecordTells, NoFile, Ended, TypeOK, ExportRecords, Terminal
  <2>3. Spent = {s} BY <1>3, <2>1 DEF Spent
  <2>4. (CHOOSE t \in Spends : t \in Spent) = s BY <2>3
  <2> QED BY <2>2, <2>3, <2>4 DEF Holder
<1>4. ASSUME claim = None, Spent = {} 
      PROVE  Holder = IF revoked[Original] = "file-transferred" THEN File ELSE Original
  BY <1>4 DEF Holder
<1>5. revoked[Original] = "file-transferred" => record # None /\ File \in Exports
  BY <1>1 DEF RecordTells, TypeOK, ExportRecords, File
<1> QED BY <1>2, <1>3, <1>4, <1>5

Usable == Holder \notin Items \/ revoked[Holder] = None

\* The successors are none of the forms an operator can revoke.
LEMMA Forms ==
  ASSUME FileAssumption
  PROVE  /\ \A r \in Claims \cup Spends : r \notin Items
         /\ Original \in Items /\ Original \notin Exports /\ Exports \subseteq Items
BY DEF FileAssumption, Items, Requests

LEMMA ItemInit ==
  ASSUME FileAssumption, Init PROVE Item!Init
<1>1. claim = None /\ Spent = {} /\ revoked[Original] = None
  BY DEF Init, Spent, Requests, Items
<1>2. Holder = Original BY <1>1 DEF Holder, FileAssumption, Reasons
<1> QED BY <1>1, <1>2 DEF Init, Item!Init

\* A step that leaves alone what the item is read off is a stutter.
LEMMA ItemStays ==
  ASSUME FileAssumption, Overlap = FALSE, FileInv, FileInv',
         UNCHANGED <<revoked, answer>>,
         record # None => record' # None /\ record'.file = record.file,
         claim # None => claim' # None /\ claim'.minted = claim.minted,
         claim = None => claim' = None,
         \A s \in Spends : pc'[s] = "done" <=> pc[s] = "done"
  PROVE  UNCHANGED Item!vars
<1>1. Spent' = Spent BY DEF Spent
<1>2. revoked[Original] = "file-transferred" => record # None BY DEF FileInv, RecordTells
<1>3. Holder' = Holder BY <1>1, <1>2 DEF Holder, File, FileAssumption
<1> QED BY <1>3 DEF Item!vars

\* The original goes into the file when it is revoked for it.
LEMMA ItemExported ==
  ASSUME FileAssumption, Overlap = FALSE, FileInv, FileInv', RevokeOriginal
  PROVE  \E x \in Exports : Item!Export(x)
<1>1. TypeOK /\ CpuKnows /\ RecordTells /\ OneSpend BY DEF FileInv
<1>2. /\ record # None /\ record.state = "prepared" /\ revoked[Original] = None
      /\ revoked' = [revoked EXCEPT ![Original] = "file-transferred"]
      /\ UNCHANGED <<record, claim, pc, answer>>
  BY <1>1 DEF RevokeOriginal, Revoke, RecordIs, At, onDisk, clients, CpuKnows
<1>3. claim = None /\ File \in Exports /\ revoked[File] = None
  BY <1>1, <1>2 DEF RecordTells, NoFile, TypeOK, ExportRecords, File
<1>4. Spent = {} /\ Spent' = {} BY <1>1, <1>2 DEF Spent, OneSpend, FileAssumption, Reasons
<1>5. revoked'[Original] = "file-transferred" /\ revoked'[File] = None
  BY <1>1, <1>2, <1>3, Forms DEF TypeOK
<1>6. Holder = Original BY <1>2, <1>3, <1>4, HolderIs DEF FileAssumption, Reasons
<1>7. Holder' = File BY <1>2, <1>3, <1>4, <1>5 DEF Holder, File
<1>8. Usable /\ Usable' BY <1>2, <1>3, <1>5, <1>6, <1>7 DEF Usable
<1> QED BY <1>2, <1>3, <1>6, <1>7, <1>8 DEF Item!Export, Usable

LEMMA ItemSpent ==
  ASSUME FileAssumption, Overlap = FALSE, FileInv, FileInv', NEW s \in Spends, SpendCommits(s)
  PROVE  Item!Spend(s)
<1>1. TypeOK /\ RecordTells /\ OneSpend BY DEF FileInv
<1>2. pc[s] = "minting" /\ End(s, "done") /\ UNCHANGED <<claim, answer>> /\ s \in Requests
  BY DEF SpendCommits, clients, Requests
<1>3. pc'[s] = "done" BY <1>1, <1>2 DEF End, To, TypeOK
<1>4. Holder' = s /\ claim = None
  <2>1. \A t \in Spends : pc[t] # "done" /\ (t # s => pc'[t] = pc[t])
    BY <1>1, <1>2 DEF OneSpend, Spending, End, To, TypeOK, Requests, FileAssumption
  <2>2. Spent' = {s} BY <1>3, <2>1 DEF Spent
  <2>3. (CHOOSE t \in Spends : t \in Spent') = s BY <2>2
  <2>4. revoked[Original] # "file-transferred"
    BY <1>1, <1>2 DEF OneSpend, Spending, FileAssumption, Reasons
  <2>5. claim = None
    BY <1>1, <2>4 DEF RecordTells, NoFile, Ended, TypeOK, ExportRecords, Terminal
  <2> QED BY <1>2, <2>2, <2>3, <2>5 DEF Holder
<1>5. revoked[Original] \in {None, "operator"} /\ Spent = {}
  BY <1>1, <1>2 DEF OneSpend, Spending, Spent
<1>6. Holder = Original
  BY <1>2, <1>4, <1>5, HolderIs DEF FileAssumption, Reasons
<1>7. Holder' \notin Items BY <1>4, Forms
<1> QED BY <1>2, <1>4, <1>6, <1>7 DEF Item!Spend, Items

LEMMA ItemClaimed ==
  ASSUME FileAssumption, Overlap = FALSE, FileInv, NEW c \in Claims, CreateClaim(c)
  PROVE  Item!Claim(c)
<1>1. TypeOK /\ RecordTells /\ OneSpend /\ OneClaim BY DEF FileInv
<1>2. /\ pc[c] = "minting" /\ claim' = [key |-> Key[c], minted |-> c, state |-> "committed", kept |-> TRUE]
      /\ UNCHANGED answer
  BY DEF CreateClaim, clients
<1>3. claim = None /\ claim' # None
  <2>1. claim' \in ClaimRecords BY <1>2 DEF ClaimRecords
  <2> QED BY <1>1, <1>2, <2>1 DEF OneClaim, FileAssumption
<1>4. revoked[Original] = "file-transferred"
  BY <1>1, <1>2 DEF OneClaim, RecordTells, NoFile, Ended, TypeOK, ExportRecords, Terminal
<1>5. Spent = {} BY <1>1, <1>4 DEF OneSpend, Spent
<1>6. Holder \in Exports BY <1>3, <1>4, <1>5, HolderIs
<1>7. Holder' = c BY <1>2, <1>3 DEF Holder
<1> QED BY <1>2, <1>6, <1>7, Forms DEF Item!Claim

\* The operator revokes what can be used, or a file that has been claimed.
LEMMA ItemDestroyed ==
  ASSUME FileAssumption, Overlap = FALSE, FileInv, NEW i \in Items, AdminRevoke(i)
  PROVE  Item!Destroy \/ UNCHANGED Item!vars
<1>1. TypeOK /\ RecordTells /\ OneSpend BY DEF FileInv
<1>2. /\ revoked[i] = None /\ revoked' = [revoked EXCEPT ![i] = "operator"]
      /\ i = Original \/ i \in released
      /\ UNCHANGED <<record, claim, pc, answer>>
  BY DEF AdminRevoke, Revoke, memory, clients
<1>3. \A j \in Items : revoked'[j] = IF j = i THEN "operator" ELSE revoked[j] BY <1>1, <1>2 DEF TypeOK
<1>4. Spent' = Spent BY <1>2 DEF Spent
<1>5. None # "operator" /\ None # "file-transferred" BY DEF FileAssumption, Reasons
<1>6. CASE i = Original
  <2>1. Spent = {} BY <1>1, <1>2, <1>5, <1>6 DEF OneSpend, Spent, FileAssumption, Reasons
  <2>2. claim = None
    BY <1>1, <1>2, <1>5, <1>6 DEF RecordTells, NoFile, Ended, TypeOK, ExportRecords, Terminal
  <2>3. Holder = Original BY <1>2, <1>5, <1>6, <2>1, <2>2, HolderIs
  <2>4. Holder' = Original BY <1>2, <1>3, <1>4, <1>6, <2>1, <2>2 DEF Holder
  <2>5. Usable /\ ~ Usable' BY <1>2, <1>3, <1>5, <1>6, <2>3, <2>4 DEF Usable
  <2> QED BY <1>2, <2>3, <2>4, <2>5 DEF Item!Destroy, Usable
<1>7. CASE i # Original
  <2>1. record # None /\ i = File /\ revoked[Original] = "file-transferred" /\ i \in Exports
    BY <1>1, <1>2, <1>7 DEF RecordTells, NoFile, Ended, TypeOK, ExportRecords, Terminal, Items
  <2>2. Spent = {} BY <1>1, <2>1 DEF OneSpend, Spent
  <2>3. revoked'[Original] = "file-transferred" /\ File' = File BY <1>2, <1>3, <1>7, <2>1, Forms DEF File
  <2>4. Holder' = Holder BY <1>2, <1>4, <2>1, <2>3 DEF Holder
  <2>5. CASE claim # None
    <3>1. Holder \notin Items BY <2>5, HolderIs, Forms
    <3> QED BY <1>2, <2>4, <3>1 DEF Item!vars
  <2>6. CASE claim = None
    <3>1. Holder = i BY <2>1, <2>2, <2>6, HolderIs
    <3>2. Usable /\ ~ Usable' BY <1>2, <1>3, <1>5, <2>4, <3>1 DEF Usable
    <3> QED BY <1>2, <2>1, <2>4, <3>1, <3>2 DEF Item!Destroy, Usable
  <2> QED BY <2>5, <2>6
<1> QED BY <1>6, <1>7

\* Once there is a claim, the file is revoked for it and nothing else changes.
LEMMA ItemClaimedStays ==
  ASSUME FileAssumption, Overlap = FALSE, FileInv, RevokeFile
  PROVE  UNCHANGED Item!vars
<1>1. claim # None /\ UNCHANGED <<claim, answer>>
  BY DEF RevokeFile, Unfinished, onDisk, clients
<1>2. Holder' = Holder BY <1>1 DEF Holder
<1>3. Holder \notin Items BY <1>1, HolderIs, Forms
<1> QED BY <1>1, <1>2, <1>3 DEF Item!vars, Items

LEMMA ItemAnswered ==
  ASSUME FileAssumption, Overlap = FALSE, FileInv, FileInv', AnswerClaim
  PROVE  (\E c \in Claims : Item!Reply(c)) \/ UNCHANGED Item!vars
<1>1. TypeOK /\ CpuKnows BY DEF FileInv
<1>2. cpu.who \in Claims /\ claim # None /\ cpu.who \in Requests /\ cpu.who \notin Spends
  BY <1>1 DEF AnswerClaim, At, CpuKnows, Requests, FileAssumption
<1>3. PICK outcome \in {"done", "refused"} : End(cpu.who, outcome) BY DEF AnswerClaim
<1>4. UNCHANGED <<record, revoked, claim>> /\ \A s \in Spends : pc'[s] = pc[s]
  BY <1>1, <1>2, <1>3 DEF AnswerClaim, disk, End, To, TypeOK
<1>5. CASE UNCHANGED answer BY <1>4, <1>5, ItemStays
<1>6. CASE answer' = [answer EXCEPT ![cpu.who] = claim.minted]
  <2>1. Holder = claim.minted /\ Holder \in Claims BY <1>2, HolderIs
  <2>2. Holder' = Holder BY <1>2, <1>4 DEF Holder
  <2>3. Usable' <=> Usable BY <1>4, <2>2 DEF Usable, Items
  <2> QED BY <1>2, <1>6, <2>1, <2>2, <2>3 DEF Item!Reply, Usable
<1> QED BY <1>5, <1>6 DEF AnswerClaim

\* Everything else is between the steps of OneItem.
LEMMA ItemStep ==
  ASSUME FileAssumption, Overlap = FALSE, FileInv, FileInv', [Next]_vars
  PROVE  Item!Next \/ UNCHANGED Item!vars
<1> USE DEF disk, memory, clients
<1>1. TypeOK /\ CpuKnows /\ RecordTells /\ OneClaim BY DEF FileInv
<1>2. None \notin ClaimRecords /\ None \notin ExportRecords BY DEF FileAssumption
<1>3. ASSUME UNCHANGED <<record, revoked, claim, answer>>, \A s \in Spends : pc'[s] = "done" <=> pc[s] = "done"
      PROVE  UNCHANGED Item!vars
  BY <1>3, ItemStays
<1>4. ASSUME NEW r \in Requests, NEW to, pc[r] # "done", to # "done" \/ r \notin Spends,
             To(r, to) \/ End(r, to)
      PROVE  \A s \in Spends : pc'[s] = "done" <=> pc[s] = "done"
  BY <1>1, <1>4 DEF To, End, TypeOK, Requests
<1>5. ASSUME NEW r \in Requests, Start(r) \/ TakeLock(r) \/ GiveUp(r) \/ CheckOriginal(r) \/ MintFails(r)
      PROVE  UNCHANGED Item!vars
  BY <1>3, <1>4, <1>5 DEF Start, TakeLock, GiveUp, CheckOriginal, MintFails
<1>6. ASSUME NEW x \in Exports, StartExport(x) PROVE UNCHANGED Item!vars
  BY <1>3, <1>4, <1>6 DEF StartExport, Requests
<1>7. ASSUME NEW x \in Exports, CreateExport(x) PROVE UNCHANGED Item!vars
  <2>1. x \in Requests /\ x \notin Spends BY DEF Requests, FileAssumption
  <2>2. \A s \in Spends : pc'[s] = "done" <=> pc[s] = "done" BY <1>4, <1>7, <2>1 DEF CreateExport
  <2>3. UNCHANGED <<revoked, claim, answer>> /\ (UNCHANGED record \/ record = None)
    BY <1>7 DEF CreateExport
  <2> QED BY <2>2, <2>3, ItemStays
<1>8. ASSUME NEW s \in Spends, SpendCommits(s) PROVE Item!Next
  BY <1>8, ItemSpent DEF Item!Next
<1>9. ASSUME NEW c \in Claims, CheckClaim(c) PROVE UNCHANGED Item!vars
  <2>1. c \in Requests /\ c \notin Spends BY DEF Requests, FileAssumption
  <2> QED BY <1>3, <1>4, <1>9, <2>1 DEF CheckClaim
<1>10. ASSUME NEW c \in Claims, CreateClaim(c) PROVE Item!Next
  BY <1>10, ItemClaimed DEF Item!Next
<1>11. ASSUME NEW h \in Challenges, Recover(h) PROVE UNCHANGED Item!vars
  BY <1>3, <1>11 DEF Recover
<1>12. ASSUME NEW i \in Items, AdminRevoke(i) PROVE Item!Next \/ UNCHANGED Item!vars
  BY <1>12, ItemDestroyed DEF Item!Next
<1>13. ASSUME RevokeOriginal PROVE Item!Next BY <1>13, ItemExported DEF Item!Next
<1>14. ASSUME record \in ExportRecords, record' \in ExportRecords, record'.file = record.file,
              UNCHANGED <<revoked, claim, pc, answer>>
       PROVE  UNCHANGED Item!vars
  BY <1>2, <1>14, ItemStays
<1>15. ASSUME Abandon \/ RecordRevoked \/ RecordPending \/ SettleExport PROVE UNCHANGED Item!vars
  <2>1. record \in ExportRecords
    BY <1>1, <1>15 DEF Abandon, RecordRevoked, RecordPending, SettleExport, RecordIs, At, CpuKnows, TypeOK
  <2>2. PICK to \in Terminal \cup {"original-revoked", "pending"} :
          Record(to) /\ UNCHANGED <<revoked, claim, pc, answer>>
    BY <1>15 DEF Abandon, RecordRevoked, RecordPending, SettleExport, onDisk, Terminal
  <2>3. record' \in ExportRecords /\ record'.file = record.file BY <2>1, <2>2 DEF Record, ExportRecords
  <2> QED BY <1>14, <2>1, <2>2, <2>3
<1>16. ASSUME ListFile \/ FinishesClaim \/ TakeFile \/ AlreadyFinished PROVE UNCHANGED Item!vars
  BY <1>3, <1>16 DEF ListFile, FinishesClaim, TakeFile, AlreadyFinished, onDisk
<1>17. ASSUME AnswerOwner PROVE UNCHANGED Item!vars
  <2>1. cpu.who \in Exports =>
          cpu.who \in Requests /\ cpu.who \notin Spends /\ pc[cpu.who] = "writing"
    BY <1>1 DEF CpuKnows, Requests, FileAssumption
  <2>2. \A s \in Spends : pc'[s] = "done" <=> pc[s] = "done" BY <1>4, <1>17, <2>1 DEF AnswerOwner
  <2> QED BY <1>3, <1>17, <2>2 DEF AnswerOwner
<1>18. ASSUME RevokeFile PROVE UNCHANGED Item!vars BY <1>18, ItemClaimedStays
<1>19. ASSUME claim # None, claim' # None, claim'.minted = claim.minted,
              UNCHANGED <<record, revoked, pc, answer>>
       PROVE  UNCHANGED Item!vars
  BY <1>19, ItemStays
<1>20. ASSUME MarkClaimed \/ Compact PROVE UNCHANGED Item!vars
  <2>1. claim \in ClaimRecords /\ claim # None
    BY <1>1, <1>20 DEF MarkClaimed, Compact, Unfinished, TypeOK
  <2>2. claim' \in ClaimRecords /\ claim'.minted = claim.minted
    BY <1>20, <2>1 DEF MarkClaimed, Compact, ClaimRecords
  <2>3. UNCHANGED <<record, revoked, pc, answer>> BY <1>20 DEF MarkClaimed, Compact
  <2> QED BY <1>2, <1>19, <2>1, <2>2, <2>3
<1>21. ASSUME Note PROVE UNCHANGED Item!vars
  <2>1. record \in ExportRecords /\ record' \in ExportRecords /\ record'.file = record.file
    BY <1>1, <1>21
    DEF Note, Record, At, CpuKnows, RecordTells, NoFile, TypeOK, ExportRecords, Terminal
  <2>2. UNCHANGED <<revoked, claim, pc, answer>> BY <1>21 DEF Note
  <2> QED BY <1>14, <2>1, <2>2
<1>22. ASSUME AnswerClaim PROVE Item!Next \/ UNCHANGED Item!vars
  BY <1>22, ItemAnswered DEF Item!Next
<1>23. ASSUME WriteFails PROVE UNCHANGED Item!vars
  <2>1. cpu.who \in Requests => pc[cpu.who] = "writing" BY <1>1 DEF CpuKnows
  <2>2. \A s \in Spends : pc'[s] = "done" <=> pc[s] = "done" BY <1>4, <1>23, <2>1 DEF WriteFails
  <2> QED BY <1>3, <1>23, <2>2 DEF WriteFails
<1>24. ASSUME Crash PROVE UNCHANGED Item!vars
  <2>1. \A s \in Spends : pc'[s] = "done" <=> pc[s] = "done" BY <1>24 DEF Crash, Running, Requests
  <2> QED BY <1>3, <1>24, <2>1 DEF Crash
<1>25. CASE UNCHANGED vars BY <1>3, <1>25 DEF vars
<1> QED
  BY <1>5, <1>6, <1>7, <1>8, <1>9, <1>10, <1>11, <1>12, <1>13, <1>15, <1>16, <1>17, <1>18, <1>20, <1>21, <1>22,
     <1>23, <1>24, <1>25
  DEF Next, Reconcile, FinishClaim

\* The export and claim of an item, with five files, stops between any two
\* writes, repeats and recoveries, implement an item that changes its form in
\* one step (transfer-to-file, recover-file-export, claim-from-file).
THEOREM Implementation == Overlap = FALSE => (Spec => ImplementsOneItem)
<1> SUFFICES ASSUME Overlap = FALSE PROVE Spec => ImplementsOneItem OBVIOUS
<1>1. Init => FileInv BY FileInit, FileAssumption
<1>2. FileInv /\ [Next]_vars => FileInv' BY FileNext, FileAssumption
<1>3. Init => Item!Init BY ItemInit, FileAssumption
<1>4. FileInv /\ FileInv' /\ [Next]_vars => [Item!Next]_Item!vars BY ItemStep, FileAssumption
<1> QED BY <1>1, <1>2, <1>3, <1>4, PTL DEF Spec, ImplementsOneItem, Item!Spec

=============================================================================
