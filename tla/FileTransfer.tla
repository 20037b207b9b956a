----------------------------- MODULE FileTransfer -----------------------------
(***************************************************************************)
(* A unique item exported to a file and claimed from it (issuer-server):   *)
(* the export record and the claim record, the bearer registry and the     *)
(* revocation list, each a file of its own, with a stop or a failed write  *)
(* between any two writes; recovery by the owner, repeated claims, other   *)
(* requests that spend the original, and the operator.                     *)
(*                                                                         *)
(* The file an export mints, and the credential a claim mints, are named   *)
(* by the request.  One original; a request waits for signatures, and runs *)
(* everything else in one stretch (cpu), cut here at each durable write.   *)
(***************************************************************************)
EXTENDS Naturals, FiniteSets

CONSTANTS
  Exports,        \* requests to export the original
  Claims, Key,    \* requests to claim the file, and the key each is signed with
  Spends,         \* other requests that spend the original (transfer, trade, redeem)
  Challenges,     \* challenges the owner recovers an export with
  Original,
  Overlap,        \* may the owner recover while a request is spending the original?
  MaxFaults,      \* bound: stops and failed writes
  None

Requests == Exports \cup Claims \cup Spends

Terminal == {"claimed", "abandoned", "revoked"}
Reasons  == {"file-transferred", "spent", "file-claimed", "operator"}
ExportRecords ==
  [file : Exports, state : {"prepared", "original-revoked", "pending"} \cup Terminal]
ClaimRecords ==
  [key : {Key[c] : c \in Claims}, minted : Claims, state : {"committed", "claimed"}, kept : BOOLEAN]

ASSUME FileAssumption ==
  /\ Overlap \in BOOLEAN /\ MaxFaults \in Nat
  /\ None \notin Requests \cup Challenges \cup {Original}
  /\ None \notin Reasons \cup ExportRecords \cup ClaimRecords
  /\ Original \notin Requests
  /\ Exports \cap Claims = {} /\ Exports \cap Spends = {} /\ Claims \cap Spends = {}
  /\ Requests \cap Challenges = {}

VARIABLES
  record,    \* the export record: [file, state], or None
  listed,    \* files in the bearer registry
  revoked,   \* revoked[i]: the reason i was revoked for first, or None
  claim,     \* the claim record: [key, minted, state, kept], or None
  used,      \* challenges recorded as used
  inFlight,  \* bearerInFlight: the export that is being worked on
  lock,      \* spend locks of the original and of the file
  pc,        \* how far each request is
  cpu,       \* who is in the synchronous stretch, and where
  released,  \* files the owner has been sent
  answer,    \* answer[c]: the credential claim c was sent
  faults

disk    == <<record, listed, revoked, claim, used>>
memory  == <<inFlight, lock, pc, cpu>>
clients == <<released, answer>>
vars    == <<disk, memory, clients, faults>>

Items    == {Original} \cup Exports
Running  == {"waiting", "locked", "minting", "writing"}
Idle     == [who |-> None, at |-> "idle"]
Ready    == cpu = Idle
File     == record.file

Init ==
  /\ record = None /\ listed = {} /\ claim = None /\ used = {}
  /\ revoked = [i \in Items |-> None]
  /\ inFlight = None /\ lock = [l \in {"original", "file"} |-> None]
  /\ pc = [r \in Requests |-> "new"] /\ cpu = Idle
  /\ released = {} /\ answer = [c \in Claims |-> None] /\ faults = 0

-----------------------------------------------------------------------------
(* Requests                                                                *)

LockOf(r) == IF r \in Claims THEN "file" ELSE "original"
To(r, where) == pc' = [pc EXCEPT ![r] = where]

StaysInFlight(r, outcome) == \* (mutated: only a finished export is forgotten)
  /\ To(r, outcome)
  /\ lock' = [l \in DOMAIN lock |-> IF lock[l] = r THEN None ELSE lock[l]]
  /\ inFlight' = IF inFlight = r /\ outcome = "done" THEN None ELSE inFlight

\* a response is sent: the locks go, and bearerInFlight forgets the export
End(r, outcome) ==
  /\ To(r, outcome)
  /\ lock' = [l \in DOMAIN lock |-> IF lock[l] = r THEN None ELSE lock[l]]
  /\ inFlight' = IF inFlight = r THEN None ELSE inFlight

\* transfer-to-file: one at a time, and never again once there is a record
StartExport(x) ==
  /\ Ready /\ pc[x] = "new"
  /\ \/ inFlight = None /\ record = None /\ inFlight' = x /\ To(x, "waiting")
     \/ (inFlight # None \/ record # None) /\ To(x, "refused") /\ UNCHANGED inFlight
  /\ UNCHANGED <<disk, lock, cpu, clients, faults>>

\* another request for the original, or a claim by somebody who has the file
Start(r) ==
  /\ Ready /\ pc[r] = "new"
  /\ r \in Spends \/ (r \in Claims /\ released # {})
  /\ To(r, "waiting")
  /\ UNCHANGED <<disk, inFlight, lock, cpu, clients, faults>>

\* lockSpend
NobodyWaits(r) == TRUE \* (mutated: the lock is left out)
Free(r) == lock[LockOf(r)] = None

TakeLock(r) ==
  /\ Ready /\ pc[r] = "waiting" /\ Free(r)
  /\ lock' = [lock EXCEPT ![LockOf(r)] = r] /\ To(r, "locked")
  /\ UNCHANGED <<disk, inFlight, cpu, clients, faults>>

GiveUp(r) ==
  /\ Ready /\ pc[r] = "waiting" /\ ~ Free(r) /\ End(r, "busy")
  /\ UNCHANGED <<disk, cpu, clients, faults>>

\* checkPresentedGiftableAsset and its siblings, before the mint
CheckOriginal(r) ==
  /\ Ready /\ pc[r] = "locked" /\ r \in Exports \cup Spends
  /\ \/ revoked[Original] = None /\ To(r, "minting") /\ UNCHANGED <<inFlight, lock>>
     \/ revoked[Original] # None /\ End(r, "refused")
  /\ UNCHANGED <<disk, cpu, clients, faults>>

\* the mint throws, or the first write after it
MintFails(r) ==
  /\ Ready /\ pc[r] = "minting" /\ End(r, "failed")
  /\ UNCHANGED <<disk, cpu, clients, faults>>

Enter(r, at) == cpu' = [who |-> r, at |-> at]

\* after the mint: createFileExport, if nobody was faster
CreateExport(x) ==
  /\ Ready /\ x \in Exports /\ pc[x] = "minting"
  /\ \/ /\ revoked[Original] = None /\ record = None
        /\ record' = [file |-> x, state |-> "prepared"]
        /\ To(x, "writing") /\ Enter(x, "reconcile") /\ UNCHANGED <<inFlight, lock>>
     \/ /\ revoked[Original] # None \/ record # None
        /\ End(x, "refused") /\ UNCHANGED <<record, cpu>>
  /\ UNCHANGED <<listed, revoked, claim, used, clients, faults>>

Revoke(i, reason) == revoked' = IF revoked[i] = None THEN [revoked EXCEPT ![i] = reason] ELSE revoked

\* any other request commits: it does not look at the revocation list again
SpendCommits(s) ==
  /\ Ready /\ s \in Spends /\ pc[s] = "minting"
  /\ Revoke(Original, "spent") /\ End(s, "done")
  /\ UNCHANGED <<record, listed, claim, used, cpu, clients, faults>>

\* claim-from-file: a claim that was committed is finished, whoever asks
CheckClaim(c) ==
  /\ Ready /\ pc[c] = "locked" /\ c \in Claims
  /\ \/ /\ claim # None
        /\ To(c, "writing") /\ Enter(c, "finish") /\ UNCHANGED <<inFlight, lock>>
     \/ /\ claim = None /\ revoked[File] = None /\ File \in listed
        /\ To(c, "minting") /\ UNCHANGED <<inFlight, lock, cpu>>
     \/ /\ claim = None /\ (revoked[File] # None \/ File \notin listed)
        /\ End(c, "refused") /\ UNCHANGED cpu
  /\ UNCHANGED <<disk, clients, faults>>

\* createFileClaim, which writes whatever has become of the file
CreateClaim(c) ==
  /\ Ready /\ c \in Claims /\ pc[c] = "minting"
  /\ claim' = [key |-> Key[c], minted |-> c, state |-> "committed", kept |-> TRUE]
  /\ To(c, "writing") /\ Enter(c, "finish")
  /\ UNCHANGED <<record, listed, revoked, used, inFlight, lock, clients, faults>>

\* recover-file-export takes no lock; the challenge is recorded first
Recover(h) ==
  /\ Ready /\ h \notin used /\ record # None
  /\ Overlap \/ \A s \in Spends : pc[s] # "minting"
  /\ used' = used \cup {h} /\ Enter(h, "reconcile")
  /\ UNCHANGED <<record, listed, revoked, claim, inFlight, lock, pc, clients, faults>>

-----------------------------------------------------------------------------
(* reconcileFileExport, one durable write at a time                        *)

At(where) == cpu.at = where
RecordIs(state) == At("reconcile") /\ record.state = state
Record(state) == record' = [record EXCEPT !.state = state]

onDisk == <<claim, used, inFlight, lock, pc, cpu, clients, faults>>

Abandon ==
  /\ RecordIs("prepared") /\ revoked[Original] \notin {None, "file-transferred"}
  /\ Record("abandoned") /\ UNCHANGED <<listed, revoked, onDisk>>

ListsFirst == \* (mutated: the file is listed before the original is revoked)
  /\ RecordIs("prepared") /\ revoked[Original] = None
  /\ IF File \in listed THEN Revoke(Original, "file-transferred") /\ UNCHANGED listed
     ELSE listed' = listed \cup {File} /\ UNCHANGED revoked
  /\ UNCHANGED <<record, onDisk>>

RevokeOriginal ==
  /\ RecordIs("prepared") /\ revoked[Original] = None
  /\ Revoke(Original, "file-transferred") /\ UNCHANGED <<record, listed, onDisk>>

RecordRevoked ==
  /\ RecordIs("prepared") /\ revoked[Original] = "file-transferred"
  /\ Record("original-revoked") /\ UNCHANGED <<listed, revoked, onDisk>>

ToList == RecordIs("original-revoked") /\ File \notin listed /\ revoked[File] = None

ListFile ==
  /\ ToList /\ listed' = listed \cup {File}
  /\ UNCHANGED <<record, revoked, onDisk>>

RecordPending ==
  /\ RecordIs("original-revoked") /\ ~ ToList
  /\ Record("pending") /\ UNCHANGED <<listed, revoked, onDisk>>

Unfinished == claim # None /\ claim.state = "committed"

\* a committed claim is finished before the export is settled
FinishesClaim ==
  /\ RecordIs("pending") /\ Unfinished /\ Enter(cpu.who, "finish")
  /\ UNCHANGED <<disk, inFlight, lock, pc, clients, faults>>

SettleExport ==
  /\ RecordIs("pending") /\ ~ Unfinished /\ revoked[File] # None
  /\ Record(IF revoked[File] = "file-claimed" THEN "claimed" ELSE "revoked")
  /\ UNCHANGED <<listed, revoked, onDisk>>

Claimable == record.state = "pending" /\ File \in listed
Settled ==
  /\ At("reconcile")
  /\ record.state \in Terminal \/ (RecordIs("pending") /\ ~ Unfinished /\ revoked[File] = None)

\* the file is released from "pending" only
AnswerOwner ==
  /\ Settled /\ cpu' = Idle
  /\ released' = IF Claimable THEN released \cup {File} ELSE released
  /\ IF cpu.who \in Exports THEN End(cpu.who, IF Claimable THEN "done" ELSE "refused")
     ELSE UNCHANGED <<inFlight, lock, pc>>
  /\ UNCHANGED <<disk, answer, faults>>

-----------------------------------------------------------------------------
(* finishFileClaim, one durable write at a time                            *)

TakeFile ==
  /\ At("finish") /\ Unfinished /\ File \in listed
  /\ listed' = listed \ {File} /\ UNCHANGED <<record, revoked, onDisk>>

RevokeFile ==
  /\ At("finish") /\ Unfinished /\ File \notin listed /\ revoked[File] = None
  /\ Revoke(File, "file-claimed") /\ UNCHANGED <<record, listed, onDisk>>

MarkClaimed ==
  /\ At("finish") /\ Unfinished /\ File \notin listed /\ revoked[File] # None
  /\ claim' = [claim EXCEPT !.state = "claimed"] /\ Enter(cpu.who, "note")
  /\ UNCHANGED <<record, listed, revoked, used, inFlight, lock, pc, clients, faults>>

AfterClaim == Enter(cpu.who, IF cpu.who \in Challenges THEN "reconcile" ELSE "answer")

AlreadyFinished ==
  /\ At("finish") /\ ~ Unfinished /\ AfterClaim
  /\ UNCHANGED <<disk, inFlight, lock, pc, clients, faults>>

\* noteFileClaimed; a failed write is logged and forgotten
Note ==
  /\ At("note") /\ AfterClaim
  /\ \/ record.state \notin Terminal /\ Record("claimed") /\ UNCHANGED faults
     \/ record.state \in Terminal /\ UNCHANGED <<record, faults>>
     \/ faults < MaxFaults /\ faults' = faults + 1 /\ UNCHANGED record
  /\ UNCHANGED <<listed, revoked, claim, used, inFlight, lock, pc, clients>>

\* the key that committed the claim gets its credential again, while it is kept
NewestOnly(c) == claim.minted = c \* (mutated: a repeat is refused)
MayHave(c) == Key[c] = claim.key /\ claim.kept

AnswerClaim ==
  LET c == cpu.who IN
  /\ At("answer") /\ cpu' = Idle
  /\ \/ MayHave(c) /\ answer' = [answer EXCEPT ![c] = claim.minted] /\ End(c, "done")
     \/ ~ MayHave(c) /\ End(c, "refused") /\ UNCHANGED answer
  /\ UNCHANGED <<disk, released, faults>>

-----------------------------------------------------------------------------
(* Faults, the operator, time                                              *)

Writes ==
  \/ At("finish") /\ Unfinished
  \/ RecordIs("prepared") \/ RecordIs("original-revoked")
  \/ RecordIs("pending") /\ ~ Unfinished /\ revoked[File] # None

\* a write throws: the request is answered with an error
WriteFails ==
  /\ faults < MaxFaults /\ faults' = faults + 1
  /\ Writes /\ cpu' = Idle
  /\ IF cpu.who \in Requests THEN End(cpu.who, "failed") ELSE UNCHANGED <<inFlight, lock, pc>>
  /\ UNCHANGED <<disk, clients>>

\* the process stops and is started again
Crash ==
  /\ faults < MaxFaults /\ faults' = faults + 1
  /\ inFlight' = None /\ lock' = [l \in DOMAIN lock |-> None] /\ cpu' = Idle
  /\ pc' = [r \in Requests |-> IF pc[r] \in Running THEN "failed" ELSE pc[r]]
  /\ UNCHANGED <<disk, clients>>

\* POST /atlas/revoke, of the original or of the file
AdminRevoke(i) ==
  /\ Ready /\ revoked[i] = None /\ (i = Original \/ i \in released)
  /\ Revoke(i, "operator")
  /\ UNCHANGED <<record, listed, claim, used, memory, clients, faults>>

\* CLAIM_REPLAY_MS after the claim another claim drops the stored credential
Compact ==
  /\ Ready /\ claim # None /\ claim.state = "claimed" /\ claim.kept
  /\ claim' = [claim EXCEPT !.kept = FALSE]
  /\ UNCHANGED <<record, listed, revoked, used, memory, clients, faults>>

-----------------------------------------------------------------------------
Reconcile ==
  \/ Abandon \/ RevokeOriginal \/ RecordRevoked \/ ListFile \/ RecordPending
  \/ FinishesClaim \/ SettleExport \/ AnswerOwner

FinishClaim ==
  \/ TakeFile \/ RevokeFile \/ MarkClaimed \/ AlreadyFinished \/ Note \/ AnswerClaim

Next ==
  \/ \E r \in Requests : Start(r) \/ TakeLock(r) \/ GiveUp(r) \/ CheckOriginal(r) \/ MintFails(r)
  \/ \E x \in Exports : StartExport(x) \/ CreateExport(x)
  \/ \E s \in Spends : SpendCommits(s)
  \/ \E c \in Claims : CheckClaim(c) \/ CreateClaim(c)
  \/ \E h \in Challenges : Recover(h)
  \/ \E i \in Items : AdminRevoke(i)
  \/ Reconcile \/ FinishClaim \/ WriteFails \/ Crash \/ Compact

Spec == Init /\ [][Next]_vars

-----------------------------------------------------------------------------
TypeOK ==
  /\ record \in ExportRecords \cup {None} /\ claim \in ClaimRecords \cup {None}
  /\ listed \subseteq Exports /\ used \subseteq Challenges
  /\ revoked \in [Items -> Reasons \cup {None}]
  /\ inFlight \in {x \in Exports : pc[x] \in Running} \cup {None}
  /\ lock \in [{"original", "file"} -> {r \in Requests : pc[r] \in Running} \cup {None}]
  /\ pc \in [Requests -> {"new", "busy", "refused", "failed", "done"} \cup Running]
  /\ cpu = Idle \/ cpu \in [who : Exports \cup Claims \cup Challenges,
                            at : {"reconcile", "finish", "note", "answer"}]
  /\ released \subseteq Exports /\ answer \in [Claims -> Claims \cup {None}]

\* What can be used: the original, a file that can be claimed, credentials
\* that a claim stored or was sent, the result of another spend.
LiveFiles == {f \in listed : revoked[f] = None /\ claim = None}
Live ==
  (IF revoked[Original] = None THEN {Original} ELSE {}) \cup LiveFiles
    \cup (IF claim = None THEN {} ELSE {claim.minted})
    \cup ({answer[c] : c \in Claims} \ {None}) \cup {s \in Spends : pc[s] = "done"}

\* "at no instant are both live": the original and the file, or two credentials
\* for one file, whatever stops, is repeated or is recovered in between.
NeverBothLive == Cardinality(Live) <= 1

\* The file that a recovery will still list.
Coming ==
  IF record # None /\ revoked[Original] = "file-transferred"
       /\ record.state \in {"prepared", "original-revoked"}
  THEN {File} ELSE {}

\* The item is there exactly once, in one form or another, unless the operator
\* revoked it: no stop leaves it in two forms, and none leaves it in none.
ValueKeptOnce ==
  /\ NeverBothLive
  /\ (\A i \in Items : revoked[i] # "operator") => Cardinality(Live \cup Coming) = 1

\* The key whose claim was committed is never refused, however often it asks
\* and whatever stopped in between, while the credential is kept for it.
RetryGetsIt ==
  [][\A c \in Claims :
       pc[c] # "refused" /\ pc'[c] = "refused" =>
         claim = None \/ Key[c] # claim.key \/ ~ claim.kept]_vars

\* The form the item has: what a claim or another spend has made of it, or the
\* file as soon as the original is revoked for it.
Spent == {s \in Spends : pc[s] = "done"}
Holder ==
  IF claim # None THEN claim.minted
  ELSE IF Spent # {} THEN CHOOSE s \in Spends : s \in Spent
  ELSE IF revoked[Original] = "file-transferred" THEN File ELSE Original

\* The five files and what is done between their writes implement an item that
\* changes its form in one step, and never goes back to one it has left.
Item == INSTANCE OneItem WITH
  holder <- Holder,
  usable <- Holder \notin Items \/ revoked[Holder] = None
ImplementsOneItem == Item!Spec

===============================================================================
