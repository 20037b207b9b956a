---------------------------- MODULE DeliveryProofs ----------------------------
(***************************************************************************)
(* Of an original and its copies at most one can be used                   *)
(* (NeverBothUsable), and the last is never lost (NeverLost), for every    *)
(* set of deliveries and of sweeps and any number of stops and failed      *)
(* writes.  What a write-back after a send can do is not assumed away: it  *)
(* puts the other records back to older ones, and what the invariant says  *)
(* of a record it says while that record is not among those (undone).      *)
(***************************************************************************)
EXTENDS Delivery, TLAPS

-----------------------------------------------------------------------------
(* The inductive invariant.                                                *)

\* The original is revoked before any record, on file or read for a send, says
\* so, and before the copy is listed.  This holds whatever is written back.
Revoked(d) == HasOriginal(d) => Of(d).revoked # "no"
RevokedFirst(f) ==
  \A d \in Deliveries : f[d].state \in {"original-revoked", "delivered"} => Revoked(d)

RevokesFirst ==
  /\ RevokedFirst(file)
  /\ \A e \in Deliveries : RevokedFirst(doc[e])
  /\ \A d \in Deliveries : copy[d].listed \/ copy[d].claimed => Revoked(d)

\* A delivery that stands in the way of another of the same original.
Active(d) == file[d].state \notin {"none", "rolled-back"}

\* One delivery of an original at a time.
OneActive ==
  \A d, e \in Deliveries :
    HasOriginal(d) /\ origin[e] = origin[d] /\ Kept(origin[d]) /\ Active(d) /\ Active(e) => d = e

\* What the place of a run says of its record.
RunKnows(d) ==
  /\ pc[d] \in {"new", "minting"} => file[d] = NoRecord /\ ~ copy[d].revoked
  /\ pc[d] = "sending" => file[d].state = "sending" /\ doc[d][d] = file[d]

\* An attempt whose outcome is unknown was paid for with a stop.
Counted(d) ==
  /\ file[d].attempts <= MaxAttempts + stops
  /\ file[d].state \in {"none", "prepared"} => file[d].attempts = 0
  /\ file[d].state = "held" => file[d].attempts < MaxAttempts + stops
  /\ file[d].state = "sending" /\ pc[d] # "sending" => file[d].attempts < MaxAttempts + stops

\* What the record says of the copy: it is revoked only by a rollback or once
\* it was claimed, and listed only past the point of no return.
RecordTells(d) ==
  /\ file[d].state \in {"prepared", "held", "sending", "accepted"} => ~ copy[d].revoked
  /\ file[d].state \notin {"original-revoked", "delivered"} => ~ copy[d].listed /\ ~ copy[d].claimed
  /\ file[d].state = "delivered" => copy[d].listed \/ copy[d].revoked
  /\ file[d].state \in {"original-revoked", "delivered"} /\ copy[d].revoked => copy[d].claimed

\* An original is revoked because it was spent or because a delivery of it was accepted.
Accounted(o) ==
  /\ orig[o].revoked = "other" => o \in spent
  /\ Kept(o) /\ orig[o].revoked = "email" =>
       \E d \in Deliveries : origin[d] = o /\ file[d].state \in Forward

Tracked(d) == RunKnows(d) /\ Counted(d) /\ RecordTells(d)

EngineInv ==
  /\ TypeOK
  /\ RevokesFirst
  /\ OneActive
  /\ \A d \in Deliveries \ undone : Tracked(d)
  /\ \A o \in Originals : Accounted(o)
  /\ NeverLost

-----------------------------------------------------------------------------
(* What a write leaves.                                                    *)

Rec == [state : States, attempts : Nat]
Places == {"new", "minting", "loop", "sending", "pause", "idle"}
CopyRecords == [revoked : BOOLEAN, listed : BOOLEAN, claimed : BOOLEAN]
OrigRecords == [revoked : {"no", "email", "other"}, frozen : BOOLEAN, listed : BOOLEAN]
SweepRecords == [on : BOOLEAN, read : Records, awaits : Deliveries \cup {None}]

LEMMA EmptyTyped == NoRecord \in Rec /\ NoFile \in Records /\ NoSweep \in SweepRecords
<1>1. NoRecord \in Rec BY DEF NoRecord, Rec, States
<1> QED BY <1>1 DEF NoFile, NoSweep, SweepRecords, Records, Rec

\* One original changes in one place.
LEMMA Changed ==
  ASSUME NEW f \in [Originals -> OrigRecords], NEW o \in Originals
  PROVE  /\ \A b \in BOOLEAN : [f EXCEPT ![o].listed = b] \in [Originals -> OrigRecords]
         /\ \A b \in BOOLEAN : [f EXCEPT ![o].frozen = b] \in [Originals -> OrigRecords]
         /\ \A r \in {"no", "email", "other"} : [f EXCEPT ![o].revoked = r] \in [Originals -> OrigRecords]
<1>1. f[o] \in OrigRecords OBVIOUS
<1>2. \A r \in OrigRecords : [f EXCEPT ![o] = r] \in [Originals -> OrigRecords] OBVIOUS
<1>3. ASSUME NEW b \in BOOLEAN
      PROVE  [f[o] EXCEPT !.listed = b] \in OrigRecords /\ [f[o] EXCEPT !.frozen = b] \in OrigRecords
  BY <1>1 DEF OrigRecords
<1>4. ASSUME NEW r \in {"no", "email", "other"} PROVE [f[o] EXCEPT !.revoked = r] \in OrigRecords
  BY <1>1 DEF OrigRecords
<1> QED BY <1>2, <1>3, <1>4


\* A copy changes in one place.
LEMMA CopyChanged ==
  ASSUME copy \in [Deliveries -> CopyRecords], NEW d \in Deliveries
  PROVE  /\ [copy EXCEPT ![d].listed = TRUE] \in [Deliveries -> CopyRecords]
         /\ [copy EXCEPT ![d].revoked = TRUE] \in [Deliveries -> CopyRecords]
         /\ [copy EXCEPT ![d].revoked = TRUE, ![d].listed = FALSE] \in [Deliveries -> CopyRecords]
<1>1. copy[d] \in CopyRecords OBVIOUS
<1>2. \A r \in CopyRecords : [copy EXCEPT ![d] = r] \in [Deliveries -> CopyRecords] OBVIOUS
<1>3. [copy[d] EXCEPT !.listed = TRUE] \in CopyRecords BY <1>1 DEF CopyRecords
<1>4. [copy EXCEPT ![d].listed = TRUE] \in [Deliveries -> CopyRecords] BY <1>2, <1>3
<1>5. \A f \in [Deliveries -> CopyRecords] : [f EXCEPT ![d].listed = FALSE] \in [Deliveries -> CopyRecords]
  <2> SUFFICES ASSUME NEW f \in [Deliveries -> CopyRecords]
               PROVE  [f EXCEPT ![d].listed = FALSE] \in [Deliveries -> CopyRecords] OBVIOUS
  <2>1. [f[d] EXCEPT !.listed = FALSE] \in CopyRecords BY DEF CopyRecords
  <2> QED BY <2>1
<1>6. [copy[d] EXCEPT !.revoked = TRUE] \in CopyRecords BY <1>1 DEF CopyRecords
<1>7. [copy EXCEPT ![d].revoked = TRUE] \in [Deliveries -> CopyRecords] BY <1>2, <1>6
<1> QED BY <1>4, <1>5, <1>7

\* The names of the states.
LEMMA Names ==
  /\ {"none", "prepared", "held", "sending", "accepted"} \subseteq States
  /\ {"original-revoked", "delivered", "rolling-back", "rolled-back"} \subseteq States
BY DEF States, Terminal, Forward

LEMMA Parts ==
  ASSUME EngineInv
  PROVE  /\ origin \in [Deliveries -> Originals \cup {None}]
         /\ \A d \in Deliveries : HasOriginal(d) => d \in Keyed /\ origin[d] \in Originals
         /\ file \in Records /\ doc \in [Deliveries -> Records]
         /\ \A d \in Deliveries : file[d] \in Rec /\ \A e \in Deliveries : doc[d][e] \in Rec
         /\ orig \in [Originals -> OrigRecords] /\ copy \in [Deliveries -> CopyRecords]
         /\ pc \in [Deliveries -> Places] /\ sweep \in [Sweeps -> SweepRecords]
         /\ undone \subseteq Deliveries /\ stops \in Nat
<1>1. TypeOK BY DEF EngineInv
<1>2. origin \in [Deliveries -> Originals \cup {None}] BY <1>1, DeliveryAssumption DEF TypeOK
<1>3. \A d \in Deliveries : HasOriginal(d) => d \in Keyed /\ origin[d] \in Originals
  BY <1>1, <1>2, DeliveryAssumption DEF TypeOK, HasOriginal
<1>4. file \in [Deliveries -> Rec] /\ doc \in [Deliveries -> Records]
  BY <1>1 DEF TypeOK, Records, Rec
<1>5. \A d \in Deliveries : \A e \in Deliveries : doc[d][e] \in Rec BY <1>4 DEF Records, Rec
<1> QED
  BY <1>1, <1>2, <1>3, <1>4, <1>5
    DEF TypeOK, Records, Rec, OrigRecords, CopyRecords, Places, SweepRecords

-----------------------------------------------------------------------------
(* What the steps that write a record do to it.  The record of another     *)
(* delivery stays, unless it was put back.                                 *)

Others(d) ==
  \A e \in Deliveries \ {d} : pc'[e] = pc[e] /\ (e \notin undone' => file'[e] = file[e])

LEMMA BeginIs ==
  ASSUME EngineInv, NEW d \in Deliveries, Begin(d)
  PROVE  /\ file' \in Records /\ Others(d) /\ undone' = undone
         /\ \A e \in Deliveries \ {d} : file'[e] = file[e]
         /\ pc[d] = "minting" /\ pc'[d] = "loop" /\ KeyFree(d)
         /\ file'[d] = [state |-> "prepared", attempts |-> file[d].attempts]
         /\ UNCHANGED <<orig, copy, spends, doc, sweep, stops>>
<1>1. /\ file' = [file EXCEPT ![d].state = "prepared"] /\ pc[d] = "minting" /\ KeyFree(d)
      /\ pc' = [pc EXCEPT ![d] = "loop"]
      /\ UNCHANGED <<orig, copy, spends, doc, sweep, stops, undone>>
  BY DEF Begin, Start, values
<1>2. file \in Records /\ pc \in [Deliveries -> Places] /\ "prepared" \in States BY Parts, Names
<1>3. /\ file' \in Records /\ file'[d] = [state |-> "prepared", attempts |-> file[d].attempts]
      /\ \A e \in Deliveries \ {d} : file'[e] = file[e]
  BY <1>1, <1>2 DEF Records
<1> QED BY <1>1, <1>2, <1>3 DEF Others

LEMMA AttemptIs ==
  ASSUME EngineInv, NEW d \in Deliveries, Attempt(d)
  PROVE  /\ file' \in Records /\ Others(d)
         /\ \A e \in Deliveries \ {d} : file'[e] = file[e]
         /\ pc[d] = "loop" /\ pc'[d] = "sending" /\ file[d].state = "held"
         /\ file'[d] = [state |-> "sending", attempts |-> file[d].attempts + 1]
         /\ doc' = [doc EXCEPT ![d] = file']
         /\ UNCHANGED <<orig, copy, spends>>
<1>1. /\ file' = [file EXCEPT ![d] = [state |-> "sending", attempts |-> file[d].attempts + 1]]
      /\ pc[d] = "loop" /\ file[d].state = "held" /\ pc' = [pc EXCEPT ![d] = "sending"]
      /\ doc' = [doc EXCEPT ![d] = file']
      /\ UNCHANGED <<orig, copy, spends>>
  BY DEF Attempt, Turn, Send, values
<1>2. file \in [Deliveries -> Rec] /\ pc \in [Deliveries -> Places] BY Parts DEF Records, Rec
<1>3. [state |-> "sending", attempts |-> file[d].attempts + 1] \in Rec BY <1>2, Names DEF Rec
<1>4. file' \in [Deliveries -> Rec] BY <1>1, <1>2, <1>3
<1> QED BY <1>1, <1>2, <1>4 DEF Others, Records, Rec

\* what is written after a send, for each of its outcomes
Outcome(d, state) ==
  /\ file' \in Records /\ Others(d)
  /\ undone \subseteq undone' /\ undone' \subseteq Deliveries
  /\ \A e \in Deliveries \ {d} : file'[e] = doc[d][e]
  /\ file'[d] = [state |-> state, attempts |-> doc[d][d].attempts]
  /\ d \in undone' => d \in undone
  /\ doc' = [doc EXCEPT ![d] = NoFile]
  /\ UNCHANGED <<orig, copy, spends, sweep, stops>>

LEMMA WriteBackIs ==
  ASSUME EngineInv, NEW d \in Deliveries, NEW s \in States, NEW p, WriteBack(d, s),
         pc' = [pc EXCEPT ![d] = p], doc' = [doc EXCEPT ![d] = NoFile],
         UNCHANGED <<values, sweep, stops>>
  PROVE  Outcome(d, s)
<1>1. /\ file' = [doc[d] EXCEPT ![d].state = s]
      /\ undone' = undone \cup {e \in Deliveries \ {d} : file[e] # doc[d][e]}
  BY DEF WriteBack
<1>2. doc[d] \in Records /\ pc \in [Deliveries -> Places] /\ undone \subseteq Deliveries BY Parts
<1>3. /\ file' \in Records
      /\ file'[d] = [state |-> s, attempts |-> doc[d][d].attempts]
      /\ \A e \in Deliveries \ {d} : file'[e] = doc[d][e]
  BY <1>1, <1>2 DEF Records
<1>4. Others(d) BY <1>1, <1>2, <1>3 DEF Others
<1> QED BY <1>1, <1>2, <1>3, <1>4 DEF Outcome, values

LEMMA AcceptedIs ==
  ASSUME EngineInv, NEW d \in Deliveries, Accepted(d)
  PROVE  Outcome(d, "accepted") /\ pc[d] = "sending" /\ pc'[d] = "loop"
BY Parts, WriteBackIs, Names DEF Accepted

LEMMA SendFailsIs ==
  ASSUME EngineInv, NEW d \in Deliveries, SendFails(d)
  PROVE  /\ pc[d] = "sending"
         /\ \/ Outcome(d, "held") /\ pc'[d] = "pause" /\ doc[d][d].attempts < MaxAttempts
            \/ Outcome(d, "rolling-back") /\ pc'[d] = "loop"
<1>1. CASE MayRetry(d) /\ WriteBack(d, "held") /\ pc' = [pc EXCEPT ![d] = "pause"]
  BY <1>1, Parts, WriteBackIs, Names DEF SendFails, MayRetry
<1>2. CASE WriteBack(d, "rolling-back") /\ pc' = [pc EXCEPT ![d] = "loop"]
  BY <1>2, Parts, WriteBackIs, Names DEF SendFails
<1> QED BY <1>1, <1>2 DEF SendFails

\* a sweep abandons a record; one past the point of no return counts as put back
Abandons(d) == \E s \in Sweeps : SweepAbandons(s, d)

LEMMA AbandonsIs ==
  ASSUME EngineInv, NEW d \in Deliveries, Abandons(d)
  PROVE  /\ UNCHANGED <<orig, copy, spends, doc, stops>>
         /\ pc[d] = "idle"
         /\ \/ UNCHANGED <<file, pc, undone>>
            \/ /\ file' \in Records /\ Others(d) /\ pc'[d] = "loop"
               /\ \A e \in Deliveries \ {d} : file'[e] = file[e]
               /\ undone \subseteq undone' /\ undone' \subseteq undone \cup {d}
               /\ Unfinished(file[d])
               /\ d \notin undone' => file[d].state \notin Forward
               /\ file'[d] = [state |-> "rolling-back", attempts |-> file[d].attempts]
<1>1. PICK s \in Sweeps : SweepAbandons(s, d) BY DEF Abandons
<1>2. CASE ~ Unfinished(file[d]) BY <1>1, <1>2 DEF SweepAbandons, values, Visits
<1>3. CASE Unfinished(file[d])
  <2>1. /\ file' = [file EXCEPT ![d].state = "rolling-back"]
        /\ pc[d] = "idle" /\ pc' = [pc EXCEPT ![d] = "loop"]
        /\ undone' = IF file[d].state \in Forward THEN undone \cup {d} ELSE undone
        /\ UNCHANGED <<orig, copy, spends, doc, stops>>
    BY <1>1, <1>3 DEF SweepAbandons, Write, values
  <2>2. /\ file' \in Records
        /\ file'[d] = [state |-> "rolling-back", attempts |-> file[d].attempts]
        /\ \A e \in Deliveries \ {d} : file'[e] = file[e]
    <3>1. file \in Records /\ "rolling-back" \in States BY Parts, Names
    <3> QED BY <2>1, <3>1 DEF Records
  <2> QED BY <1>3, <2>1, <2>2, Parts DEF Others
<1> QED BY <1>2, <1>3

\* The steps of the loop that write the state of the record, and no more.
Moves(d) ==
  /\ \/ Requeue(d) \/ Hold(d) \/ HoldFails(d)
     \/ RecordRevoked(d) \/ CloseDelivered(d) \/ CloseRolledBack(d)
  /\ UNCHANGED undone

LEMMA MovesIs ==
  ASSUME EngineInv, NEW d \in Deliveries, Moves(d)
  PROVE  /\ file' \in Records /\ Others(d) /\ pc[d] = "loop"
         /\ \A e \in Deliveries \ {d} : file'[e] = file[e]
         /\ file'[d].attempts = file[d].attempts
         /\ \/ file[d].state = "sending" /\ file'[d].state = "held"
            \/ file[d].state = "prepared" /\ file'[d].state \in {"held", "rolling-back"}
            \/ file[d].state = "accepted" /\ file'[d].state = "original-revoked" /\ Revoked(d)
            \/ /\ file[d].state = "original-revoked" /\ file'[d].state = "delivered"
               /\ copy[d].listed \/ copy[d].revoked
            \/ /\ file[d].state = "rolling-back" /\ file'[d].state = "rolled-back"
               /\ CloseRolledBack(d)
         /\ UNCHANGED <<orig, copy, spends, pc, doc, undone>>
<1>1. UNCHANGED <<orig, copy, spends, pc, doc, undone>> /\ pc[d] = "loop"
  BY DEF Moves, Requeue, Hold, HoldFails, RecordRevoked, CloseDelivered, CloseRolledBack, Turn,
         NextTurn, values
<1>2. ASSUME NEW s \in States, Write(d, s)
      PROVE  /\ file' \in Records /\ Others(d)
             /\ \A e \in Deliveries \ {d} : file'[e] = file[e]
             /\ file'[d].attempts = file[d].attempts /\ file'[d].state = s
  <2>1. file \in Records /\ file' = [file EXCEPT ![d].state = s] BY <1>2, Parts DEF Write
  <2> QED BY <1>1, <2>1 DEF Others, Records
<1>3. CASE Requeue(d) BY <1>1, <1>2, <1>3, Names DEF Requeue, Turn
<1>4. CASE Hold(d) BY <1>1, <1>2, <1>4, Names DEF Hold, Turn
<1>5. CASE HoldFails(d) BY <1>1, <1>2, <1>5, Names DEF HoldFails, Turn
<1>6. CASE RecordRevoked(d)
  BY <1>1, <1>2, <1>6, Names DEF RecordRevoked, Turn, OriginalGone, Revoked
<1>7. CASE CloseDelivered(d) BY <1>1, <1>2, <1>7, Names DEF CloseDelivered, Turn
<1>8. CASE CloseRolledBack(d)
  <2>1. file[d].state = "rolling-back" /\ Write(d, "rolled-back") BY <1>8 DEF CloseRolledBack, Turn
  <2> QED BY <1>1, <1>2, <1>8, <2>1, Names
<1> QED BY <1>3, <1>4, <1>5, <1>6, <1>7, <1>8 DEF Moves

\* The steps of the loop that change the original.
Touches(d) == TakeFile(d) \/ Freeze(d) \/ RevokeOriginal(d) \/ Unfreeze(d) \/ RestoreFile(d) \/ LiftHold(d)

LEMMA TouchesIs ==
  ASSUME EngineInv, NEW d \in Deliveries, Touches(d)
  PROVE  /\ orig' \in [Originals -> OrigRecords] /\ HasOriginal(d)
         /\ \A o \in Originals : o # origin[d] => orig'[o] = orig[o]
         /\ \/ Of(d).revoked = orig'[origin[d]].revoked
            \/ /\ file[d].state = "accepted"
               /\ Of(d).revoked = "no" /\ orig'[origin[d]].revoked = "email"
         /\ UNCHANGED <<file, copy, spends, runs>>
<1>1. /\ orig \in [Originals -> OrigRecords] /\ HasOriginal(d) /\ UNCHANGED <<file, copy, spends, runs>>
  BY DEF Touches, TakeFile, Freeze, RevokeOriginal, Unfreeze, RestoreFile, LiftHold, EngineInv,
         TypeOK, OrigRecords
<1>2. origin[d] \in Originals BY <1>1, Parts
<1>3. CASE TakeFile(d) \/ RestoreFile(d)
  <2>1. PICK b \in BOOLEAN : orig' = [orig EXCEPT ![origin[d]].listed = b]
    BY <1>3 DEF TakeFile, RestoreFile
  <2> QED BY <1>1, <1>2, <2>1, Changed DEF Of, OrigRecords
<1>4. CASE Freeze(d) \/ Unfreeze(d) \/ LiftHold(d)
  <2>1. PICK b \in BOOLEAN : orig' = [orig EXCEPT ![origin[d]].frozen = b]
    BY <1>4 DEF Freeze, Unfreeze, LiftHold
  <2> QED BY <1>1, <1>2, <2>1, Changed DEF Of, OrigRecords
<1>5. CASE RevokeOriginal(d)
  <2>1. orig' = [orig EXCEPT ![origin[d]].revoked = "email"] /\ Of(d).revoked = "no" /\ file[d].state = "accepted"
    BY <1>5 DEF RevokeOriginal, Turn
  <2>2. orig' \in [Originals -> OrigRecords] /\ orig'[origin[d]].revoked = "email"
    BY <1>1, <1>2, <2>1, Changed DEF OrigRecords
  <2>3. \A o \in Originals : o # origin[d] => orig'[o] = orig[o] BY <1>1, <2>1
  <2> QED BY <1>1, <2>1, <2>2, <2>3
<1> QED BY <1>3, <1>4, <1>5 DEF Touches

-----------------------------------------------------------------------------
(* Every variable keeps its type.                                          *)

\* The records keep their type: they are written whole, from what a run read.
LEMMA FileTyped ==
  ASSUME EngineInv, Next
  PROVE  file' \in Records
<1>1. ASSUME UNCHANGED file PROVE file' \in Records BY <1>1, Parts
<1>2. ASSUME NEW d \in Deliveries, Moves(d) PROVE file' \in Records BY <1>2, MovesIs
<1>3. ASSUME NEW d \in Deliveries, Begin(d) PROVE file' \in Records BY <1>3, BeginIs
<1>4. ASSUME NEW d \in Deliveries, Attempt(d) PROVE file' \in Records BY <1>4, AttemptIs
<1>5. ASSUME NEW d \in Deliveries, Accepted(d) PROVE file' \in Records
  BY <1>5, AcceptedIs DEF Outcome
<1>6. ASSUME NEW d \in Deliveries, SendFails(d) PROVE file' \in Records
  BY <1>6, SendFailsIs DEF Outcome
<1>7. ASSUME NEW d \in Deliveries, Abandons(d) PROVE file' \in Records
  BY <1>7, AbandonsIs, Parts
<1> QED
  BY <1>1, <1>2, <1>3, <1>4, <1>5, <1>6, <1>7
    DEF Next, Step, Run, Loop, Sweep, Check, BeginRefused, Resume, TakeFile, Freeze, SendAgain,
        RevokeOriginal, ListCopy, Unfreeze, RevokeCopy, RestoreFile, LiftHold, Return, Leave,
        RetryAfterPause, Throws, ClaimCopy, SweepSkips, SweepResumes, SpendChecks, SpendCommits,
        SweepStarts, SweepEnds, Crash, Moves, Abandons

\* The originals keep their type.
LEMMA OrigTyped ==
  ASSUME EngineInv, Next
  PROVE  orig' \in [Originals -> OrigRecords]
<1>1. ASSUME UNCHANGED orig PROVE orig' \in [Originals -> OrigRecords] BY <1>1, Parts
<1>2. ASSUME NEW d \in Deliveries, Touches(d) PROVE orig' \in [Originals -> OrigRecords]
  BY <1>2, TouchesIs
<1>3. ASSUME NEW o \in Originals, SpendCommits(o) PROVE orig' \in [Originals -> OrigRecords]
  <2> DEFINE r == IF orig[o].revoked = "no" THEN "other" ELSE orig[o].revoked
  <2>1. orig \in [Originals -> OrigRecords] BY Parts
  <2>2. r \in {"no", "email", "other"} BY <2>1 DEF OrigRecords
  <2>3. orig' = [[orig EXCEPT ![o].revoked = r] EXCEPT ![o].listed = FALSE]
    BY <1>3, <2>1 DEF SpendCommits
  <2> QED BY <2>1, <2>2, <2>3, Changed
<1> QED
  BY <1>1, <1>2, <1>3
    DEF Next, Step, Run, Loop, Sweep, Check, Begin, BeginRefused, Resume, Requeue, Hold, HoldFails,
        Attempt, SendAgain, Send, RecordRevoked, ListCopy, CloseDelivered, RevokeCopy,
        CloseRolledBack, Return, Leave, Accepted, SendFails, RetryAfterPause, Throws, ClaimCopy,
        SweepSkips, SweepResumes, SweepAbandons, SpendChecks, SweepStarts, SweepEnds, Crash,
        Touches, values

\* The copies keep their type.
LEMMA CopyTyped ==
  ASSUME EngineInv, Next
  PROVE  copy' \in [Deliveries -> CopyRecords]
<1>1. ASSUME UNCHANGED copy PROVE copy' \in [Deliveries -> CopyRecords] BY <1>1, Parts
<1>2. ASSUME NEW d \in Deliveries, ClaimCopy(d) PROVE copy' \in [Deliveries -> CopyRecords]
  BY <1>2, Parts DEF ClaimCopy, CopyRecords
<1>3. ASSUME NEW d \in Deliveries, ListCopy(d) \/ RevokeCopy(d)
      PROVE  copy' \in [Deliveries -> CopyRecords]
  <2>1. \/ copy' = [copy EXCEPT ![d].listed = TRUE]
        \/ copy' = [copy EXCEPT ![d].revoked = TRUE, ![d].listed = FALSE]
    BY <1>3 DEF ListCopy, RevokeCopy
  <2>2. /\ [copy EXCEPT ![d].listed = TRUE] \in [Deliveries -> CopyRecords]
        /\ [copy EXCEPT ![d].revoked = TRUE, ![d].listed = FALSE] \in [Deliveries -> CopyRecords]
    BY CopyChanged, Parts
  <2> QED BY <2>1, <2>2
<1>4. ASSUME NEW d \in Deliveries, BeginRefused(d) PROVE copy' \in [Deliveries -> CopyRecords]
  <2>1. copy' = [copy EXCEPT ![d].revoked = TRUE] BY <1>4 DEF BeginRefused
  <2>2. [copy EXCEPT ![d].revoked = TRUE] \in [Deliveries -> CopyRecords] BY CopyChanged, Parts
  <2> QED BY <2>1, <2>2
<1>5. ASSUME NEW d \in Deliveries, Loop(d) PROVE copy' \in [Deliveries -> CopyRecords]
  BY <1>1, <1>3, <1>5
    DEF Loop, Requeue, TakeFile, Freeze, Hold, HoldFails, Attempt, SendAgain, Send, RevokeOriginal,
        RecordRevoked, Unfreeze, CloseDelivered, RestoreFile, LiftHold, CloseRolledBack, Return,
        Leave, values
<1>6. ASSUME NEW s \in Sweeps, Sweep(s) PROVE copy' \in [Deliveries -> CopyRecords]
  BY <1>1, <1>6 DEF Sweep, SweepStarts, SweepEnds, SweepSkips, SweepResumes, SweepAbandons, values
<1> QED
  BY <1>1, <1>2, <1>4, <1>5, <1>6
    DEF Next, Step, Run, Check, Begin, Resume, Accepted, SendFails, RetryAfterPause, Throws, Leave,
        SpendChecks, SpendCommits, Crash, values

\* The places of the runs keep their type.
LEMMA PcTyped ==
  ASSUME EngineInv, Next
  PROVE  pc' \in [Deliveries -> Places]
<1>1. ASSUME UNCHANGED pc PROVE pc' \in [Deliveries -> Places] BY <1>1, Parts
<1>2. ASSUME NEW d \in Deliveries, NEW p \in Places, pc' = [pc EXCEPT ![d] = p]
      PROVE  pc' \in [Deliveries -> Places]
  BY <1>2, Parts
<1>3. ASSUME NEW d \in Deliveries, Loop(d) PROVE pc' \in [Deliveries -> Places]
  BY <1>1, <1>2, <1>3
    DEF Loop, Requeue, TakeFile, Freeze, Hold, HoldFails, Attempt, SendAgain, Send, RevokeOriginal,
        RecordRevoked, ListCopy, Unfreeze, CloseDelivered, RevokeCopy, RestoreFile, LiftHold,
        CloseRolledBack, NextTurn, Return, Leave, runs, Places
<1>4. ASSUME Crash PROVE pc' \in [Deliveries -> Places] BY <1>4 DEF Crash, Places
<1> QED
  BY <1>1, <1>2, <1>3, <1>4
    DEF Next, Step, Run, Sweep, Check, Begin, BeginRefused, Resume, Start, Accepted, SendFails,
        RetryAfterPause, Throws, Leave, ClaimCopy, SweepSkips, SweepResumes, SweepAbandons,
        SpendChecks, SpendCommits, SweepStarts, SweepEnds, runs, Places

RunSets ==
  /\ first \subseteq Deliveries /\ forwards \subseteq Deliveries
  /\ spending \subseteq Originals /\ spent \subseteq Originals /\ stops \in Nat

\* So do the sets of runs, the spends and the count of stops,
LEMMA RunsTyped ==
  ASSUME EngineInv, Next
  PROVE  RunSets'
<1>1. RunSets BY DEF EngineInv, TypeOK, RunSets
<1>2. ASSUME NEW d \in Deliveries, Loop(d) PROVE RunSets'
  BY <1>1, <1>2
    DEF Loop, Requeue, TakeFile, Freeze, Hold, HoldFails, Attempt, SendAgain, Send, RevokeOriginal,
        RecordRevoked, ListCopy, Unfreeze, CloseDelivered, RevokeCopy, RestoreFile, LiftHold,
        CloseRolledBack, NextTurn, Return, Leave, values, spends, runs, RunSets
<1>3. ASSUME NEW d \in Deliveries, Throws(d) PROVE RunSets'
  BY <1>1, <1>3 DEF Throws, Leave, values, spends, RunSets
<1>4. ASSUME NEW d \in Deliveries, Check(d) \/ Begin(d) \/ BeginRefused(d) \/ Resume(d) PROVE RunSets'
  BY <1>1, <1>4 DEF Check, Begin, BeginRefused, Resume, Start, values, spends, RunSets
<1>5. ASSUME NEW o \in Originals, SpendChecks(o) \/ SpendCommits(o) PROVE RunSets'
  BY <1>1, <1>5 DEF SpendChecks, SpendCommits, runs, RunSets
<1>6. ASSUME Crash PROVE RunSets' BY <1>1, <1>6 DEF Crash, RunSets
<1>7. ASSUME NEW d \in Deliveries, NEW s \in Sweeps,
             SweepSkips(s, d) \/ SweepResumes(s, d) \/ SweepAbandons(s, d)
      PROVE  RunSets'
  BY <1>1, <1>7 DEF SweepSkips, SweepResumes, SweepAbandons, Start, values, spends, runs, RunSets
<1> QED
  BY <1>1, <1>2, <1>3, <1>4, <1>5, <1>6, <1>7
    DEF Next, Step, Run, Sweep, Accepted, SendFails, RetryAfterPause, ClaimCopy, SweepStarts,
        SweepEnds, values, runs, spends, RunSets

\* what the runs have read,
LEMMA DocTyped ==
  ASSUME EngineInv, Next
  PROVE  doc' \in [Deliveries -> Records]
<1>1. ASSUME UNCHANGED doc PROVE doc' \in [Deliveries -> Records] BY <1>1, Parts
<1>2. ASSUME NEW d \in Deliveries, NEW f \in Records, doc' = [doc EXCEPT ![d] = f]
      PROVE  doc' \in [Deliveries -> Records]
  BY <1>2, Parts
<1>3. ASSUME NEW d \in Deliveries, Attempt(d) \/ SendAgain(d) PROVE doc' \in [Deliveries -> Records]
  BY <1>2, <1>3, FileTyped DEF Attempt, SendAgain, Send
<1>4. ASSUME NEW d \in Deliveries, Accepted(d) \/ SendFails(d) PROVE doc' \in [Deliveries -> Records]
  BY <1>2, <1>4, EmptyTyped DEF Accepted, SendFails
<1>5. ASSUME Crash PROVE doc' \in [Deliveries -> Records] BY <1>5, EmptyTyped DEF Crash
<1>6. ASSUME NEW d \in Deliveries, Loop(d) PROVE doc' \in [Deliveries -> Records]
  BY <1>1, <1>3, <1>6
    DEF Loop, Requeue, TakeFile, Freeze, Hold, HoldFails, RevokeOriginal, RecordRevoked, ListCopy,
        Unfreeze, CloseDelivered, RevokeCopy, RestoreFile, LiftHold, CloseRolledBack, NextTurn,
        Return, Leave, runs
<1>7. ASSUME NEW s \in Sweeps, Sweep(s) PROVE doc' \in [Deliveries -> Records]
  BY <1>1, <1>7
    DEF Sweep, SweepStarts, SweepEnds, SweepSkips, SweepResumes, SweepAbandons, Start, runs
<1> QED
  BY <1>1, <1>4, <1>5, <1>6, <1>7
    DEF Next, Step, Run, Check, Begin, BeginRefused, Resume, Start, RetryAfterPause, Throws, Leave,
        ClaimCopy, SpendChecks, SpendCommits, runs

\* what the sweeps have read,
LEMMA SweepTyped ==
  ASSUME EngineInv, Next
  PROVE  sweep' \in [Sweeps -> SweepRecords]
<1>1. ASSUME UNCHANGED sweep PROVE sweep' \in [Sweeps -> SweepRecords] BY <1>1, Parts
<1>2. ASSUME NEW s \in Sweeps, NEW r \in SweepRecords, sweep' = [sweep EXCEPT ![s] = r]
      PROVE  sweep' \in [Sweeps -> SweepRecords]
  BY <1>2, Parts
<1>3. ASSUME NEW s \in Sweeps, NEW d \in Deliveries, Passes(s, d) \/ Awaits(s, d)
      PROVE  sweep' \in [Sweeps -> SweepRecords]
  <2>1. sweep[s] \in SweepRecords /\ sweep[s].read \in [Deliveries -> Rec]
    BY Parts DEF SweepRecords, Records, Rec
  <2>2. [sweep[s].read EXCEPT ![d] = NoRecord] \in Records BY <2>1, EmptyTyped DEF Records, Rec
  <2>3. CASE Passes(s, d)
    <3>1. sweep' = [sweep EXCEPT ![s] = [sweep[s] EXCEPT !.read = [sweep[s].read EXCEPT ![d] = NoRecord]]]
      BY <2>3, Parts DEF Passes
    <3>2. [sweep[s] EXCEPT !.read = [sweep[s].read EXCEPT ![d] = NoRecord]] \in SweepRecords
      BY <2>1, <2>2 DEF SweepRecords
    <3> QED BY <3>1, <3>2, <1>2
  <2>4. CASE Awaits(s, d)
    <3> DEFINE f == [sweep EXCEPT ![s].read[d] = NoRecord]
               r == [sweep[s] EXCEPT !.read = [sweep[s].read EXCEPT ![d] = NoRecord]]
    <3>1. r \in SweepRecords BY <2>1, <2>2 DEF SweepRecords
    <3>2. f = [sweep EXCEPT ![s] = r] BY Parts
    <3> HIDE DEF r
    <3>3. f \in [Sweeps -> SweepRecords] BY <3>1, <3>2, Parts
    <3>4. sweep' = [f EXCEPT ![s].awaits = d] BY <2>4 DEF Awaits
    <3> HIDE DEF f
    <3>5. [f[s] EXCEPT !.awaits = d] \in SweepRecords BY <3>3 DEF SweepRecords
    <3>6. sweep' = [f EXCEPT ![s] = [f[s] EXCEPT !.awaits = d]] BY <3>4
    <3> QED BY <3>3, <3>5, <3>6
  <2> QED BY <1>3, <2>3, <2>4
<1>4. ASSUME NEW s \in Sweeps, SweepStarts(s) PROVE sweep' \in [Sweeps -> SweepRecords]
  <2> DEFINE r == [on |-> TRUE, awaits |-> None,
                   read |-> [d \in Deliveries |-> IF d \in ToVisit THEN file[d] ELSE NoRecord]]
  <2>1. r \in SweepRecords BY Parts, EmptyTyped DEF SweepRecords, Records, Rec
  <2> HIDE DEF r
  <2>2. sweep' = [sweep EXCEPT ![s] = r] BY <1>4 DEF SweepStarts, r
  <2> QED BY <2>1, <2>2, <1>2
<1>5. ASSUME NEW d \in Deliveries, Throws(d) PROVE sweep' \in [Sweeps -> SweepRecords]
  BY <1>5, Parts, EmptyTyped DEF Throws
<1>6. ASSUME NEW s \in Sweeps, SweepEnds(s) PROVE sweep' \in [Sweeps -> SweepRecords]
  BY <1>2, <1>6, EmptyTyped DEF SweepEnds
<1>7. ASSUME Crash PROVE sweep' \in [Sweeps -> SweepRecords] BY <1>7, EmptyTyped DEF Crash
<1>8. ASSUME NEW s \in Sweeps, Sweep(s) PROVE sweep' \in [Sweeps -> SweepRecords]
  BY <1>3, <1>4, <1>6, <1>8 DEF Sweep, SweepSkips, SweepResumes, SweepAbandons
<1> QED
  BY <1>1, <1>5, <1>7, <1>8
    DEF Next, Step, Run, Loop, Check, Begin, BeginRefused, Resume, Accepted, SendFails,
        RetryAfterPause, Return, ClaimCopy, SpendChecks, SpendCommits

\* and what was put back, which is never forgotten.
LEMMA UndoneGrows ==
  ASSUME EngineInv, Next
  PROVE  undone \subseteq undone' /\ undone' \subseteq Deliveries
<1>1. ASSUME UNCHANGED undone PROVE undone \subseteq undone' /\ undone' \subseteq Deliveries
  BY <1>1, Parts
<1>2. ASSUME NEW d \in Deliveries, Accepted(d) \/ SendFails(d) \/ Abandons(d)
      PROVE  undone \subseteq undone' /\ undone' \subseteq Deliveries
  <2>1. CASE Accepted(d) BY <2>1, AcceptedIs DEF Outcome
  <2>2. CASE SendFails(d) BY <2>2, SendFailsIs DEF Outcome
  <2>3. CASE Abandons(d)
    <3>1. undone' = undone \/ (undone \subseteq undone' /\ undone' \subseteq undone \cup {d}) BY <2>3, AbandonsIs
    <3>2. undone \subseteq Deliveries BY Parts
    <3> QED BY <3>1, <3>2
  <2> QED BY <1>2, <2>1, <2>2, <2>3
<1> QED
  BY <1>1, <1>2
    DEF Next, Step, Run, Loop, Sweep, Check, Begin, BeginRefused, Resume, RetryAfterPause, Return,
        Leave, Throws, ClaimCopy, SweepSkips, SweepResumes, SpendChecks, SpendCommits, SweepStarts,
        SweepEnds, Crash, Abandons

-----------------------------------------------------------------------------
(* The kinds of steps, as far as the rest of the invariant is concerned.   *)

\* a run starts, pauses or returns, and writes nothing
Goes(d) ==
  /\ UNCHANGED <<file, orig, copy, spent, doc, undone>>
  /\ stops' \in Nat /\ stops <= stops'
  /\ \A e \in Deliveries \ {d} : pc'[e] = pc[e]
  /\ pc[d] # "sending" /\ pc'[d] # "sending"
  /\ pc'[d] \in {"new", "minting"} => pc[d] \in {"new", "minting"}

\* a copy is listed, revoked or claimed
Copies(d) ==
  /\ UNCHANGED <<file, orig, spent, pc, doc, undone, stops>>
  /\ \A e \in Deliveries \ {d} : copy'[e] = copy[e]
  /\ copy[d].claimed => copy'[d].claimed
  /\ \/ /\ file[d].state = "original-revoked" /\ ~ copy[d].revoked
        /\ copy'[d] = [copy[d] EXCEPT !.listed = TRUE]
     \/ /\ file[d].state = "rolling-back"
        /\ copy'[d] = [revoked |-> TRUE, listed |-> FALSE, claimed |-> copy[d].claimed]
     \/ /\ CopyUsable(d)
        /\ copy'[d] = [revoked |-> TRUE, listed |-> FALSE, claimed |-> TRUE]

\* a copy that was never used is thrown away
Refuses(d) ==
  /\ UNCHANGED <<file, orig, spent, doc, undone, stops>>
  /\ \A e \in Deliveries \ {d} : copy'[e] = copy[e] /\ pc'[e] = pc[e]
  /\ pc[d] = "minting" /\ pc'[d] = "idle"
  /\ copy'[d].claimed = copy[d].claimed /\ copy'[d].listed = copy[d].listed

\* an original is spent by another request
Spends(o) ==
  /\ UNCHANGED <<file, copy, pc, doc, undone, stops>>
  /\ spent' = spent \cup {o}
  /\ \A p \in Originals \ {o} : orig'[p] = orig[p]
  /\ orig'[o].revoked = IF orig[o].revoked = "no" THEN "other" ELSE orig[o].revoked

Rests == UNCHANGED <<file, orig, copy, spent, pc, doc, undone, stops>>

LEMMA CopiesIs ==
  ASSUME EngineInv, NEW d \in Deliveries, ListCopy(d) \/ RevokeCopy(d) \/ ClaimCopy(d),
         UNCHANGED <<undone, stops>>
  PROVE  Copies(d)
<1>1. copy \in [Deliveries -> CopyRecords] BY Parts
<1>2. CASE ListCopy(d)
  BY <1>1, <1>2 DEF ListCopy, Turn, Copies, CopyRecords, spends, runs
<1>3. CASE RevokeCopy(d)
  <2>1. copy' = [[copy EXCEPT ![d].revoked = TRUE] EXCEPT ![d].listed = FALSE]
    BY <1>3 DEF RevokeCopy
  <2>2. copy'[d] = [revoked |-> TRUE, listed |-> FALSE, claimed |-> copy[d].claimed]
    <3>1. copy[d] = [revoked |-> copy[d].revoked, listed |-> copy[d].listed, claimed |-> copy[d].claimed]
      BY <1>1 DEF CopyRecords
    <3> QED BY <1>1, <2>1, <3>1
  <2>3. \A e \in Deliveries \ {d} : copy'[e] = copy[e] BY <1>1, <2>1
  <2>4. UNCHANGED <<file, orig, spent, pc, doc, undone, stops>> /\ file[d].state = "rolling-back"
    BY <1>3 DEF RevokeCopy, Turn, spends, runs
  <2>5. copy'[d].claimed = copy[d].claimed BY <2>2
  <2> QED BY <2>2, <2>3, <2>4, <2>5 DEF Copies
<1>4. CASE ClaimCopy(d)
  BY <1>1, <1>4 DEF ClaimCopy, Copies, spends, runs
<1> QED BY <1>2, <1>3, <1>4

LEMMA GoesIs ==
  ASSUME EngineInv, NEW d \in Deliveries,
         \/ Check(d) \/ Resume(d) \/ RetryAfterPause(d) \/ Throws(d)
         \/ Return(d) /\ UNCHANGED stops
         \/ \E s \in Sweeps : SweepResumes(s, d)
  PROVE  Goes(d)
<1>1. pc \in [Deliveries -> Places] /\ stops \in Nat BY Parts
<1>2. CASE Check(d) BY <1>1, <1>2 DEF Check, values, spends, Goes
<1>3. CASE Resume(d) BY <1>1, <1>3 DEF Resume, Start, values, spends, Goes
<1>4. CASE RetryAfterPause(d) BY <1>1, <1>4 DEF RetryAfterPause, values, spends, Goes
<1>5. CASE Throws(d) BY <1>1, <1>5 DEF Throws, Leave, values, spends, Goes
<1>6. CASE Return(d) /\ UNCHANGED stops BY <1>1, <1>6 DEF Return, Leave, values, spends, Goes
<1>7. CASE \E s \in Sweeps : SweepResumes(s, d)
  BY <1>1, <1>7 DEF SweepResumes, Start, values, spends, Goes
<1> QED BY <1>2, <1>3, <1>4, <1>5, <1>6, <1>7

LEMMA RefusesIs ==
  ASSUME EngineInv, NEW d \in Deliveries, BeginRefused(d)
  PROVE  Refuses(d)
BY Parts DEF BeginRefused, Refuses, spends, CopyRecords

LEMMA SpendsIs ==
  ASSUME EngineInv, NEW o \in Originals, SpendCommits(o)
  PROVE  Spends(o)
BY Parts DEF SpendCommits, Spends, runs, OrigRecords

\* One of them it is.
Kind ==
  \/ Rests
  \/ \E d \in Deliveries :
       \/ Begin(d) \/ Accepted(d) \/ SendFails(d) \/ Abandons(d)
       \/ Attempt(d) /\ UNCHANGED <<undone, stops>>
       \/ SendAgain(d) /\ UNCHANGED <<undone, stops>>
       \/ Moves(d) /\ UNCHANGED stops
       \/ Touches(d) /\ UNCHANGED <<undone, stops>>
       \/ Copies(d) \/ Refuses(d) \/ Goes(d)
  \/ \E o \in Originals : Spends(o)
  \/ Crash

LEMMA Kinds ==
  ASSUME EngineInv, Next
  PROVE  Kind
<1>1. ASSUME NEW d \in Deliveries, Loop(d) PROVE Kind
  BY <1>1, CopiesIs, GoesIs DEF Loop, Moves, Touches, Kind
<1>2. ASSUME NEW d \in Deliveries,
             Check(d) \/ Begin(d) \/ BeginRefused(d) \/ Resume(d) \/ Accepted(d) \/ SendFails(d)
             \/ RetryAfterPause(d) \/ Throws(d)
      PROVE  Kind
  BY <1>2, GoesIs, RefusesIs DEF Kind
<1>3. ASSUME NEW d \in Deliveries, ClaimCopy(d) PROVE Kind BY <1>3, CopiesIs DEF ClaimCopy, Kind
<1>4. ASSUME NEW o \in Originals, SpendChecks(o) PROVE Kind
  BY <1>4 DEF SpendChecks, Rests, runs, Kind
<1>5. ASSUME NEW o \in Originals, SpendCommits(o) PROVE Kind BY <1>5, SpendsIs DEF Kind
<1>6. ASSUME NEW s \in Sweeps, SweepStarts(s) \/ SweepEnds(s) PROVE Kind
  BY <1>6 DEF SweepStarts, SweepEnds, Rests, values, spends, runs, Kind
<1>7. ASSUME NEW s \in Sweeps, NEW d \in Deliveries, SweepSkips(s, d) PROVE Kind
  BY <1>7 DEF SweepSkips, Rests, values, spends, runs, Kind
<1>8. ASSUME NEW s \in Sweeps, NEW d \in Deliveries, SweepResumes(s, d) PROVE Kind
  BY <1>8, GoesIs DEF Kind
<1>9. ASSUME NEW s \in Sweeps, NEW d \in Deliveries, SweepAbandons(s, d) PROVE Kind
  BY <1>9 DEF Abandons, Kind
<1>10. ASSUME Crash PROVE Kind BY <1>10 DEF Kind
<1> QED
  BY <1>1, <1>2, <1>3, <1>4, <1>5, <1>6, <1>7, <1>8, <1>9, <1>10 DEF Next, Step, Run, Sweep

-----------------------------------------------------------------------------
(* Revoked first.                                                          *)

\* No step brings a revoked original back.
LEMMA StaysRevoked ==
  ASSUME EngineInv, Next, NEW d \in Deliveries, Revoked(d)
  PROVE  Revoked(d)'
<1>1. Kind /\ origin' = origin BY Kinds DEF Next
<1>2. HasOriginal(d) => origin[d] \in Originals /\ orig[origin[d]].revoked # "no"
  BY Parts DEF Revoked, Of
<1>3. ASSUME NEW e \in Deliveries, Touches(e), HasOriginal(d)
      PROVE  orig'[origin[d]].revoked # "no"
  BY <1>2, <1>3, TouchesIs DEF Of
<1>4. ASSUME NEW o \in Originals, Spends(o), HasOriginal(d)
      PROVE  orig'[origin[d]].revoked # "no"
  BY <1>2, <1>4 DEF Spends
<1>5. ASSUME orig' = orig, HasOriginal(d) PROVE orig'[origin[d]].revoked # "no"
  BY <1>2, <1>5
<1>6. \/ orig' = orig \/ \E e \in Deliveries : Touches(e)
      \/ \E o \in Originals : Spends(o)
  <2>1. ASSUME NEW e \in Deliveries, Begin(e) PROVE orig' = orig BY <2>1, BeginIs
  <2>2. ASSUME NEW e \in Deliveries, Accepted(e) PROVE orig' = orig BY <2>2, AcceptedIs DEF Outcome
  <2>3. ASSUME NEW e \in Deliveries, SendFails(e) PROVE orig' = orig BY <2>3, SendFailsIs DEF Outcome
  <2>4. ASSUME NEW e \in Deliveries, Abandons(e) PROVE orig' = orig BY <2>4, AbandonsIs
  <2>5. ASSUME NEW e \in Deliveries, Moves(e) PROVE orig' = orig BY <2>5, MovesIs
  <2> QED
    BY <1>1, <2>1, <2>2, <2>3, <2>4, <2>5
      DEF Kind, Rests, Copies, Refuses, Goes, Crash, Attempt, SendAgain, Send, values
<1> QED BY <1>1, <1>3, <1>4, <1>5, <1>6 DEF Revoked, Of, HasOriginal

Says(r) == r.state \in {"original-revoked", "delivered"}

\* A record on file that says so is as it was, or the run has just checked it.
LEMMA FileSays ==
  ASSUME EngineInv, Next
  PROVE  \A d \in Deliveries : Says(file'[d]) => Revoked(d)
<1>1. Kind BY Kinds
<1>2. \A d \in Deliveries : Says(file[d]) => Revoked(d)
  BY DEF EngineInv, RevokesFirst, RevokedFirst, Says
<1>3. \A e, d \in Deliveries : Says(doc[e][d]) => Revoked(d)
  BY DEF EngineInv, RevokesFirst, RevokedFirst, Says
<1>4. CASE UNCHANGED file BY <1>2, <1>4
<1>5. ASSUME NEW e \in Deliveries, Begin(e) \/ Attempt(e) \/ Abandons(e) \/ Moves(e),
             NEW d \in Deliveries, Says(file'[d])
      PROVE  Revoked(d)
  <2>1. CASE d # e
    <3>1. file'[d] = file[d] BY <1>5, <2>1, BeginIs, AttemptIs, AbandonsIs, MovesIs
    <3> QED BY <1>2, <1>5, <3>1
  <2>2. CASE d = e /\ (Begin(e) \/ Attempt(e))
    <3>1. CASE Begin(e)
      <4>1. file'[e] = [state |-> "prepared", attempts |-> file[e].attempts] BY <3>1, BeginIs
      <4> QED BY <1>5, <2>2, <4>1 DEF Says
    <3>2. CASE Attempt(e)
      <4>1. file'[e] = [state |-> "sending", attempts |-> file[e].attempts + 1] BY <3>2, AttemptIs
      <4> QED BY <1>5, <2>2, <4>1 DEF Says
    <3> QED BY <2>2, <3>1, <3>2
  <2>3. CASE d = e /\ Abandons(e)
    <3>1. \/ file' = file
          \/ file'[e] = [state |-> "rolling-back", attempts |-> file[e].attempts]
      BY <2>3, AbandonsIs
    <3> QED BY <1>2, <1>5, <2>3, <3>1 DEF Says
  <2>4. CASE d = e /\ Moves(e) BY <1>2, <1>5, <2>4, MovesIs DEF Says
  <2> QED BY <1>5, <2>1, <2>2, <2>3, <2>4
<1>6. ASSUME NEW e \in Deliveries, Accepted(e) \/ SendFails(e),
             NEW d \in Deliveries, Says(file'[d])
      PROVE  Revoked(d)
  <2>1. PICK s \in {"accepted", "held", "rolling-back"} : Outcome(e, s)
    BY <1>6, AcceptedIs, SendFailsIs
  <2>2. d # e BY <1>6, <2>1 DEF Outcome, Says
  <2> QED BY <1>3, <1>6, <2>1, <2>2 DEF Outcome
<1> QED
  BY <1>1, <1>4, <1>5, <1>6
    DEF Kind, Rests, SendAgain, Touches, TakeFile, Freeze, RevokeOriginal, Unfreeze, RestoreFile,
        LiftHold, Copies, Refuses, Goes, Spends, Crash

\* What a run reads for a send is what is on file.
LEMMA DocSays ==
  ASSUME EngineInv, Next
  PROVE  \A e, d \in Deliveries : Says(doc'[e][d]) => Revoked(d)
<1>1. Kind BY Kinds
<1>2. \A e, d \in Deliveries : Says(doc[e][d]) => Revoked(d)
  BY DEF EngineInv, RevokesFirst, RevokedFirst, Says
<1>3. CASE UNCHANGED doc BY <1>2, <1>3
<1>4. \A d \in Deliveries : ~ Says(NoFile[d]) BY DEF NoFile, NoRecord, Says
<1>5. ASSUME NEW x \in Deliveries, Attempt(x) \/ SendAgain(x),
             NEW e \in Deliveries, NEW d \in Deliveries, Says(doc'[e][d])
      PROVE  Revoked(d)
  <2>1. doc' = [doc EXCEPT ![x] = file'] BY <1>5 DEF Attempt, SendAgain, Send
  <2>2. doc'[e] = IF e = x THEN file' ELSE doc[e] BY <2>1, Parts
  <2> QED BY <1>2, <1>5, <2>2, FileSays
<1>6. ASSUME NEW x \in Deliveries, Accepted(x) \/ SendFails(x),
             NEW e \in Deliveries, NEW d \in Deliveries, Says(doc'[e][d])
      PROVE  Revoked(d)
  <2>1. doc' = [doc EXCEPT ![x] = NoFile] BY <1>6 DEF Accepted, SendFails
  <2>2. doc'[e] = IF e = x THEN NoFile ELSE doc[e] BY <2>1, Parts
  <2> QED BY <1>2, <1>4, <1>6, <2>2
<1>7. CASE Crash BY <1>4, <1>7 DEF Crash
<1>8. ASSUME NEW x \in Deliveries, Begin(x) PROVE doc' = doc BY <1>8, BeginIs
<1>9. ASSUME NEW x \in Deliveries, Abandons(x) PROVE doc' = doc BY <1>9, AbandonsIs
<1>10. ASSUME NEW x \in Deliveries, Moves(x) PROVE doc' = doc BY <1>10, MovesIs
<1>11. ASSUME NEW x \in Deliveries, Touches(x) PROVE doc' = doc BY <1>11, TouchesIs DEF runs
<1> QED
  BY <1>1, <1>3, <1>5, <1>6, <1>7, <1>8, <1>9, <1>10, <1>11
    DEF Kind, Rests, Copies, Refuses, Goes, Spends

LEMMA RevokesFirstStep ==
  ASSUME EngineInv, Next
  PROVE  RevokesFirst'
<1>1. Kind BY Kinds
<1>2. ASSUME NEW d \in Deliveries, copy'[d].listed \/ copy'[d].claimed PROVE Revoked(d)
  <2>1. copy[d].listed \/ copy[d].claimed \/ Says(file[d]) => Revoked(d)
    BY DEF EngineInv, RevokesFirst, RevokedFirst, Says
  <2>2. CASE UNCHANGED copy BY <1>2, <2>1, <2>2
  <2>3. ASSUME NEW e \in Deliveries, Copies(e) PROVE Revoked(d)
    BY <1>2, <2>1, <2>3 DEF Copies, CopyUsable, Says
  <2>4. ASSUME NEW e \in Deliveries, Refuses(e) PROVE Revoked(d) BY <1>2, <2>1, <2>4 DEF Refuses
  <2>5. ASSUME NEW x \in Deliveries, Begin(x) PROVE copy' = copy BY <2>5, BeginIs
  <2>6. ASSUME NEW x \in Deliveries, Abandons(x) PROVE copy' = copy BY <2>6, AbandonsIs
  <2>7. ASSUME NEW x \in Deliveries, Moves(x) PROVE copy' = copy BY <2>7, MovesIs
  <2>8. ASSUME NEW x \in Deliveries, Touches(x) PROVE copy' = copy BY <2>8, TouchesIs
  <2> QED
    BY <1>1, <2>2, <2>3, <2>4, <2>5, <2>6, <2>7, <2>8
      DEF Kind, Rests, Accepted, SendFails, Attempt, SendAgain, Send, Goes, Spends, Crash, values
<1> QED BY <1>2, FileSays, DocSays, StaysRevoked DEF RevokesFirst, RevokedFirst, Says

-----------------------------------------------------------------------------
(* One delivery of an original at a time.                                  *)

LEMMA OneActiveStep ==
  ASSUME EngineInv, Next
  PROVE  OneActive'
<1>1. Kind /\ origin' = origin BY Kinds DEF Next
<1>2. ASSUME NEW x \in Deliveries, x \notin undone', Active(x)', ~ Active(x)
      PROVE  Begin(x)
  <2>1. x \notin undone /\ Tracked(x) BY <1>2, UndoneGrows DEF EngineInv
  <2>2. CASE UNCHANGED file BY <1>2, <2>2 DEF Active
  <2>3. ASSUME NEW e \in Deliveries, Begin(e) PROVE x = e BY <1>2, <2>3, BeginIs DEF Active
  <2>4. ASSUME NEW e \in Deliveries, Attempt(e) \/ Abandons(e) \/ Moves(e) PROVE FALSE
    BY <1>2, <2>4, AttemptIs, AbandonsIs, MovesIs DEF Active, Unfinished, Terminal
  <2>5. ASSUME NEW e \in Deliveries, Accepted(e) \/ SendFails(e) PROVE FALSE
    <3>1. pc[e] = "sending" /\ \E s \in States : Outcome(e, s)
      BY <2>5, AcceptedIs, SendFailsIs, Names
    <3>2. x = e BY <1>2, <3>1 DEF Outcome, Others, Active
    <3> QED BY <1>2, <2>1, <3>1, <3>2 DEF Tracked, RunKnows, Active
  <2> QED
    BY <1>1, <2>2, <2>3, <2>4, <2>5
      DEF Kind, Rests, SendAgain, Touches, TakeFile, Freeze, RevokeOriginal, Unfreeze,
          RestoreFile, LiftHold, Copies, Refuses, Goes, Spends, Crash
<1>3. ASSUME NEW d \in Deliveries, NEW e \in Deliveries, HasOriginal(d), origin[e] = origin[d],
             Kept(origin[d])', Begin(d), Active(e)'
      PROVE  d = e
  <2>1. file[e].state \in {"none", "rolled-back"}
    BY <1>3, BeginIs, Parts DEF KeyFree, HasOriginal
  <2> QED BY <1>3, <2>1, BeginIs DEF Active
<1>4. ASSUME NEW d \in Deliveries, NEW e \in Deliveries, HasOriginal(d), origin[e] = origin[d],
             Kept(origin[d])', Active(d)', Active(e)'
      PROVE  d = e
  <2>1. d \notin undone' /\ e \notin undone' /\ Kept(origin[d])
    BY <1>1, <1>4, UndoneGrows DEF Kept
  <2>2. CASE Begin(d) BY <1>3, <1>4, <2>2
  <2>3. CASE Begin(e)
    <3>1. HasOriginal(e) /\ Kept(origin[e])' BY <1>1, <1>4 DEF HasOriginal, Kept
    <3> QED BY <1>3, <1>4, <2>3, <3>1
  <2>4. CASE Active(d) /\ Active(e) BY <1>4, <2>1, <2>4 DEF EngineInv, OneActive
  <2> QED BY <1>2, <1>4, <2>1, <2>2, <2>3, <2>4
<1> QED BY <1>1, <1>4 DEF OneActive, HasOriginal, Kept

-----------------------------------------------------------------------------
(* What the records tell, unless they were put back.                       *)

\* What stays as it was keeps what it tells.
LEMMA TrackedStays ==
  ASSUME EngineInv, NEW x \in Deliveries, Tracked(x), file'[x] = file[x], copy'[x] = copy[x],
         doc'[x] = doc[x], pc'[x] = pc[x], stops' \in Nat, stops <= stops'
  PROVE  Tracked(x)'
<1>1. file[x].attempts \in Nat /\ stops \in Nat /\ MaxAttempts \in Nat
  BY Parts, DeliveryAssumption DEF Rec
<1>2. RunKnows(x)' BY DEF Tracked, RunKnows
<1>3. Counted(x)' BY <1>1 DEF Tracked, Counted
<1>4. RecordTells(x)' BY DEF Tracked, RecordTells
<1> QED BY <1>2, <1>3, <1>4 DEF Tracked

\* the record of the run that writes after its send
LEMMA TrackedOutcome ==
  ASSUME EngineInv, NEW x \in Deliveries, Tracked(x), pc[x] = "sending",
         pc'[x] \in {"loop", "pause"},
         \/ Outcome(x, "accepted") \/ Outcome(x, "rolling-back")
         \/ Outcome(x, "held") /\ doc[x][x].attempts < MaxAttempts
  PROVE  Tracked(x)'
<1>1. /\ file[x].state = "sending" /\ doc[x][x] = file[x]
      /\ ~ copy[x].revoked /\ ~ copy[x].listed /\ ~ copy[x].claimed
  BY DEF Tracked, RunKnows, RecordTells
<1>2. /\ file'[x].state \in {"accepted", "rolling-back", "held"}
      /\ file'[x].attempts = file[x].attempts /\ copy' = copy /\ stops' = stops
      /\ file'[x].state = "held" => file[x].attempts < MaxAttempts
  BY <1>1 DEF Outcome
<1>3. file[x].attempts \in Nat /\ stops \in Nat /\ MaxAttempts \in Nat
  BY Parts, DeliveryAssumption DEF Rec
<1>4. file[x].attempts <= MaxAttempts + stops BY DEF Tracked, Counted
<1>5. RunKnows(x)' BY DEF RunKnows
<1>6. Counted(x)' BY <1>2, <1>3, <1>4 DEF Counted
<1>7. RecordTells(x)' BY <1>1, <1>2 DEF RecordTells
<1> QED BY <1>5, <1>6, <1>7 DEF Tracked

LEMMA TrackedMoves ==
  ASSUME EngineInv, NEW x \in Deliveries, Tracked(x), Moves(x), UNCHANGED stops
  PROVE  Tracked(x)'
<1>1. /\ file'[x].attempts = file[x].attempts
      /\ \/ file[x].state = "sending" /\ file'[x].state = "held"
         \/ file[x].state = "prepared" /\ file'[x].state \in {"held", "rolling-back"}
         \/ file[x].state = "accepted" /\ file'[x].state = "original-revoked"
         \/ /\ file[x].state = "original-revoked" /\ file'[x].state = "delivered"
            /\ copy[x].listed \/ copy[x].revoked
         \/ file[x].state = "rolling-back" /\ file'[x].state = "rolled-back"
      /\ pc[x] = "loop" /\ UNCHANGED <<copy, pc>>
  BY MovesIs
<1>2. file[x].attempts \in Nat /\ stops \in Nat /\ MaxAttempts \in Nat /\ MaxAttempts > 0
  BY Parts, DeliveryAssumption DEF Rec
<1>3. RunKnows(x)' BY <1>1 DEF RunKnows
<1>4. Counted(x)'
  <2>1. Counted(x) BY DEF Tracked
  <2> QED BY <1>1, <1>2, <2>1 DEF Counted
<1>5. RecordTells(x)'
  <2>1. RecordTells(x) BY DEF Tracked
  <2> QED BY <1>1, <2>1 DEF RecordTells
<1> QED BY <1>3, <1>4, <1>5 DEF Tracked

LEMMA TrackedBegins ==
  ASSUME EngineInv, NEW x \in Deliveries, Tracked(x), Begin(x)
  PROVE  Tracked(x)'
<1>1. /\ pc[x] = "minting" /\ pc'[x] = "loop" /\ UNCHANGED <<copy, stops>>
      /\ file'[x] = [state |-> "prepared", attempts |-> file[x].attempts]
  BY BeginIs
<1>2. file[x] = NoRecord /\ ~ copy[x].revoked BY <1>1 DEF Tracked, RunKnows
<1>3. ~ copy[x].listed /\ ~ copy[x].claimed BY <1>2 DEF Tracked, RecordTells, NoRecord
<1>4. stops \in Nat /\ MaxAttempts \in Nat /\ MaxAttempts > 0 BY Parts, DeliveryAssumption
<1>5. RunKnows(x)' BY <1>1 DEF RunKnows
<1>6. Counted(x)' BY <1>1, <1>2, <1>4 DEF Counted, NoRecord
<1>7. RecordTells(x)' BY <1>1, <1>2, <1>3 DEF RecordTells
<1> QED BY <1>5, <1>6, <1>7 DEF Tracked

LEMMA TrackedSends ==
  ASSUME EngineInv, NEW x \in Deliveries, Tracked(x), UNCHANGED stops,
         Attempt(x) \/ SendAgain(x)
  PROVE  Tracked(x)'
<1>1. pc \in [Deliveries -> Places] /\ doc \in [Deliveries -> Records] BY Parts
<1>2. file[x].attempts \in Nat /\ stops \in Nat /\ MaxAttempts \in Nat
  BY Parts, DeliveryAssumption DEF Rec
<1>3. /\ pc[x] = "loop" /\ pc'[x] = "sending" /\ doc'[x] = file' /\ copy' = copy
      /\ \/ /\ file[x].state = "held"
            /\ file'[x] = [state |-> "sending", attempts |-> file[x].attempts + 1]
         \/ file[x].state = "sending" /\ file'[x] = file[x]
  <2>1. CASE Attempt(x) BY <1>1, <2>1, AttemptIs
  <2>2. CASE SendAgain(x) BY <1>1, <2>2 DEF SendAgain, Send, Turn, values
  <2> QED BY <2>1, <2>2
<1>4. RunKnows(x)' BY <1>3 DEF RunKnows
<1>5. Counted(x)'
  <2>1. Counted(x) BY DEF Tracked
  <2> QED BY <1>2, <1>3, <2>1 DEF Counted
<1>6. RecordTells(x)'
  <2>1. RecordTells(x) BY DEF Tracked
  <2> QED BY <1>3, <2>1 DEF RecordTells
<1> QED BY <1>4, <1>5, <1>6 DEF Tracked

LEMMA TrackedAbandons ==
  ASSUME EngineInv, NEW x \in Deliveries, Tracked(x), Abandons(x), x \notin undone'
  PROVE  Tracked(x)'
<1>1. UNCHANGED <<copy, stops, doc>> /\ pc[x] = "idle" BY AbandonsIs
<1>2. stops \in Nat BY Parts
<1>3. CASE UNCHANGED <<file, pc, undone>> BY <1>1, <1>2, <1>3, TrackedStays
<1>4. CASE /\ pc'[x] = "loop" /\ file[x].state \notin Forward /\ Unfinished(file[x])
           /\ file'[x] = [state |-> "rolling-back", attempts |-> file[x].attempts]
  <2>1. RunKnows(x)' BY <1>4 DEF RunKnows
  <2>2. Counted(x)' BY <1>1, <1>4 DEF Tracked, Counted
  <2>3. RecordTells(x)' BY <1>1, <1>4 DEF Tracked, RecordTells, Forward
  <2> QED BY <2>1, <2>2, <2>3 DEF Tracked
<1> QED BY <1>3, <1>4, AbandonsIs

\* a stop counts for the attempt it cuts short
LEMMA TrackedCrash ==
  ASSUME EngineInv, NEW x \in Deliveries, Tracked(x), Crash
  PROVE  Tracked(x)'
<1>1. /\ UNCHANGED <<file, copy>> /\ stops' = stops + 1
      /\ pc'[x] = IF pc[x] \in {"new", "minting"} THEN "new" ELSE "idle"
  BY DEF Crash
<1>2. file[x].attempts \in Nat /\ stops \in Nat /\ MaxAttempts \in Nat
  BY Parts, DeliveryAssumption DEF Rec
<1>3. RunKnows(x)' BY <1>1 DEF Tracked, RunKnows
<1>4. Counted(x)' BY <1>1, <1>2 DEF Tracked, Counted
<1>5. RecordTells(x)' BY <1>1 DEF Tracked, RecordTells
<1> QED BY <1>3, <1>4, <1>5 DEF Tracked

LEMMA TrackedGoes ==
  ASSUME EngineInv, NEW x \in Deliveries, Tracked(x), Goes(x)
  PROVE  Tracked(x)'
<1>1. /\ UNCHANGED <<file, copy>> /\ stops' \in Nat /\ stops <= stops'
      /\ pc[x] # "sending" /\ pc'[x] # "sending"
      /\ pc'[x] \in {"new", "minting"} => pc[x] \in {"new", "minting"}
  BY DEF Goes
<1>2. file[x].attempts \in Nat /\ stops \in Nat /\ MaxAttempts \in Nat
  BY Parts, DeliveryAssumption DEF Rec
<1>3. RunKnows(x)' BY <1>1 DEF Tracked, RunKnows
<1>4. Counted(x)' BY <1>1, <1>2 DEF Tracked, Counted
<1>5. RecordTells(x)' BY <1>1 DEF Tracked, RecordTells
<1> QED BY <1>3, <1>4, <1>5 DEF Tracked

LEMMA TrackedCopies ==
  ASSUME EngineInv, NEW x \in Deliveries, Tracked(x), Copies(x) \/ Refuses(x)
  PROVE  Tracked(x)'
<1>1. UNCHANGED <<file, doc, stops>> BY DEF Copies, Refuses
<1>2. CASE Copies(x)
  <2>1. copy[x] \in CopyRecords BY Parts
  <2>2. RunKnows(x)'
    BY <1>2 DEF Tracked, RunKnows, RecordTells, Copies, NoRecord, CopyUsable
  <2>3. Counted(x)' BY <1>2 DEF Tracked, Counted, Copies
  <2>4. RecordTells(x) BY DEF Tracked
  <2>5. /\ file' = file
        /\ \/ /\ file[x].state = "original-revoked" /\ ~ copy[x].revoked
              /\ copy'[x].listed /\ ~ copy'[x].revoked /\ copy'[x].claimed = copy[x].claimed
           \/ /\ file[x].state = "rolling-back"
              /\ ~ copy'[x].listed /\ copy'[x].claimed = copy[x].claimed
           \/ copy[x].listed /\ copy'[x].revoked /\ ~ copy'[x].listed /\ copy'[x].claimed
    BY <1>2, <2>1 DEF Copies, CopyUsable, CopyRecords
  <2>6. RecordTells(x)' BY <2>4, <2>5 DEF RecordTells
  <2> QED BY <2>2, <2>3, <2>6 DEF Tracked
<1>3. CASE Refuses(x)
  <2>1. file[x] = NoRecord BY <1>3 DEF Refuses, Tracked, RunKnows
  <2>2. RunKnows(x)' BY <1>3 DEF RunKnows, Refuses
  <2>3. Counted(x)' BY <1>1, <2>1 DEF Tracked, Counted, NoRecord
  <2>4. RecordTells(x)' BY <1>1, <1>3, <2>1 DEF Tracked, RecordTells, NoRecord, Refuses
  <2> QED BY <2>2, <2>3, <2>4 DEF Tracked
<1> QED BY <1>2, <1>3

LEMMA TrackedStep ==
  ASSUME EngineInv, Next, NEW x \in Deliveries, x \notin undone'
  PROVE  Tracked(x)'
<1>1. Kind BY Kinds
<1>2. Tracked(x) BY UndoneGrows DEF EngineInv
<1>3. doc \in [Deliveries -> Records] /\ stops \in Nat BY Parts
<1>4. CASE Rests BY <1>2, <1>3, <1>4, TrackedStays DEF Rests
<1>5. CASE \E o \in Originals : Spends(o) BY <1>2, <1>3, <1>5, TrackedStays DEF Spends
<1>6. CASE Crash BY <1>2, <1>6, TrackedCrash
<1>7. ASSUME NEW d \in Deliveries, Begin(d) PROVE Tracked(x)'
  <2>1. CASE x = d BY <1>2, <1>7, <2>1, TrackedBegins
  <2>2. CASE x # d
    <3>1. file'[x] = file[x] BY <1>7, <2>2, BeginIs DEF Others
    <3>2. pc'[x] = pc[x] BY <1>7, <2>2, BeginIs DEF Others
    <3>3. copy' = copy /\ stops' = stops BY <1>7, <2>2, BeginIs
    <3>4. doc'[x] = doc[x] BY <1>7, <2>2, BeginIs
    <3> QED BY <1>2, <1>3, <3>1, <3>2, <3>3, <3>4, TrackedStays
  <2> QED BY <2>1, <2>2
<1>8. ASSUME NEW d \in Deliveries, Accepted(d) PROVE Tracked(x)'
  <2>1. CASE x = d BY <1>2, <1>8, <2>1, AcceptedIs, TrackedOutcome
  <2>2. CASE x # d
    <3>0. Others(d) BY <1>8, AcceptedIs DEF Outcome
    <3>1. file'[x] = file[x] BY <2>2, <3>0 DEF Others
    <3>2. pc'[x] = pc[x] BY <2>2, <3>0 DEF Others
    <3>3. copy' = copy /\ stops' = stops BY <1>8, <2>2, AcceptedIs DEF Outcome
    <3>4. doc'[x] = doc[x] BY <1>3, <1>8, <2>2, AcceptedIs DEF Outcome
    <3> QED BY <1>2, <1>3, <3>1, <3>2, <3>3, <3>4, TrackedStays
  <2> QED BY <2>1, <2>2
<1>9. ASSUME NEW d \in Deliveries, SendFails(d) PROVE Tracked(x)'
  <2>1. CASE x = d BY <1>2, <1>9, <2>1, SendFailsIs, TrackedOutcome
  <2>2. CASE x # d
    <3>0. Others(d) BY <1>9, SendFailsIs DEF Outcome
    <3>1. file'[x] = file[x] BY <2>2, <3>0 DEF Others
    <3>2. pc'[x] = pc[x] BY <2>2, <3>0 DEF Others
    <3>3. copy' = copy /\ stops' = stops BY <1>9, <2>2, SendFailsIs DEF Outcome
    <3>4. doc'[x] = doc[x] BY <1>3, <1>9, <2>2, SendFailsIs DEF Outcome
    <3> QED BY <1>2, <1>3, <3>1, <3>2, <3>3, <3>4, TrackedStays
  <2> QED BY <2>1, <2>2
<1>10. ASSUME NEW d \in Deliveries, Abandons(d) PROVE Tracked(x)'
  <2>1. CASE x = d BY <1>2, <1>10, <2>1, TrackedAbandons
  <2>2. CASE x # d
    <3>1. file'[x] = file[x] BY <1>10, <2>2, AbandonsIs DEF Others
    <3>2. pc'[x] = pc[x] BY <1>10, <2>2, AbandonsIs DEF Others
    <3>3. copy' = copy /\ stops' = stops BY <1>10, <2>2, AbandonsIs
    <3>4. doc'[x] = doc[x] BY <1>10, <2>2, AbandonsIs
    <3> QED BY <1>2, <1>3, <3>1, <3>2, <3>3, <3>4, TrackedStays
  <2> QED BY <2>1, <2>2
<1>11. ASSUME NEW d \in Deliveries, Attempt(d) \/ SendAgain(d), UNCHANGED <<undone, stops>>
       PROVE  Tracked(x)'
  <2>1. CASE x = d BY <1>2, <1>11, <2>1, TrackedSends
  <2>2. CASE x # d
    <3>1. CASE Attempt(d)
      <4>1. file'[x] = file[x] BY <1>11, <2>2, <3>1, AttemptIs DEF Others
      <4>2. pc'[x] = pc[x] BY <1>11, <2>2, <3>1, AttemptIs DEF Others
      <4>3. copy' = copy /\ stops' = stops BY <1>11, <2>2, <3>1, AttemptIs
      <4>4. doc'[x] = doc[x] BY <1>3, <1>11, <2>2, <3>1, AttemptIs
      <4> QED BY <1>2, <1>3, <4>1, <4>2, <4>3, <4>4, TrackedStays
    <3>2. CASE SendAgain(d)
      BY <1>2, <1>3, <1>11, <2>2, <3>2, Parts, TrackedStays DEF SendAgain, Send, values
    <3> QED BY <1>11, <3>1, <3>2
  <2> QED BY <2>1, <2>2
<1>12. ASSUME NEW d \in Deliveries, Moves(d), UNCHANGED stops PROVE Tracked(x)'
  <2>1. CASE x = d BY <1>2, <1>12, <2>1, TrackedMoves
  <2>2. CASE x # d BY <1>2, <1>3, <1>12, <2>2, MovesIs, TrackedStays
  <2> QED BY <2>1, <2>2
<1>13. ASSUME NEW d \in Deliveries, Touches(d), UNCHANGED <<undone, stops>> PROVE Tracked(x)'
  BY <1>2, <1>3, <1>13, TouchesIs, TrackedStays DEF runs
<1>14. ASSUME NEW d \in Deliveries, Copies(d) \/ Refuses(d) PROVE Tracked(x)'
  <2>1. CASE x = d BY <1>2, <1>14, <2>1, TrackedCopies
  <2>2. CASE x # d BY <1>2, <1>3, <1>14, <2>2, TrackedStays DEF Copies, Refuses
  <2> QED BY <2>1, <2>2
<1>15. ASSUME NEW d \in Deliveries, Goes(d) PROVE Tracked(x)'
  <2>1. CASE x = d BY <1>2, <1>15, <2>1, TrackedGoes
  <2>2. CASE x # d BY <1>2, <1>3, <1>15, <2>2, TrackedStays DEF Goes
  <2> QED BY <2>1, <2>2
<1> QED
  BY <1>1, <1>4, <1>5, <1>6, <1>7, <1>8, <1>9, <1>10, <1>11, <1>12, <1>13, <1>14, <1>15 DEF Kind

-----------------------------------------------------------------------------
(* Nothing is lost.                                                        *)

\* Past the point of no return a record stays, unless it was put back.
LEMMA ForwardStays ==
  ASSUME EngineInv, Next, NEW x \in Deliveries, x \notin undone', file[x].state \in Forward
  PROVE  file'[x].state \in Forward
<1>1. Kind BY Kinds
<1>2. Tracked(x) BY UndoneGrows DEF EngineInv
<1>3. CASE UNCHANGED file BY <1>3
<1>4. ASSUME NEW d \in Deliveries, Begin(d) \/ Attempt(d) \/ Moves(d) \/ Abandons(d)
      PROVE  file'[x].state \in Forward
  <2>1. CASE x # d
    <3>1. file'[x] = file[x] BY <1>4, <2>1, BeginIs, AttemptIs, MovesIs, AbandonsIs
    <3> QED BY <3>1
  <2>2. CASE x = d /\ Begin(d)
    <3>1. pc[x] = "minting" BY <2>2, BeginIs
    <3> QED BY <1>2, <3>1 DEF Tracked, RunKnows, NoRecord, Forward
  <2>3. CASE x = d /\ Attempt(d) BY <2>3, AttemptIs DEF Forward
  <2>4. CASE x = d /\ Moves(d) BY <2>4, MovesIs DEF Forward
  <2>5. CASE x = d /\ Abandons(d) BY <2>5, AbandonsIs
  <2> QED BY <1>4, <2>1, <2>2, <2>3, <2>4, <2>5
<1>5. ASSUME NEW d \in Deliveries, Accepted(d) \/ SendFails(d) PROVE file'[x].state \in Forward
  <2>1. pc[d] = "sending" /\ \E s \in States : Outcome(d, s)
    BY <1>5, AcceptedIs, SendFailsIs, Names
  <2>2. x # d BY <1>2, <2>1 DEF Tracked, RunKnows, Forward
  <2> QED BY <2>1, <2>2 DEF Outcome, Others
<1> QED
  BY <1>1, <1>3, <1>4, <1>5
    DEF Kind, Rests, SendAgain, Touches, TakeFile, Freeze, RevokeOriginal, Unfreeze, RestoreFile,
        LiftHold, Copies, Refuses, Goes, Spends, Crash

\* How the originals change.
LEMMA OrigSteps ==
  ASSUME EngineInv, Next
  PROVE  /\ spent \subseteq spent'
         /\ \/ orig' = orig
            \/ \E d \in Deliveries : Touches(d) /\ UNCHANGED undone
            \/ \E o \in Originals : Spends(o)
<1>1. Kind BY Kinds
<1>2. ASSUME NEW e \in Deliveries, Begin(e) PROVE orig' = orig /\ spent' = spent
  BY <1>2, BeginIs DEF spends
<1>3. ASSUME NEW e \in Deliveries, Accepted(e) PROVE orig' = orig /\ spent' = spent
  BY <1>3, AcceptedIs DEF Outcome, spends
<1>4. ASSUME NEW e \in Deliveries, SendFails(e) PROVE orig' = orig /\ spent' = spent
  BY <1>4, SendFailsIs DEF Outcome, spends
<1>5. ASSUME NEW e \in Deliveries, Abandons(e) PROVE orig' = orig /\ spent' = spent
  BY <1>5, AbandonsIs DEF spends
<1>6. ASSUME NEW e \in Deliveries, Moves(e) PROVE orig' = orig /\ spent' = spent
  BY <1>6, MovesIs DEF spends
<1>7. ASSUME NEW e \in Deliveries, Attempt(e) \/ SendAgain(e) PROVE orig' = orig /\ spent' = spent
  BY <1>7 DEF Attempt, SendAgain, Send, values, spends
<1>8. ASSUME NEW e \in Deliveries, Touches(e) PROVE spent' = spent BY <1>8, TouchesIs DEF spends
<1> QED
  BY <1>1, <1>2, <1>3, <1>4, <1>5, <1>6, <1>7, <1>8
    DEF Kind, Rests, Copies, Refuses, Goes, Spends, Crash

LEMMA AccountedStep ==
  ASSUME EngineInv, Next, NEW o \in Originals
  PROVE  Accounted(o)'
<1>1. /\ origin' = origin /\ spent \subseteq spent' /\ Accounted(o)
      /\ orig \in [Originals -> OrigRecords]
  BY OrigSteps, Parts DEF Next, EngineInv
<1>2. ASSUME Kept(o)', NEW d \in Deliveries, origin[d] = o, file[d].state \in Forward
      PROVE  file'[d].state \in Forward
  BY <1>1, <1>2, ForwardStays DEF Kept
<1>3. Kept(o)' => Kept(o) BY <1>1, UndoneGrows DEF Kept
<1>4. CASE orig'[o].revoked = orig[o].revoked
  BY <1>1, <1>2, <1>3, <1>4 DEF Accounted
<1>5. CASE orig'[o].revoked # orig[o].revoked
  <2>1. CASE \E d \in Deliveries : Touches(d) /\ UNCHANGED undone
    <3>1. PICK d \in Deliveries : Touches(d) BY <2>1
    <3>2. o = origin[d] /\ orig'[o].revoked = "email" /\ file[d].state = "accepted"
      BY <1>5, <3>1, TouchesIs DEF Of
    <3>3. file' = file BY <3>1, TouchesIs
    <3> QED BY <1>1, <3>2, <3>3 DEF Accounted, Forward
  <2>2. CASE \E p \in Originals : Spends(p)
    <3>1. PICK p \in Originals : Spends(p) BY <2>2
    <3>2. p = o BY <1>5, <3>1 DEF Spends
    <3>3. orig'[o].revoked = "other" /\ o \in spent' BY <1>5, <3>1, <3>2 DEF Spends
    <3> QED BY <3>3 DEF Accounted
  <2>3. CASE orig' = orig BY <1>5, <2>3
  <2> QED BY <2>1, <2>2, <2>3, OrigSteps
<1> QED BY <1>4, <1>5

\* A delivery that has the value in hand.
Holds(d) == Unfinished(file[d]) \/ CopyUsable(d) \/ copy[d].claimed

\* How the copies change.
LEMMA CopySteps ==
  ASSUME EngineInv, Next
  PROVE  \/ copy' = copy
         \/ \E d \in Deliveries : Copies(d) \/ Refuses(d)
<1>1. Kind BY Kinds
<1>2. ASSUME NEW e \in Deliveries, Begin(e) PROVE copy' = copy BY <1>2, BeginIs
<1>3. ASSUME NEW e \in Deliveries, Accepted(e) PROVE copy' = copy BY <1>3, AcceptedIs DEF Outcome
<1>4. ASSUME NEW e \in Deliveries, SendFails(e) PROVE copy' = copy BY <1>4, SendFailsIs DEF Outcome
<1>5. ASSUME NEW e \in Deliveries, Abandons(e) PROVE copy' = copy BY <1>5, AbandonsIs
<1>6. ASSUME NEW e \in Deliveries, Moves(e) PROVE copy' = copy BY <1>6, MovesIs
<1>7. ASSUME NEW e \in Deliveries, Attempt(e) \/ SendAgain(e) PROVE copy' = copy
  BY <1>7 DEF Attempt, SendAgain, Send, values
<1>8. ASSUME NEW e \in Deliveries, Touches(e) PROVE copy' = copy BY <1>8, TouchesIs
<1> QED
  BY <1>1, <1>2, <1>3, <1>4, <1>5, <1>6, <1>7, <1>8 DEF Kind, Rests, Goes, Spends, Crash

\* A record is unfinished until it is delivered or rolled back.
LEMMA UnfinishedStays ==
  ASSUME EngineInv, Next, NEW x \in Deliveries, x \notin undone', Unfinished(file[x])
  PROVE  \/ Unfinished(file'[x])
         \/ file'[x].state = "delivered" /\ UNCHANGED copy /\ (copy[x].listed \/ copy[x].revoked)
         \/ CloseRolledBack(x) /\ Moves(x)
<1>1. Kind BY Kinds
<1>2. CASE UNCHANGED file BY <1>2
<1>3. ASSUME NEW d \in Deliveries, Begin(d) \/ Attempt(d) \/ Abandons(d)
      PROVE  Unfinished(file'[x])
  <2>1. CASE x # d
    <3>1. file'[x] = file[x] BY <1>3, <2>1, BeginIs, AttemptIs, AbandonsIs
    <3> QED BY <3>1
  <2>2. CASE x = d /\ Begin(d)
    <3>1. file'[x] = [state |-> "prepared", attempts |-> file[x].attempts] BY <2>2, BeginIs
    <3> QED BY <3>1 DEF Unfinished, Terminal
  <2>3. CASE x = d /\ Attempt(d)
    <3>1. file'[x] = [state |-> "sending", attempts |-> file[x].attempts + 1] BY <2>3, AttemptIs
    <3> QED BY <3>1 DEF Unfinished, Terminal
  <2>4. CASE x = d /\ Abandons(d)
    <3>1. \/ file' = file
          \/ file'[x] = [state |-> "rolling-back", attempts |-> file[x].attempts]
      BY <2>4, AbandonsIs
    <3> QED BY <3>1 DEF Unfinished, Terminal
  <2> QED BY <1>3, <2>1, <2>2, <2>3, <2>4
<1>4. ASSUME NEW d \in Deliveries, Accepted(d) \/ SendFails(d) PROVE Unfinished(file'[x])
  <2>1. PICK s \in {"accepted", "held", "rolling-back"} : Outcome(d, s)
    BY <1>4, AcceptedIs, SendFailsIs
  <2>2. x = d => file'[x].state = s BY <2>1 DEF Outcome
  <2>3. x # d => file'[x] = file[x] BY <2>1 DEF Outcome, Others
  <2> QED BY <2>2, <2>3 DEF Unfinished, Terminal
<1>5. ASSUME NEW d \in Deliveries, Moves(d)
      PROVE  \/ Unfinished(file'[x])
             \/ file'[x].state = "delivered" /\ UNCHANGED copy /\ (copy[x].listed \/ copy[x].revoked)
             \/ CloseRolledBack(x) /\ Moves(x)
  <2>1. CASE x # d
    <3>1. file'[x] = file[x] BY <1>5, <2>1, MovesIs
    <3> QED BY <3>1
  <2>2. CASE x = d BY <1>5, <2>2, MovesIs DEF Unfinished, Terminal
  <2> QED BY <2>1, <2>2
<1> QED
  BY <1>1, <1>2, <1>3, <1>4, <1>5
    DEF Kind, Rests, SendAgain, Touches, TakeFile, Freeze, RevokeOriginal, Unfreeze, RestoreFile,
        LiftHold, Copies, Refuses, Goes, Spends, Crash

\* It keeps what it has in hand until it is rolled back.
LEMMA HoldsOn ==
  ASSUME EngineInv, Next, NEW x \in Deliveries, x \notin undone', Holds(x)
  PROVE  Holds(x)' \/ (CloseRolledBack(x) /\ Moves(x))
<1>1. Tracked(x) BY UndoneGrows DEF EngineInv
<1>2. copy \in [Deliveries -> CopyRecords] BY Parts
<1>3. CASE copy[x].claimed
  <2>1. copy'[x].claimed BY <1>2, <1>3, CopySteps DEF Copies, Refuses
  <2> QED BY <2>1 DEF Holds
<1>4. CASE Unfinished(file[x]) /\ ~ copy[x].claimed
  <2>1. CASE file'[x].state = "delivered" /\ UNCHANGED copy /\ (copy[x].listed \/ copy[x].revoked)
    <3>1. Tracked(x)' BY TrackedStep
    <3> QED BY <2>1, <3>1 DEF Tracked, RecordTells, Holds, CopyUsable
  <2> QED BY <1>4, <2>1, UnfinishedStays DEF Holds
<1>5. CASE CopyUsable(x) /\ ~ Unfinished(file[x])
  <2>1. CASE copy' = copy BY <1>5, <2>1 DEF CopyUsable, Holds
  <2>2. CASE \E d \in Deliveries : Copies(d)
    <3>1. PICK d \in Deliveries : Copies(d) BY <2>2
    <3>2. CASE d # x BY <1>5, <3>1, <3>2 DEF Copies, CopyUsable, Holds
    <3>3. CASE d = x BY <1>5, <3>1, <3>3 DEF Copies, Holds, Unfinished, Terminal
    <3> QED BY <3>2, <3>3
  <2>3. CASE \E d \in Deliveries : Refuses(d)
    <3>1. PICK d \in Deliveries : Refuses(d) BY <2>3
    <3>2. CASE d # x BY <1>5, <3>1, <3>2 DEF Refuses, CopyUsable, Holds
    <3>3. CASE d = x
      BY <1>1, <1>5, <3>1, <3>3 DEF Refuses, Tracked, RunKnows, RecordTells, CopyUsable, NoRecord
    <3> QED BY <3>2, <3>3
  <2> QED BY <2>1, <2>2, <2>3, CopySteps
<1> QED BY <1>3, <1>4, <1>5 DEF Holds

InHand(o) == \E d \in Deliveries : origin[d] = o /\ Holds(d)

LEMMA NeverLostStep ==
  ASSUME EngineInv, Next
  PROVE  NeverLost'
<1>1. origin' = origin /\ spent \subseteq spent' /\ orig \in [Originals -> OrigRecords]
  BY OrigSteps, Parts DEF Next
<1>2. SUFFICES ASSUME NEW o \in Originals, Kept(o)'
               PROVE  OriginalUsable(o)' \/ o \in spent' \/ InHand(o)'
  BY DEF NeverLost, InHand, Holds
<1>3. \A d \in Deliveries : origin[d] = o => d \notin undone' /\ d \notin undone
  BY <1>1, <1>2, UndoneGrows DEF Kept
<1>4. OriginalUsable(o) \/ o \in spent \/ InHand(o)
  <2>1. Kept(o) BY <1>3, Parts DEF Kept
  <2> QED BY <2>1 DEF EngineInv, NeverLost, InHand, Holds
<1>5. CASE o \in spent BY <1>1, <1>5
<1>6. CASE OriginalUsable(o)
  <2>1. CASE orig'[o] = orig[o] BY <1>6, <2>1 DEF OriginalUsable
  <2>2. ASSUME NEW d \in Deliveries, Touches(d), UNCHANGED undone, orig'[o] # orig[o] PROVE InHand(o)'
    <3>1. o = origin[d] /\ file' = file BY <2>2, TouchesIs
    <3>2. Unfinished(file[d])
      BY <2>2 DEF Touches, TakeFile, Freeze, RevokeOriginal, Unfreeze, RestoreFile, LiftHold, Turn,
                  Unfinished, Terminal
    <3> QED BY <1>1, <3>1, <3>2 DEF InHand, Holds
  <2>3. ASSUME NEW p \in Originals, Spends(p), orig'[o] # orig[o] PROVE o \in spent'
    BY <2>3 DEF Spends
  <2> QED BY <2>1, <2>2, <2>3, OrigSteps
<1>7. CASE InHand(o)
  <2>1. PICK d \in Deliveries : origin[d] = o /\ Holds(d) BY <1>7 DEF InHand
  <2>2. CASE Holds(d)' BY <1>1, <2>1, <2>2 DEF InHand
  <2>3. CASE CloseRolledBack(d) /\ Moves(d)
    <3>1. /\ HasOriginal(d) /\ Restored(d) /\ file[d].state = "rolling-back"
          /\ UNCHANGED <<orig, copy>>
      BY <2>1, <2>3, DeliveryAssumption DEF CloseRolledBack, Turn, values, HasOriginal
    <3>2. CASE orig[o].revoked = "no"
      BY <2>1, <3>1, <3>2 DEF Restored, OriginalUsable, Of, IsBearer
    <3>3. CASE orig[o].revoked = "other" BY <1>1, <3>3 DEF EngineInv, Accounted
    <3>4. CASE orig[o].revoked = "email"
      <4>1. Kept(o) BY <1>3, Parts DEF Kept
      <4>2. PICK e \in Deliveries : origin[e] = o /\ file[e].state \in Forward
        BY <3>4, <4>1 DEF EngineInv, Accounted
      <4>3. e # d BY <3>1, <4>2 DEF Forward
      <4>4. file'[e] = file[e] BY <2>3, <4>3, MovesIs
      <4>5. Tracked(e) BY <1>3, <4>2 DEF EngineInv
      <4>6. CASE file[e].state = "delivered"
        BY <1>1, <3>1, <4>2, <4>5, <4>6 DEF Tracked, RecordTells, InHand, Holds, CopyUsable
      <4>7. CASE file[e].state # "delivered"
        BY <1>1, <4>2, <4>4, <4>7 DEF Forward, Unfinished, Terminal, InHand, Holds
      <4> QED BY <4>6, <4>7
    <3>5. orig[o].revoked \in {"no", "email", "other"} BY <1>1 DEF OrigRecords
    <3> QED BY <3>2, <3>3, <3>4, <3>5
  <2> QED BY <1>3, <2>1, <2>2, <2>3, HoldsOn
<1> QED BY <1>4, <1>5, <1>6, <1>7

-----------------------------------------------------------------------------
(* The invariant, and what follows from it.                                *)

LEMMA TypeStep ==
  ASSUME EngineInv, Next
  PROVE  TypeOK'
<1>1. origin' \in Origins BY DEF Next, EngineInv, TypeOK
<1>2. stops' \in Nat /\ MaxAttempts \in Nat BY RunsTyped, DeliveryAssumption DEF RunSets
<1>3. \A d \in Deliveries : file'[d].attempts <= MaxAttempts + stops' \/ d \in undone'
  BY TrackedStep DEF Tracked, Counted
<1> QED
  BY <1>1, <1>3, FileTyped, OrigTyped, CopyTyped, PcTyped, RunsTyped, DocTyped, SweepTyped, UndoneGrows
    DEF TypeOK, OrigRecords, CopyRecords, Places, SweepRecords, RunSets

LEMMA EngineInit == Init => EngineInv
<1> SUFFICES ASSUME Init PROVE EngineInv OBVIOUS
<1>1. /\ origin \in Origins /\ file = NoFile /\ undone = {} /\ stops = 0
      /\ pc = [d \in Deliveries |-> "new"] /\ doc = [d \in Deliveries |-> NoFile]
      /\ copy = [d \in Deliveries |-> [revoked |-> FALSE, listed |-> FALSE, claimed |-> FALSE]]
      /\ orig = [o \in Originals |-> [revoked |-> "no", frozen |-> FALSE, listed |-> o \in Bearer]]
      /\ sweep = [s \in Sweeps |-> NoSweep]
      /\ first = {} /\ forwards = {} /\ spending = {} /\ spent = {}
  BY DEF Init
<1>2. \A d \in Deliveries : file[d] = NoRecord BY <1>1 DEF NoFile
<1>3. MaxAttempts \in Nat /\ MaxAttempts > 0 BY DeliveryAssumption
<1>4. TypeOK BY <1>1, <1>2, <1>3, EmptyTyped DEF TypeOK, NoRecord, SweepRecords
<1>5. RevokesFirst BY <1>1, <1>2 DEF RevokesFirst, RevokedFirst, NoFile, NoRecord
<1>6. OneActive BY <1>2 DEF OneActive, Active, NoRecord
<1>7. \A d \in Deliveries : Tracked(d)
  BY <1>1, <1>2, <1>3 DEF Tracked, RunKnows, Counted, RecordTells, NoRecord
<1>8. \A o \in Originals : Accounted(o) BY <1>1 DEF Accounted
<1>9. NeverLost BY <1>1 DEF NeverLost, OriginalUsable
<1> QED BY <1>4, <1>5, <1>6, <1>7, <1>8, <1>9 DEF EngineInv

LEMMA EngineNext == EngineInv /\ [Next]_vars => EngineInv'
<1>1. ASSUME EngineInv, Next PROVE EngineInv'
  BY <1>1, TypeStep, RevokesFirstStep, OneActiveStep, TrackedStep, AccountedStep, NeverLostStep
    DEF EngineInv
<1>2. ASSUME EngineInv, UNCHANGED vars PROVE EngineInv'
  <2>1. UNCHANGED <<origin, file, orig, spending, spent, copy, pc, first, doc, forwards, sweep,
                    stops, undone>>
    BY <1>2 DEF vars, moving, values, spends, runs
  <2>2. TypeOK' /\ NeverLost'
    BY <1>2, <2>1 DEF EngineInv, TypeOK, NeverLost, OriginalUsable, Kept, CopyUsable
  <2>3. RevokesFirst' /\ OneActive'
    BY <1>2, <2>1
      DEF EngineInv, RevokesFirst, RevokedFirst, Revoked, OneActive, Active, HasOriginal, Of, Kept
  <2>4. (\A d \in Deliveries \ undone : Tracked(d))'
    BY <1>2, <2>1 DEF EngineInv, Tracked, RunKnows, Counted, RecordTells
  <2>5. (\A o \in Originals : Accounted(o))' BY <1>2, <2>1 DEF EngineInv, Accounted, Kept
  <2> QED BY <2>2, <2>3, <2>4, <2>5 DEF EngineInv
<1> QED BY <1>1, <1>2

LEMMA EngineAlways == Spec => []EngineInv
BY EngineInit, EngineNext, PTL DEF Spec

\* Every variable of the delivery engine stays in its type, and a delivery takes
\* no more than its attempts and one for each stop.
THEOREM TypesHold == Spec => []TypeOK
<1>1. EngineInv => TypeOK BY DEF EngineInv
<1> QED BY <1>1, EngineAlways, PTL

\* Of an original and its copies at most one can be used, whatever is written
\* back after a send and wherever the process stops (two copies: unless a record
\* of a delivery of the original was put back).
THEOREM OneIsUsable == Spec => []NeverBothUsable
<1>1. EngineInv => NeverBothUsable
  <2> SUFFICES ASSUME EngineInv, NEW d \in Deliveries, HasOriginal(d),
                      CopyUsable(d) \/ copy[d].claimed
               PROVE  /\ ~ OriginalUsable(origin[d])
                      /\ Kept(origin[d]) => \A e \in Deliveries \ {d} : origin[e] = origin[d] =>
                           ~ CopyUsable(e) /\ ~ copy[e].claimed
    BY DEF NeverBothUsable
  <2>1. ~ OriginalUsable(origin[d])
    BY DEF EngineInv, RevokesFirst, Revoked, OriginalUsable, Of, CopyUsable
  <2>2. ASSUME Kept(origin[d]), NEW e \in Deliveries \ {d}, origin[e] = origin[d],
               CopyUsable(e) \/ copy[e].claimed
        PROVE  FALSE
    <3>1. Tracked(d) /\ Tracked(e) BY <2>2 DEF EngineInv, Kept
    <3>2. Active(d) /\ Active(e)
      BY <2>2, <3>1 DEF Tracked, RecordTells, CopyUsable, Active
    <3> QED BY <2>2, <3>2 DEF EngineInv, OneActive
  <2> QED BY <2>1, <2>2
<1> QED BY <1>1, EngineAlways, PTL

\* The value of an original is lost only through a record that was put back.
THEOREM ValueIsKept == Spec => []NeverLost
<1>1. EngineInv => NeverLost BY DEF EngineInv
<1> QED BY <1>1, EngineAlways, PTL

=============================================================================
