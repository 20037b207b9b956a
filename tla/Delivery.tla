------------------------------ MODULE Delivery ------------------------------
(***************************************************************************)
(* The delivery engine (issuer-server/lib-delivery.js): handing a freshly  *)
(* minted copy of a credential to an email address.  A record on file      *)
(* drives each delivery; the original is frozen before the first attempt   *)
(* and revoked once the mail server has accepted the message, and only     *)
(* then can the copy be claimed; a delivery that fails puts the original   *)
(* back and revokes the copy.                                              *)
(*                                                                         *)
(* One call of run() drives one record.  Between its awaits (the send and  *)
(* the pause before a retry) it runs undisturbed, but the process may stop *)
(* after each of its writes, and a write may fail: a step is one write.    *)
(* All records are in one file, which run() reads at the top of its loop   *)
(* and writes back whole, after the send as well: what another delivery    *)
(* recorded during the send is undone by that (the variable `undone').     *)
(* The spend lock of a wallet's credential is left out: it lapses with its *)
(* connection or its time, so the engine can rely on it nowhere.           *)
(***************************************************************************)
EXTENDS Naturals, FiniteSets

CONSTANTS
  Deliveries,   \* delivery ids, each with the copy it minted
  Originals,    \* the credentials to be handed on
  Origins,      \* what may hand on what: functions like `origin` below
  Bearer,       \* the originals that are files (kind bearer-original)
  Keyed,        \* the deliveries with a key: the original's id, or (fresh mints) one client's
  MaxAttempts,  \* attempts before an unreachable recipient is given up
  Sweeps,       \* the recovery sweeps that may be under way at once
  MaxStops,     \* bound for each of them: how often the process stops or a write fails
  None

ASSUME DeliveryAssumption ==
  /\ Origins \subseteq [Deliveries -> Originals \cup {None}]
  /\ Bearer \subseteq Originals /\ Keyed \subseteq Deliveries
  /\ None \notin Originals \cup Deliveries
  /\ \A f \in Origins, d \in Deliveries : f[d] # None => d \in Keyed
  /\ MaxAttempts \in Nat \ {0} /\ MaxStops \in [Origins -> Nat]

VARIABLES
  origin,   \* origin[d]: what d hands on; None for a fresh mint
  file,     \* file[d]: the record of d, [state, attempts]
  orig,     \* orig[o]: [revoked, frozen, listed]
  spending, \* the originals another request has checked and is about to spend
  spent,    \* the originals another request has spent
  copy,     \* copy[d]: [revoked, listed, claimed]
  pc,       \* pc[d]: where the run of d stands
  first,    \* the runs still in the first turn of their loop
  doc,      \* doc[d]: what the run of d read before its send
  forwards, \* the deliveries whose request has a file in forwardsInFlight
  sweep,    \* sweep[s]: the records it has read and not yet visited, the run it awaits
  stops,    \* how often a run was cut short
  undone    \* history: the deliveries whose record was put back to an older one

spends == <<spending, spent>>
values == <<orig, copy, spends>>
runs   == <<pc, first, doc, forwards>>
moving == <<file, values, runs, sweep, stops, undone>>
vars   == <<origin, moving>>

Terminal   == {"delivered", "rolled-back"}
Forward    == {"accepted", "original-revoked", "delivered"}
States     == Terminal \cup Forward \cup {"none", "prepared", "held", "sending", "rolling-back"}
Unfinished(r) == r.state \notin Terminal \cup {"none"}

NoRecord == [state |-> "none", attempts |-> 0]
NoFile   == [d \in Deliveries |-> NoRecord]
NoSweep  == [on |-> FALSE, read |-> NoFile, awaits |-> None]

HasOriginal(d) == origin[d] # None
IsBearer(d)    == origin[d] \in Bearer
Of(d)          == orig[origin[d]]

\* what an owner, or whoever has the file, can still use
OriginalUsable(o) ==
  orig[o].revoked = "no" /\ ~ orig[o].frozen /\ (o \in Bearer => orig[o].listed)
CopyUsable(d) == copy[d].listed /\ ~ copy[d].revoked

\* whose turn it is: a stretch of synchronous code runs to its next await
NoRun == \A d \in Deliveries : pc[d] # "loop"
SweepRuns(s) ==
  NoRun /\ sweep[s].on /\ \A d \in Deliveries : sweep[s].awaits = d => pc[d] = "idle"
Quiet == NoRun /\ \A s \in Sweeps : ~ SweepRuns(s)

Init ==
  /\ origin \in Origins
  /\ file = NoFile
  /\ orig = [o \in Originals |-> [revoked |-> "no", frozen |-> FALSE, listed |-> o \in Bearer]]
  /\ copy = [d \in Deliveries |-> [revoked |-> FALSE, listed |-> FALSE, claimed |-> FALSE]]
  /\ spending = {} /\ spent = {}
  /\ pc = [d \in Deliveries |-> "new"]
  /\ first = {} /\ forwards = {}
  /\ doc = [d \in Deliveries |-> NoFile]
  /\ sweep = [s \in Sweeps |-> NoSweep]
  /\ stops = 0
  /\ undone = {}

-----------------------------------------------------------------------------
(* Starting a run.                                                         *)

Start(d) ==
  /\ pc' = [pc EXCEPT ![d] = "loop"]
  /\ first' = first \cup {d}
  /\ UNCHANGED <<doc, forwards>>

\* begin refuses a key that has an unfinished or a completed delivery
KeyFree(d) ==
  \A e \in Keyed : d \in Keyed /\ origin[e] = origin[d] => file[e].state \in {"none", "rolled-back"}

\* A request has found its key and its original free and mints the copy.
\* The forward of a file does not look at suspensions; a set keeps two
\* forwards of one file apart.
MayGive(d) ==
  /\ Of(d).revoked = "no"
  /\ IF IsBearer(d)
     THEN Of(d).listed /\ \A e \in forwards : origin[e] # origin[d]
     ELSE ~ Of(d).frozen

Check(d) ==
  /\ Quiet /\ pc[d] = "new"
  /\ KeyFree(d)
  /\ HasOriginal(d) => MayGive(d)
  /\ pc' = [pc EXCEPT ![d] = "minting"]
  /\ forwards' = IF IsBearer(d) THEN forwards \cup {d} ELSE forwards
  /\ UNCHANGED <<file, values, first, doc, sweep, stops, undone>>

\* The copy is minted: the record is written and run, in one stretch.
Begin(d) ==
  /\ Quiet /\ pc[d] = "minting"
  /\ KeyFree(d)
  /\ file' = [file EXCEPT ![d].state = "prepared"]
  /\ Start(d)
  /\ UNCHANGED <<values, sweep, stops, undone>>

\* another request got there first: what was minted is revoked again
BeginRefused(d) ==
  /\ Quiet /\ pc[d] = "minting"
  /\ ~ KeyFree(d)
  /\ copy' = [copy EXCEPT ![d].revoked = TRUE]
  /\ pc' = [pc EXCEPT ![d] = "idle"]
  /\ forwards' = forwards \ {d}
  /\ UNCHANGED <<file, orig, spends, first, doc, sweep, stops, undone>>

\* a repeated request resumes the delivery its key names
Resume(d) ==
  /\ Quiet
  /\ d \in Keyed /\ Unfinished(file[d]) /\ pc[d] = "idle"
  /\ Start(d)
  /\ UNCHANGED <<file, values, sweep, stops, undone>>

-----------------------------------------------------------------------------
(* The loop of run(): one turn per state.                                  *)

Turn(d, state) == pc[d] = "loop" /\ file[d].state = state
Write(d, state) == file' = [file EXCEPT ![d].state = state]
NextTurn(d) == first' = first \ {d} /\ UNCHANGED <<pc, doc, forwards>>

\* an attempt of unknown outcome is repeated as a new one
Requeue(d) ==
  /\ Turn(d, "sending") /\ d \in first
  /\ Write(d, "held") /\ NextTurn(d)
  /\ UNCHANGED values

\* holdOriginal: a file is taken out of the registry (its entry is already
\* in the record), then the credential is suspended
TakeFile(d) ==
  /\ Turn(d, "prepared")
  /\ HasOriginal(d) /\ Of(d).revoked # "other" /\ IsBearer(d) /\ Of(d).listed
  /\ orig' = [orig EXCEPT ![origin[d]].listed = FALSE]
  /\ UNCHANGED <<file, copy, spends, runs>>

Freeze(d) ==
  /\ Turn(d, "prepared")
  /\ HasOriginal(d) /\ Of(d).revoked = "no" /\ ~ Of(d).listed /\ ~ Of(d).frozen
  /\ orig' = [orig EXCEPT ![origin[d]].frozen = TRUE]
  /\ UNCHANGED <<file, copy, spends, runs>>

Held(d) == HasOriginal(d) => ~ Of(d).listed /\ (Of(d).frozen \/ Of(d).revoked = "email")

Hold(d) ==
  /\ Turn(d, "prepared") /\ Held(d)
  /\ Write(d, "held") /\ NextTurn(d)
  /\ UNCHANGED values

\* the original was spent some other way before it could be held
HoldFails(d) ==
  /\ Turn(d, "prepared")
  /\ HasOriginal(d) /\ Of(d).revoked = "other"
  /\ Write(d, "rolling-back") /\ NextTurn(d)
  /\ UNCHANGED values

\* the conversation with the mail server begins
Send(d) ==
  /\ pc' = [pc EXCEPT ![d] = "sending"]
  /\ doc' = [doc EXCEPT ![d] = file']
  /\ first' = first \ {d}
  /\ UNCHANGED <<forwards, values>>

\* the attempt is counted on file first
Attempt(d) ==
  /\ Turn(d, "held")
  /\ file' = [file EXCEPT ![d] = [state |-> "sending", attempts |-> @.attempts + 1]]
  /\ Send(d)

\* a pause has ended, and meanwhile the record was put back to an attempt
SendAgain(d) ==
  /\ Turn(d, "sending") /\ d \notin first
  /\ UNCHANGED file
  /\ Send(d)

RevokeOriginal(d) ==
  /\ Turn(d, "accepted")
  /\ HasOriginal(d) /\ Of(d).revoked = "no"
  /\ orig' = [orig EXCEPT ![origin[d]].revoked = "email"]
  /\ UNCHANGED <<file, copy, spends, runs>>

AssumedGone(d) == TRUE   \* (mutated: recorded before it is done)
OriginalGone(d) == HasOriginal(d) => Of(d).revoked # "no"

RecordRevoked(d) ==
  /\ Turn(d, "accepted") /\ OriginalGone(d)
  /\ Write(d, "original-revoked") /\ NextTurn(d)
  /\ UNCHANGED values

ListCopy(d) ==
  /\ Turn(d, "original-revoked")
  /\ ~ copy[d].listed /\ ~ copy[d].revoked
  /\ copy' = [copy EXCEPT ![d].listed = TRUE]
  /\ UNCHANGED <<file, orig, spends, runs>>

Unfreeze(d) ==
  /\ Turn(d, "original-revoked")
  /\ copy[d].listed \/ copy[d].revoked
  /\ HasOriginal(d) /\ Of(d).frozen
  /\ orig' = [orig EXCEPT ![origin[d]].frozen = FALSE]
  /\ UNCHANGED <<file, copy, spends, runs>>

CloseDelivered(d) ==
  /\ Turn(d, "original-revoked")
  /\ copy[d].listed \/ copy[d].revoked
  /\ HasOriginal(d) => ~ Of(d).frozen
  /\ Write(d, "delivered") /\ NextTurn(d)
  /\ UNCHANGED values

\* rollbackSteps, in their order: the copy is revoked, then a file is listed
\* again and the suspension lifted
RevokeCopy(d) ==
  /\ Turn(d, "rolling-back")
  /\ ~ copy[d].revoked
  /\ copy' = [copy EXCEPT ![d].revoked = TRUE, ![d].listed = FALSE]
  /\ UNCHANGED <<file, orig, spends, runs>>

RestoreFile(d) ==
  /\ Turn(d, "rolling-back") /\ copy[d].revoked
  /\ HasOriginal(d) /\ Of(d).revoked = "no" /\ IsBearer(d) /\ ~ Of(d).listed
  /\ orig' = [orig EXCEPT ![origin[d]].listed = TRUE]
  /\ UNCHANGED <<file, copy, spends, runs>>

\* (mutated: the registry entry of a file is forgotten)
OnlyLifts(d) == HasOriginal(d) /\ Of(d).revoked = "no" => ~ Of(d).frozen
Restored(d) ==
  HasOriginal(d) /\ Of(d).revoked = "no" =>
    ~ Of(d).frozen /\ (IsBearer(d) => Of(d).listed)

LiftHold(d) ==
  /\ Turn(d, "rolling-back") /\ copy[d].revoked
  /\ HasOriginal(d) /\ Of(d).revoked = "no" /\ Of(d).frozen
  /\ IsBearer(d) => Of(d).listed
  /\ orig' = [orig EXCEPT ![origin[d]].frozen = FALSE]
  /\ UNCHANGED <<file, copy, spends, runs>>

CloseRolledBack(d) ==
  /\ Turn(d, "rolling-back") /\ copy[d].revoked /\ Restored(d)
  /\ Write(d, "rolled-back") /\ NextTurn(d)
  /\ UNCHANGED values

\* the end of a run, for whoever called it
Leave(d) ==
  /\ pc' = [pc EXCEPT ![d] = "idle"]
  /\ first' = first \ {d}
  /\ forwards' = forwards \ {d}
  /\ UNCHANGED <<file, values, doc, undone>>

\* run() returns when the record is terminal, or no longer there
Return(d) ==
  /\ pc[d] = "loop" /\ ~ Unfinished(file[d])
  /\ Leave(d)

Loop(d) ==
  \/ /\ \/ Requeue(d) \/ TakeFile(d) \/ Freeze(d) \/ Hold(d) \/ HoldFails(d)
        \/ Attempt(d) \/ SendAgain(d)
        \/ RevokeOriginal(d) \/ RecordRevoked(d) \/ ListCopy(d) \/ Unfreeze(d) \/ CloseDelivered(d)
        \/ RevokeCopy(d) \/ RestoreFile(d) \/ LiftHold(d) \/ CloseRolledBack(d)
     /\ UNCHANGED <<sweep, stops, undone>>
  \/ Return(d) /\ UNCHANGED <<sweep, stops>>

\* A write fails: run() throws, and so does the sweep that awaits it.
Throws(d) ==
  /\ pc[d] = "loop" /\ Unfinished(file[d])
  /\ stops < MaxStops[origin] /\ stops' = stops + 1
  /\ Leave(d)
  /\ sweep' = [s \in Sweeps |-> IF sweep[s].awaits = d THEN NoSweep ELSE sweep[s]]

-----------------------------------------------------------------------------
(* The send.  What is written after it is the file as it was read before:  *)
(* the other records go back to what they were then.                       *)

WriteBack(d, state) ==
  /\ file' = [doc[d] EXCEPT ![d].state = state]
  /\ undone' = undone \cup {e \in Deliveries \ {d} : file[e] # doc[d][e]}

Accepted(d) ==
  /\ Quiet /\ pc[d] = "sending"
  /\ WriteBack(d, "accepted")
  /\ pc' = [pc EXCEPT ![d] = "loop"]
  /\ doc' = [doc EXCEPT ![d] = NoFile]
  /\ UNCHANGED <<values, first, forwards, sweep, stops>>

RetriesForever(d) == TRUE   \* (mutated: attempts are not limited)
MayRetry(d) == doc[d][d].attempts < MaxAttempts

\* a transient failure is tried again after a pause, a permanent one never
SendFails(d) ==
  /\ Quiet /\ pc[d] = "sending"
  /\ \/ /\ MayRetry(d)
        /\ WriteBack(d, "held")
        /\ pc' = [pc EXCEPT ![d] = "pause"]
     \/ /\ WriteBack(d, "rolling-back")
        /\ pc' = [pc EXCEPT ![d] = "loop"]
  /\ doc' = [doc EXCEPT ![d] = NoFile]
  /\ UNCHANGED <<values, first, forwards, sweep, stops>>

RetryAfterPause(d) ==
  /\ Quiet /\ pc[d] = "pause"
  /\ pc' = [pc EXCEPT ![d] = "loop"]
  /\ UNCHANGED <<file, values, first, doc, forwards, sweep, stops, undone>>

-----------------------------------------------------------------------------
(* A recovery sweep reads the file once and visits one record after the    *)
(* other, waiting for each run.  One is started at start-up, by the timer  *)
(* and by an operator's poll, whether or not another is still under way.   *)

\* (mutated: accepted deliveries are taken as done)
OnlyUnaccepted == {d \in Deliveries : file[d].state \in {"prepared", "held", "sending"}}
ToVisit == {d \in Deliveries : Unfinished(file[d])}

\* (with every record in flight it would find nothing to do; the sweeps are
\* alike, so a new one takes the first name that is free)
SweepStarts(s) ==
  /\ Quiet
  /\ ~ sweep[s].on /\ s = CHOOSE t \in Sweeps : ~ sweep[t].on
  /\ \E d \in Deliveries : Unfinished(file[d]) /\ pc[d] = "idle"
  /\ sweep' = [sweep EXCEPT ![s] =
                 [on |-> TRUE, awaits |-> None,
                  read |-> [d \in Deliveries |-> IF d \in ToVisit THEN file[d] ELSE NoRecord]]]
  /\ UNCHANGED <<file, values, runs, stops, undone>>

Left(s) == {d \in Deliveries : sweep[s].read[d] # NoRecord}
Visits(s, d) == SweepRuns(s) /\ d \in Left(s)
Passes(s, d) == sweep' = [sweep EXCEPT ![s].read[d] = NoRecord]
Awaits(s, d) == sweep' = [sweep EXCEPT ![s].read[d] = NoRecord, ![s].awaits = d]

SweepSkips(s, d) ==
  /\ Visits(s, d) /\ pc[d] # "idle"
  /\ Passes(s, d)
  /\ UNCHANGED <<file, values, runs, stops, undone>>

\* states the sweep always finishes
PastReturn(state) == state \in {"accepted", "original-revoked", "rolling-back"}

\* canResume: it can be identified again, has attempts left and is not old
SweepResumes(s, d) ==
  /\ Visits(s, d) /\ pc[d] = "idle"
  /\ \/ PastReturn(sweep[s].read[d].state)
     \/ d \in Keyed /\ sweep[s].read[d].attempts < MaxAttempts
  /\ Awaits(s, d)
  /\ Start(d)
  /\ UNCHANGED <<file, values, stops, undone>>

\* Not resumable (or too old) when it was read: it is rolled back from
\* whatever state it is in now, be it past the point of no return.
SweepAbandons(s, d) ==
  /\ Visits(s, d) /\ pc[d] = "idle"
  /\ ~ PastReturn(sweep[s].read[d].state)
  /\ IF Unfinished(file[d])
     THEN /\ Write(d, "rolling-back")
          /\ pc' = [pc EXCEPT ![d] = "loop"]
          /\ Awaits(s, d)
          /\ undone' = IF file[d].state \in Forward THEN undone \cup {d} ELSE undone
     ELSE /\ Passes(s, d)
          /\ UNCHANGED <<file, pc, undone>>
  /\ UNCHANGED <<values, first, doc, forwards, stops>>

SweepEnds(s) ==
  /\ SweepRuns(s) /\ Left(s) = {}
  /\ sweep' = [sweep EXCEPT ![s] = NoSweep]
  /\ UNCHANGED <<file, values, runs, stops, undone>>

Sweep(s) ==
  \/ SweepStarts(s) \/ SweepEnds(s)
  \/ \E d \in Deliveries : SweepSkips(s, d) \/ SweepResumes(s, d) \/ SweepAbandons(s, d)

-----------------------------------------------------------------------------
\* Another request spends the original: a trade, a transfer, a redemption,
\* or the claim of a file.  It checks the original, mints what the original is spent for, and only then revokes it.
SpendChecks(o) ==
  /\ Quiet
  /\ OriginalUsable(o) /\ o \notin spending
  /\ \E d \in Deliveries : origin[d] = o   \* (the others have no part in this)
  /\ spending' = spending \cup {o}
  /\ UNCHANGED <<file, orig, copy, spent, runs, sweep, stops, undone>>

SpendCommits(o) ==
  /\ Quiet /\ o \in spending
  /\ spending' = spending \ {o}
  /\ spent' = spent \cup {o}
  /\ orig' = [orig EXCEPT ![o].revoked = IF @ = "no" THEN "other" ELSE @, ![o].listed = FALSE]
  /\ UNCHANGED <<file, copy, runs, sweep, stops, undone>>

\* The recipient claims the copy: the registry entry is taken, the copy revoked.
ClaimCopy(d) ==
  /\ Quiet /\ CopyUsable(d)
  /\ copy' = [copy EXCEPT ![d] = [revoked |-> TRUE, listed |-> FALSE, claimed |-> TRUE]]
  /\ UNCHANGED <<file, orig, spends, runs, sweep, stops, undone>>

\* (a request that had not written its record leaves nothing behind)
Crash ==
  /\ stops < MaxStops[origin] /\ stops' = stops + 1
  /\ pc' = [d \in Deliveries |-> IF pc[d] \in {"new", "minting"} THEN "new" ELSE "idle"]
  /\ first' = {} /\ forwards' = {}
  /\ doc' = [d \in Deliveries |-> NoFile]
  /\ sweep' = [s \in Sweeps |-> NoSweep]
  /\ spending' = {}
  /\ UNCHANGED <<file, orig, copy, spent, undone>>

Run(d) == Loop(d) \/ Accepted(d) \/ SendFails(d) \/ RetryAfterPause(d)

Step ==
  \/ \E d \in Deliveries :
       \/ Check(d) \/ Begin(d) \/ BeginRefused(d) \/ Resume(d)
       \/ Run(d) \/ Throws(d) \/ ClaimCopy(d)
  \/ \E o \in Originals : SpendChecks(o) \/ SpendCommits(o)
  \/ \E s \in Sweeps : Sweep(s)
  \/ Crash

Next == UNCHANGED origin /\ Step

\* Every conversation with the mail server ends in time, and a sweep is
\* started again while anything is unfinished.
Fairness ==
  /\ \A d \in Deliveries : WF_moving(Run(d))
  /\ WF_moving(\E s \in Sweeps : Sweep(s))

Spec == Init /\ [][Next]_vars
FairSpec == Spec /\ Fairness

-----------------------------------------------------------------------------
Records == [Deliveries -> [state : States, attempts : Nat]]

\* Every variable stays in its type; no more than MaxAttempts attempts but
\* for the repeats after a stop or a failed write, unless a record was put back.
TypeOK ==
  /\ origin \in Origins
  /\ file \in Records
  /\ \A d \in Deliveries : file[d].attempts <= MaxAttempts + stops \/ d \in undone
  /\ orig \in [Originals -> [revoked : {"no", "email", "other"}, frozen : BOOLEAN, listed : BOOLEAN]]
  /\ copy \in [Deliveries -> [revoked : BOOLEAN, listed : BOOLEAN, claimed : BOOLEAN]]
  /\ pc \in [Deliveries -> {"new", "minting", "loop", "sending", "pause", "idle"}]
  /\ first \subseteq Deliveries /\ forwards \subseteq Deliveries
  /\ spending \subseteq Originals /\ spent \subseteq Originals
  /\ doc \in [Deliveries -> Records]
  /\ sweep \in [Sweeps -> [on : BOOLEAN, read : Records, awaits : Deliveries \cup {None}]]
  /\ stops \in Nat
  /\ undone \subseteq Deliveries

\* what the conditional properties ask of an original
Kept(o) == \A d \in undone : origin[d] # o

\* The original and a copy of it can never both be used, wherever the process
\* stops (revoke before listing) and whatever is written back after a send;
\* nor two copies, unless the record of one of its deliveries was put back.
NeverBothUsable ==
  \A d \in Deliveries : HasOriginal(d) /\ (CopyUsable(d) \/ copy[d].claimed) =>
    /\ ~ OriginalUsable(origin[d])
    /\ Kept(origin[d]) => \A e \in Deliveries \ {d} : origin[e] = origin[d] =>
         ~ CopyUsable(e) /\ ~ copy[e].claimed

\* What the freeze is for: a credential that was spent some other way does
\* not live on in a copy as well.
SpentHasNoCopy ==
  \A d \in Deliveries : CopyUsable(d) \/ copy[d].claimed => origin[d] \notin spent

\* The value is lost only through a record that was put back: unless it was spent
\* some other way, an original is usable, or an unfinished delivery has it, or a
\* copy can be or has been claimed.
NeverLost ==
  \A o \in Originals : Kept(o) =>
    \/ OriginalUsable(o) \/ o \in spent
    \/ \E d \in Deliveries : origin[d] = o /\
         (Unfinished(file[d]) \/ CopyUsable(d) \/ copy[d].claimed)

\* A delivery that was begun is delivered or rolled back in the end, unless its
\* record was put back.
EveryDeliverySettles ==
  \A d \in Deliveries :
    file[d].state # "none" ~> file[d].state \in Terminal \/ d \in undone

\* What the header of the engine and the specification promise: once the mail
\* server has accepted the message, the delivery only moves forward.
AcceptedMovesForward ==
  [][\A d \in Deliveries : file[d].state \in Forward => file'[d].state \in Forward]_vars

=============================================================================
