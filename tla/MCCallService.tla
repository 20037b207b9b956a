--------------------------- MODULE MCCallService ---------------------------
(* Small instances of CallService for TLC. *)
EXTENDS CallService

CONSTANTS t1, o1, c1, c2, d1, d2

\* every tag belongs to one wallet
OneOwner == [t \in Tags |-> o1]

\* Two instances in one run: a whole call that two devices accept, and two
\* calls for one tag, of at most two messages each, in which saves may fail.
VARIABLE instance

WholeCall == call[c2].state = "none" /\ faults = 0
TwoCalls ==
  /\ \A x \in accepting : x.key = d1
  /\ \A c \in CallIds : call[c].messages <= 2

CaseInit == Init /\ instance \in {"whole", "two"}

InCase == UNCHANGED instance /\ IF instance = "whole" THEN WholeCall' ELSE TwoCalls'

\* Next, restricted to the instance
CaseNext ==
  \/ \E t \in Tags :
       \/ CreateTag(t) /\ InCase
       \/ StoreTag(t) /\ InCase
       \/ TagExpires(t) /\ InCase
  \/ \E o \in Owners : \E D \in SUBSET Tags : RevokeTags(o, D) /\ InCase
  \/ \E o \in Owners :
       \/ Listen(o) /\ InCase
       \/ TakeEvent(o) /\ InCase
       \/ StopListening(o) /\ InCase
  \/ \E c \in CallIds, t \in Tags : Invite(c, t) /\ InCase
  \/ \E c \in CallIds :
       \/ TooMany(c) /\ InCase
       \/ Refused(c) /\ InCase
       \/ Decline(c) /\ InCase
       \/ TimeOut(c) /\ InCase
       \/ Forget(c) /\ InCase
  \/ \E c \in CallIds, k \in Devices : AcceptChecks(c, k) /\ InCase
  \/ \E c \in CallIds, n \in Seqs :
       \/ Cancel(c, n) /\ InCase
       \/ Offer(c, n) /\ InCase
       \/ Answer(c, n) /\ InCase
  \/ \E c \in CallIds, n \in Seqs, r \in Roles :
       \/ Candidates(c, r, n) /\ InCase
       \/ Confirm(c, r, n) /\ InCase
       \/ HangUp(c, r, n) /\ InCase
  \/ \E x \in accepting :
       \/ AcceptStoresKey(x) /\ InCase
       \/ AcceptCompletes(x) /\ InCase
  \/ Restart /\ InCase

CaseSpec == CaseInit /\ [][CaseNext]_<<vars, instance>> /\ Fairness

============================================================================
