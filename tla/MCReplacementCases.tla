------------------------ MODULE MCReplacementCases ------------------------
(* Three instances of Replacement in one run: which requests are made, and *)
(* the faults that they meet.                                              *)
EXTENDS MCReplacement

VARIABLE instance

Limits ==
  [retry |-> [requests |-> {a1, a2, a3}, crashes |-> 2, faults |-> 2, admin |-> TRUE,
              lapse |-> FALSE],
   issue |-> [requests |-> {a1, b1, b2, b3}, crashes |-> 2, faults |-> 0, admin |-> FALSE,
              lapse |-> FALSE],
   \* locks lapse under requests that need none of each other's
   lapse |-> [requests |-> {a3, b1}, crashes |-> 1, faults |-> 1, admin |-> FALSE, lapse |-> TRUE]]

InCase ==
  /\ UNCHANGED instance
  /\ crashes' <= Limits[instance].crashes /\ faults' <= Limits[instance].faults
  /\ (\E c \in Creds : <<c, Admin>> \in revoked') => Limits[instance].admin
  /\ lapsed' # {} => Limits[instance].lapse

CaseInit == Init /\ instance \in DOMAIN Limits

\* Next, restricted to the instance
CaseNext ==
  \/ Register /\ InCase
  \/ Revoke /\ InCase
  \/ FinishRegister /\ InCase
  \/ StoreReplay /\ InCase
  \/ RemoveJournal /\ InCase
  \/ Unregister /\ InCase
  \/ DropJournal /\ InCase
  \/ \E a \in Limits[instance].requests :
       \/ Arrive(a) /\ InCase
       \/ Advance(a) /\ InCase
       \/ Lapse(a) /\ InCase
  \/ \E k \in Keys : SweepTakes(k) /\ InCase
  \/ \E c \in Creds : AdminRevoke(c) /\ InCase
  \/ Crash /\ InCase

CaseSpec == CaseInit /\ [][CaseNext]_<<vars, instance>> /\ Fairness

============================================================================
