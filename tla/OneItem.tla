-------------------------------- MODULE OneItem --------------------------------
(***************************************************************************)
(* What an owner is promised of a unique item that may be exported to a    *)
(* file, without records, locks, recoveries or crashes: it has one form at *)
(* a time, it goes from the original to a file to the credential of one    *)
(* claim, or from the original to another spend, and never back; and every *)
(* claimant who is answered is sent the credential that it became.         *)
(***************************************************************************)
CONSTANTS Original, Exports, Claims, Spends, None

VARIABLES
  holder,  \* the one form the item has: the original, a file, or a successor
  usable,  \* has the operator left it in force?
  answer   \* answer[c]: the credential claim c was sent

vars == <<holder, usable, answer>>

Init ==
  /\ holder = Original /\ usable = TRUE
  /\ answer = [c \in Claims |-> None]

\* The original goes into a file, unless it has been revoked.
Export(x) ==
  /\ holder = Original /\ usable
  /\ holder' = x /\ UNCHANGED <<usable, answer>>

\* A spend that has begun is carried out: it does not see a revocation any more.
Spend(s) ==
  /\ holder = Original
  /\ holder' = s /\ usable' = TRUE /\ UNCHANGED answer

\* So is a claim.
Claim(c) ==
  /\ holder \in Exports
  /\ holder' = c /\ usable' = TRUE /\ UNCHANGED answer

\* A claimant gets what the file has become, however late and however often.
Reply(c) ==
  /\ holder \in Claims
  /\ answer' = [answer EXCEPT ![c] = holder] /\ UNCHANGED <<holder, usable>>

\* The operator revokes the original or the file.
Destroy ==
  /\ holder \in {Original} \cup Exports /\ usable
  /\ usable' = FALSE /\ UNCHANGED <<holder, answer>>

Next ==
  \/ \E x \in Exports : Export(x)
  \/ \E s \in Spends : Spend(s)
  \/ \E c \in Claims : Claim(c) \/ Reply(c)
  \/ Destroy

Spec == Init /\ [][Next]_vars
================================================================================
