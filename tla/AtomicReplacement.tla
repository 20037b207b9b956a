-------------------------- MODULE AtomicReplacement --------------------------
(***************************************************************************)
(* What the issuer promises of a replacement, without locks, journal or    *)
(* crashes: a transaction happens in one step, spends all its credentials  *)
(* or none, at most once per requestId, and whoever repeats the request    *)
(* gets the same successors.                                               *)
(***************************************************************************)
CONSTANTS Attempts, Key, Preds, Params, None

VARIABLES
  spent,     \* pairs <<credential, the transaction that spent it>>
  happened,  \* the transactions that have happened
  answer     \* answer[a]: the transaction whose successors a was sent

vars == <<spent, happened, answer>>

Init ==
  /\ spent = {} /\ happened = {}
  /\ answer = [a \in Attempts |-> None]

\* The transaction happens; its request may be answered in the same step.
Commit(t, answered) ==
  /\ \A s \in happened : Key[s] # Key[t]
  /\ \A c \in Preds[t], s \in Attempts : <<c, s>> \notin spent
  /\ happened' = happened \cup {t}
  /\ spent' = spent \cup (Preds[t] \X {t})
  /\ answer' = IF answered THEN [answer EXCEPT ![t] = t] ELSE answer

\* A request is answered with what happened under its key, if that was the
\* same request.
Reply(a, t) ==
  /\ answer[a] = None
  /\ t \in happened /\ Key[t] = Key[a]
  /\ Params[a] = Params[t] /\ Preds[a] = Preds[t]
  /\ answer' = [answer EXCEPT ![a] = t]
  /\ UNCHANGED <<spent, happened>>

Next ==
  \/ \E t \in Attempts : \E answered \in BOOLEAN : Commit(t, answered)
  \/ \E a, t \in Attempts : Reply(a, t)

Spec == Init /\ [][Next]_vars
==============================================================================
