------------------------------- MODULE Trade -------------------------------
(***************************************************************************)
(* One listing of a trading station and the requests that claim it         *)
(* (issuer-server/server.js).  Each of the two balances was issued by the  *)
(* station itself or by a second domain, which the station asks over HTTP  *)
(* to lock the balance (relay-lock) and to settle it (relay-settle).  The  *)
(* claimant's leg ("B") is settled before the poster's ("A").              *)
(*                                                                         *)
(* An action is a stretch of a handler between two awaits, cut at the      *)
(* durable writes where a stop would tell.  A request to the other domain  *)
(* is a record in `requests`; the claim that made it waits in `awaits`.    *)
(***************************************************************************)
EXTENDS Naturals, FiniteSets

CONSTANTS
  Claims,      \* requests to /atlas/trade/claim
  RequestId,   \* RequestId[c]: its requestId; one of its own if it has none
  Posted,      \* the balance on the listing
  Offered,     \* Offered[c]: the balance the claimant of c pays with
  Issuers,     \* which balances may be whose: functions like `issuer` below
  MaxLosses,   \* bound: lost requests, lost answers, unreachable peers
  MaxStops,    \* bound: stops of either server
  MaxFaults,   \* bound: losses and stops together
  MaxSpends,   \* bound: balances their owners spend elsewhere
  MayOutlive,  \* may a request go on after its connection has closed?
  None

Balances == {Posted} \cup {Offered[c] : c \in Claims}
Ids      == {RequestId[c] : c \in Claims}
Legs     == {"A", "B"}

\* a payment made, and what a claim knows of the request it waits for
Settlements == [of : Balances, claim : Claims, try : 0..2]
Waits == [try : 1..2, says : {"nothing", "ok", "no"}, payment : Settlements \cup {None}]

ASSUME TradeAssumption ==
  /\ {MaxLosses, MaxStops, MaxFaults, MaxSpends} \subseteq Nat /\ MayOutlive \in BOOLEAN
  /\ Issuers \subseteq [Balances -> {"here", "there"}]
  /\ \A c \in Claims : Offered[c] # Posted
  /\ \A c, d \in Claims : RequestId[c] = RequestId[d] => Offered[c] = Offered[d]
  /\ None \notin Claims \cup Ids \cup Balances \cup Settlements \cup Waits

VARIABLES
  issuer,      \* issuer[b]: "here" or "there"
  listing,     \* "unposted", "open" or "gone" (PENDING_TRADES_FILE)
  revoked,     \* balances on the revocation list of their issuer
  ownerSpent,  \* those revoked because their owner spent them elsewhere
  settled,     \* settlements made: which balance, for which claim and try
  undone,      \* settlements whose payment a refund has revoked
  refunds,     \* claims whose refund has been minted
  suspended,   \* balances under the trade-lock of this listing, at the peer
  recorded,    \* recorded[b]: the settlement relay-settle recorded for b
  mail,        \* settlements whose payment was mailed to the poster
  spendLock,   \* spendLock[b]: the claim that holds b at the station
  peerLock,    \* peerLock[b]: the relayed settlement that holds b at the peer
  lease,       \* lease[i]: the claim that holds the lease on requestId i
  stored,      \* stored[i]: the outcome kept for requestId i
  pc,          \* pc[c]: where the handler of c is
  awaits,      \* awaits[c]: the relayed request c waits for, and its answer
  got,         \* got[c][leg]: the settlement whose payment c has in hand
  requests,    \* relayed requests on their way or in progress
  answer,      \* answer[c]: what c has been answered
  outlived,    \* has a request gone on after its connection had closed?
  losses, stops

ledger   == <<revoked, settled, undone, refunds, mail>>
peer     == <<suspended, recorded, peerLock>>
locks    == <<spendLock, lease>>
handlers == <<pc, awaits, got>>
bounds   == <<outlived, losses, stops>>
vars     == <<issuer, listing, ledger, ownerSpent, peer, locks, stored, handlers,
              requests, answer, bounds>>

BalanceOf(c, leg) == IF leg = "A" THEN Posted ELSE Offered[c]
Foreign(b) == issuer[b] = "there"
Usable(b)  == b \notin revoked \cup suspended

TryLater   == [result |-> "busy", got |-> None, refunded |-> FALSE]
Refusal    == [result |-> "refused", got |-> None, refunded |-> FALSE]
Unresolved == [result |-> "unresolved", got |-> None, refunded |-> FALSE]
Incomplete(refunded) == [result |-> "incomplete", got |-> None, refunded |-> refunded]
Settled(payment) == [result |-> "settled", got |-> payment, refunded |-> FALSE]

Nothing == [leg \in Legs |-> None]

Init ==
  /\ issuer \in Issuers
  /\ listing = "unposted"
  /\ revoked = {} /\ ownerSpent = {} /\ settled = {} /\ undone = {} /\ refunds = {}
  /\ suspended = {} /\ mail = {}
  /\ recorded = [b \in Balances |-> None]
  /\ spendLock = [b \in Balances |-> None]
  /\ peerLock = [b \in Balances |-> None]
  /\ lease = [i \in Ids |-> None]
  /\ stored = [i \in Ids |-> None]
  /\ pc = [c \in Claims |-> "new"]
  /\ awaits = [c \in Claims |-> None]
  /\ got = [c \in Claims |-> Nothing]
  /\ requests = {}
  /\ answer = [c \in Claims |-> None]
  /\ outlived = FALSE /\ losses = 0 /\ stops = 0

NotTaken(lock, b) == TRUE   \* (mutated: the spend lock is not waited for)
Free(lock, b) == lock[b] = None

-----------------------------------------------------------------------------
(* The poster, and what owners do elsewhere.                               *)

Submit ==
  /\ listing = "unposted"
  /\ Free(spendLock, Posted) /\ Usable(Posted)
  /\ listing' = "open"
  /\ UNCHANGED <<issuer, ledger, ownerSpent, peer, locks, stored, handlers, requests, answer, bounds>>

\* cancel by the poster, or the prune of an expired listing
Withdraw ==
  /\ listing = "open"
  /\ listing' = "gone"
  /\ UNCHANGED <<issuer, ledger, ownerSpent, peer, locks, stored, handlers, requests, answer, bounds>>

\* any other request that spends b, at its issuer and under its spend lock
OwnerSpends(b) ==
  /\ b \notin revoked /\ Cardinality(ownerSpent) < MaxSpends
  /\ IF Foreign(b) THEN Free(peerLock, b) /\ b \notin suspended ELSE Free(spendLock, b)
  /\ revoked' = revoked \cup {b}
  /\ ownerSpent' = ownerSpent \cup {b}
  /\ UNCHANGED <<issuer, listing, settled, undone, refunds, mail, peer, locks, stored, handlers,
                 requests, answer, bounds>>

-----------------------------------------------------------------------------
(* The claim, up to the point where both balances are checked.             *)

\* c is answered, and its locks and its lease are released
EndWith(c, outcome) ==
  /\ answer' = [answer EXCEPT ![c] = outcome]
  /\ pc' = [pc EXCEPT ![c] = "done"]
  /\ awaits' = [awaits EXCEPT ![c] = None]
  /\ spendLock' = [b \in Balances |-> IF spendLock[b] = c THEN None ELSE spendLock[b]]
  /\ lease' = [i \in Ids |-> IF lease[i] = c THEN None ELSE lease[i]]

PostersLeg(c) == got[c]["A"]   \* (mutated: the wrong leg)
\* what the claimant's leg has paid the poster
Delivered(c) == got[c]["B"]

Moves(c, step) == pc' = [pc EXCEPT ![c] = step]

Locking == {"lockB", "lockA"}
LegOf(step) == IF step \in {"lockB", "settleB"} THEN "B" ELSE "A"

\* c goes on to a step, and sends the request if it is one for the other domain
Enter(c, step, try) ==
  /\ Moves(c, step)
  /\ IF Foreign(BalanceOf(c, LegOf(step)))
     THEN /\ requests' = requests \cup {[claim |-> c, step |-> step, try |-> try, at |-> "sent"]}
          /\ awaits' = [awaits EXCEPT ![c] = [try |-> try, says |-> "nothing", payment |-> None]]
     ELSE UNCHANGED requests /\ awaits' = [awaits EXCEPT ![c] = None]

\* the lease of the requestId, the outcome stored under it, the listing
Arrive(c) ==
  /\ pc[c] = "new" /\ lease[RequestId[c]] = None
  /\ IF stored[RequestId[c]] # None THEN EndWith(c, stored[RequestId[c]])
     ELSE IF listing # "open" THEN EndWith(c, Refusal)
     ELSE /\ Moves(c, "checkB")
          /\ lease' = [lease EXCEPT ![RequestId[c]] = c]
          /\ UNCHANGED <<answer, awaits, spendLock>>
  /\ UNCHANGED <<issuer, listing, ledger, ownerSpent, peer, stored, got, requests, bounds>>

\* the lease, or the lock on the claimant's balance, could not be had in time
Busy(c) ==
  /\ \/ pc[c] = "new" /\ lease[RequestId[c]] # None /\ EndWith(c, TryLater)
     \/ pc[c] = "checkB" /\ ~ Free(spendLock, Offered[c]) /\ EndWith(c, Refusal)
  /\ UNCHANGED <<issuer, listing, ledger, ownerSpent, peer, stored, got, requests, bounds>>

\* checkPresentedAsset: a balance of the other domain is checked by asking
\* it.  Without an answer the check fails; without its revocation list the
\* balance counts as usable.
LostDocument(b) ==
  Foreign(b) /\ losses < MaxLosses /\ losses + stops < MaxFaults /\ losses' = losses + 1
PassesCheck(b) == IF Usable(b) THEN UNCHANGED losses ELSE LostDocument(b)
FailsCheck(b)  == IF Usable(b) THEN LostDocument(b) ELSE UNCHANGED losses

CheckOffered(c) ==
  /\ pc[c] = "checkB"
  /\ Free(spendLock, Offered[c])
  /\ \/ /\ PassesCheck(Offered[c])
        /\ Moves(c, "checkA")
        /\ spendLock' = [spendLock EXCEPT ![Offered[c]] = c]
        /\ UNCHANGED <<answer, awaits, lease>>
     \/ /\ FailsCheck(Offered[c])
        /\ EndWith(c, Refusal)
  /\ UNCHANGED <<issuer, listing, ledger, ownerSpent, peer, stored, got, requests, outlived, stops>>

\* The step after the checks: a lock for each foreign balance, B's first.
SecondStep(c) == IF Foreign(Posted) THEN "lockA" ELSE "settleB"
FirstStep(c)  == IF Foreign(Offered[c]) THEN "lockB" ELSE SecondStep(c)

CheckPosted(c) ==
  /\ pc[c] = "checkA"
  /\ Free(spendLock, Posted) /\ PassesCheck(Posted)
  /\ Enter(c, FirstStep(c), 1)
  /\ spendLock' = [spendLock EXCEPT ![Posted] = c]
  /\ UNCHANGED <<issuer, listing, ledger, ownerSpent, peer, lease, stored, got, answer, outlived, stops>>

\* The poster's balance fails its check, its lock cannot be had in time, or
\* its issuer cannot be asked: the claim is refused and the listing dropped.
DropListing(c) ==
  /\ pc[c] = "checkA"
  /\ \/ spendLock[Posted] # None /\ UNCHANGED losses
     \/ FailsCheck(Posted)
  /\ listing' = "gone"
  /\ EndWith(c, Refusal)
  /\ UNCHANGED <<issuer, ledger, ownerSpent, peer, stored, got, requests, outlived, stops>>

-----------------------------------------------------------------------------
(* The other domain.                                                       *)

About(r) == BalanceOf(r.claim, LegOf(r.step))

\* the peer answers r; nobody may be waiting for it any more
Reply(r, says, payment) ==
  /\ requests' = requests \ {r}
  /\ awaits' = [c \in Claims |->
       IF c = r.claim /\ pc[c] = r.step /\ awaits[c].try = r.try /\ awaits[c].says = "nothing"
       THEN [awaits[c] EXCEPT !.says = says, !.payment = payment] ELSE awaits[c]]

\* relay-lock
RelayLock(r) ==
  /\ r \in requests /\ r.step \in Locking
  /\ IF Free(peerLock, About(r)) /\ About(r) \notin revoked
     THEN suspended' = suspended \cup {About(r)} /\ Reply(r, "ok", None)
     ELSE UNCHANGED suspended /\ Reply(r, "no", None)
  /\ UNCHANGED <<issuer, listing, ledger, ownerSpent, recorded, peerLock, locks, stored, pc, got,
                 answer, bounds>>

\* the trade-lock runs out (expiresAt, 120 s)
SuspensionEnds(b) ==
  /\ b \in suspended
  /\ suspended' = suspended \ {b}
  /\ UNCHANGED <<issuer, listing, ledger, ownerSpent, recorded, peerLock, locks, stored, handlers,
                 requests, answer, bounds>>

NeverRecorded(b) == None   \* (mutated: an earlier result is not looked up)
Recorded(b) == recorded[b]

\* relay-settle, up to the spend lock: a settlement on record is repeated
RelaySettleLooks(r) ==
  /\ r \in requests /\ r.step \notin Locking /\ r.at = "sent"
  /\ IF Recorded(About(r)) # None
     THEN Reply(r, "ok", Recorded(About(r)))
     ELSE /\ requests' = (requests \ {r}) \cup {[r EXCEPT !.at = "looked"]}
          /\ UNCHANGED awaits
  /\ UNCHANGED <<issuer, listing, ledger, ownerSpent, peer, locks, stored, pc, got, answer, bounds>>

Settlement(c, leg, try) == [of |-> BalanceOf(c, leg), claim |-> c, try |-> try]
Payment(r) == Settlement(r.claim, LegOf(r.step), r.try)

StillLocked(b) == b \in suspended

\* the checks under the spend lock; for the poster's leg the payment that is
\* to be mailed has to check out too
MaySettle(r) ==
  /\ About(r) \notin revoked /\ StillLocked(About(r))
  /\ r.step = "settleA" => Delivered(r.claim) \notin undone

RelaySettleChecks(r) ==
  /\ r \in requests /\ r.step \notin Locking /\ r.at = "looked"
  /\ \/ /\ Free(peerLock, About(r)) /\ MaySettle(r)
        /\ peerLock' = [peerLock EXCEPT ![About(r)] = Payment(r)]
        /\ requests' = (requests \ {r}) \cup {[r EXCEPT !.at = "checked"]}
        /\ UNCHANGED awaits
     \/ /\ ~ (Free(peerLock, About(r)) /\ MaySettle(r))
        /\ Reply(r, "no", None)
        /\ UNCHANGED peerLock
  /\ UNCHANGED <<issuer, listing, ledger, ownerSpent, suspended, recorded, locks, stored, pc, got,
                 answer, bounds>>

NoNotice(r) == {}   \* (mutated: the settlement drops the mail)
\* the mail to the poster goes out with the settlement of the poster's leg
Notice(r) == IF r.step = "settleA" THEN {Delivered(r.claim)} ELSE {}

\* the successors are minted and the balance revoked ...
RelaySettleRevokes(r) ==
  /\ r \in requests /\ r.step \notin Locking /\ r.at = "checked"
  /\ revoked' = revoked \cup {About(r)}
  /\ settled' = settled \cup {Payment(r)}
  /\ requests' = (requests \ {r}) \cup {[r EXCEPT !.at = "revoked"]}
  /\ UNCHANGED <<issuer, listing, ownerSpent, undone, refunds, mail, peer, locks, stored, handlers,
                 answer, bounds>>

\* ... the poster is mailed, the trade-lock lifted, the result recorded
RelaySettleRecords(r) ==
  /\ r \in requests /\ r.step \notin Locking /\ r.at = "revoked"
  /\ mail' = mail \cup Notice(r)
  /\ suspended' = suspended \ {About(r)}
  /\ recorded' = [recorded EXCEPT ![About(r)] = IF @ = None THEN Payment(r) ELSE @]
  /\ peerLock' = [peerLock EXCEPT ![About(r)] = IF @ = Payment(r) THEN None ELSE @]
  /\ Reply(r, "ok", Payment(r))
  /\ UNCHANGED <<issuer, listing, revoked, ownerSpent, settled, undone, refunds, locks, stored, pc,
                 got, answer, bounds>>

-----------------------------------------------------------------------------
(* What can go wrong on the way.                                           *)

Loss == losses < MaxLosses /\ losses + stops < MaxFaults /\ losses' = losses + 1 /\ UNCHANGED stops
Stop == stops < MaxStops /\ losses + stops < MaxFaults /\ stops' = stops + 1 /\ UNCHANGED losses

\* c has not been told anything of the request it waits for
Listens(c) == awaits[c] # None /\ awaits[c].says = "nothing"

NoHangUp == awaits   \* (mutated: a closed connection goes unnoticed)
\* the claims whose request has not been answered get an error
HangUp == [c \in Claims |-> IF Listens(c) THEN [awaits[c] EXCEPT !.says = "no"] ELSE awaits[c]]

\* the request is lost before it is looked at, or the answer on its way back
LoseRequest(r) ==
  /\ r \in requests /\ r.at = "sent" /\ Loss
  /\ Reply(r, "no", None)
  /\ UNCHANGED <<issuer, listing, ledger, ownerSpent, peer, locks, stored, pc, got, answer, outlived>>

LoseAnswer(c) ==
  /\ awaits[c] # None /\ awaits[c].says = "ok" /\ Loss
  /\ awaits' = [awaits EXCEPT ![c].says = "no", ![c].payment = None]
  /\ UNCHANGED <<issuer, listing, ledger, ownerSpent, peer, locks, stored, pc, got, requests, answer,
                 outlived>>

\* lockSpend: the peer lets go of what the requests of these claims have locked
\* when it notices that their connections have closed; the handlers go on.  A
\* request that takes its lock later than that keeps it.
Released(cs) == [b \in Balances |->
  IF \E c \in cs : Listens(c) /\ peerLock[b] = Settlement(c, LegOf(pc[c]), awaits[c].try)
  THEN None ELSE peerLock[b]]

\* the connection closes and the peer goes on with the request
Outlives(c) ==
  /\ MayOutlive
  /\ Listens(c) /\ Loss
  /\ awaits' = [awaits EXCEPT ![c].says = "no"]
  /\ peerLock' \in {peerLock, Released({c})}
  /\ outlived' = TRUE
  /\ UNCHANGED <<issuer, listing, ledger, ownerSpent, suspended, recorded, locks, stored, pc, got,
                 requests, answer>>

StationStops ==
  /\ Stop
  /\ \E c \in Claims : pc[c] \notin {"new", "done"}
  /\ MayOutlive \/ requests = {}
  /\ pc' = [c \in Claims |-> IF pc[c] = "new" THEN "new" ELSE "done"]
  /\ awaits' = [c \in Claims |-> None]
  /\ spendLock' = [b \in Balances |-> None]
  /\ peerLock' \in {peerLock, Released(Claims)}
  /\ lease' = [i \in Ids |-> None]
  /\ outlived' = (outlived \/ requests # {})
  /\ UNCHANGED <<issuer, listing, ledger, ownerSpent, suspended, recorded, stored, got, requests,
                 answer>>

PeerStops ==
  /\ Stop
  /\ requests # {}
  /\ requests' = {}
  /\ awaits' = HangUp
  /\ peerLock' = [b \in Balances |-> None]
  /\ UNCHANGED <<issuer, listing, ledger, ownerSpent, suspended, recorded, locks, stored, pc, got,
                 answer, outlived>>

-----------------------------------------------------------------------------
(* The claim, once both balances are locked.                               *)

\* not-settled: nothing has been spent, the trade-locks run out by themselves
LockAnswered(c) ==
  /\ pc[c] \in {"lockB", "lockA"} /\ awaits[c] # None /\ awaits[c].says # "nothing"
  /\ IF awaits[c].says = "no"
     THEN EndWith(c, Refusal)
          /\ UNCHANGED requests
     ELSE /\ Enter(c, IF pc[c] = "lockB" THEN SecondStep(c) ELSE "settleB", 1)
          /\ UNCHANGED <<answer, locks>>
  /\ UNCHANGED <<issuer, listing, ledger, ownerSpent, peer, stored, got, bounds>>

\* a balance of the station's own is settled without a request
SettleOffered(c) ==
  /\ pc[c] = "settleB" /\ ~ Foreign(Offered[c])
  /\ revoked' = revoked \cup {Offered[c]}
  /\ settled' = settled \cup {Settlement(c, "B", 0)}
  /\ got' = [got EXCEPT ![c]["B"] = Settlement(c, "B", 0)]
  /\ Enter(c, "settleA", 1)
  /\ UNCHANGED <<issuer, listing, ownerSpent, undone, refunds, mail, peer, locks, stored, answer,
                 bounds>>

\* the poster's balance is revoked, the mail not yet signed
SettlePosted(c) ==
  /\ pc[c] = "settleA" /\ ~ Foreign(Posted)
  /\ revoked' = revoked \cup {Posted}
  /\ settled' = settled \cup {Settlement(c, "A", 0)}
  /\ got' = [got EXCEPT ![c]["A"] = Settlement(c, "A", 0)]
  /\ Moves(c, "mailA")
  /\ UNCHANGED <<issuer, listing, ownerSpent, undone, refunds, mail, peer, locks, stored, awaits,
                 requests, answer, bounds>>

MailPoster(c) ==
  /\ pc[c] = "mailA"
  /\ mail' = mail \cup {Delivered(c)}
  /\ Moves(c, "close")
  /\ UNCHANGED <<issuer, listing, revoked, ownerSpent, settled, undone, refunds, peer, locks, stored,
                 awaits, got, requests, answer, bounds>>

\* relayTradeSettle: one more try with the same attestation
TriesAgain(c) ==
  /\ awaits[c] # None /\ awaits[c].says = "no"
  /\ pc[c] \notin Locking /\ awaits[c].try = 1
  /\ Enter(c, pc[c], 2)
  /\ UNCHANGED <<issuer, listing, ledger, ownerSpent, peer, locks, stored, got, answer, bounds>>

SettleAnswered(c) ==
  /\ pc[c] \notin Locking /\ awaits[c] # None /\ awaits[c].says = "ok"
  /\ got' = [got EXCEPT ![c][LegOf(pc[c])] = awaits[c].payment]
  /\ IF pc[c] = "settleB"
     THEN Enter(c, "settleA", 1)
     ELSE Moves(c, "close") /\ awaits' = [awaits EXCEPT ![c] = None] /\ UNCHANGED requests
  /\ UNCHANGED <<issuer, listing, ledger, ownerSpent, peer, locks, stored, answer, bounds>>

\* the leg in progress fails: a mint of the station's own, or both tries
LegFails(c) ==
  \/ pc[c] = "settleB" /\ ~ Foreign(Offered[c])
  \/ pc[c] = "settleA" /\ ~ Foreign(Posted)
  \/ awaits[c] # None /\ awaits[c].says = "no" /\ awaits[c].try = 2

FirstLegFails(c) ==
  /\ pc[c] = "settleB" /\ LegFails(c)
  /\ EndWith(c, Unresolved)
  /\ UNCHANGED <<issuer, listing, ledger, ownerSpent, peer, stored, got, requests, bounds>>

NotStored(c, refunded) ==   \* (mutated: only a settled outcome is stored)
  EndWith(c, Incomplete(refunded)) /\ UNCHANGED stored
\* answerClaim: the outcome is stored, then answered; the listing stays
EndIncomplete(c, refunded) ==
  /\ stored' = [stored EXCEPT ![RequestId[c]] = Incomplete(refunded)]
  /\ EndWith(c, Incomplete(refunded))

\* only a payment that the station minted itself can be taken back
SecondLegFails(c) ==
  /\ pc[c] = "settleA" /\ LegFails(c)
  /\ IF Foreign(Offered[c])
     THEN EndIncomplete(c, FALSE) /\ UNCHANGED undone
     ELSE /\ undone' = undone \cup {Delivered(c)}
          /\ Moves(c, "refund")
          /\ awaits' = [awaits EXCEPT ![c] = None]
          /\ UNCHANGED <<stored, answer, locks>>
  /\ UNCHANGED <<issuer, listing, revoked, ownerSpent, settled, refunds, mail, peer, got, requests,
                 bounds>>

\* the refund is minted after the payment has been revoked, or that fails
Refund(c) ==
  /\ pc[c] = "refund"
  /\ \/ refunds' = refunds \cup {c} /\ EndIncomplete(c, TRUE)
     \/ refunds' = refunds /\ EndIncomplete(c, FALSE)
  /\ UNCHANGED <<issuer, listing, revoked, ownerSpent, settled, undone, mail, peer, got, requests,
                 bounds>>

\* the outcome is stored and the listing removed, then the claim is answered
Close(c) ==
  /\ pc[c] = "close"
  /\ stored' = [stored EXCEPT ![RequestId[c]] = Settled(got[c]["A"])]
  /\ listing' = "gone"
  /\ EndWith(c, Settled(got[c]["A"]))
  /\ UNCHANGED <<issuer, ledger, ownerSpent, peer, got, requests, bounds>>

Claim(c) ==
  \/ CheckOffered(c) \/ CheckPosted(c) \/ DropListing(c)
  \/ LockAnswered(c) \/ SettleOffered(c) \/ SettlePosted(c) \/ MailPoster(c)
  \/ TriesAgain(c) \/ SettleAnswered(c) \/ FirstLegFails(c) \/ SecondLegFails(c)
  \/ Refund(c) \/ Close(c)

Serve(r) ==
  \/ RelayLock(r) \/ RelaySettleLooks(r) \/ RelaySettleChecks(r)
  \/ RelaySettleRevokes(r) \/ RelaySettleRecords(r)

Next ==
  \/ Submit \/ Withdraw \/ StationStops \/ PeerStops
  \/ \E b \in Balances : OwnerSpends(b) \/ SuspensionEnds(b)
  \/ \E c \in Claims : Arrive(c) \/ Busy(c) \/ Claim(c) \/ LoseAnswer(c) \/ Outlives(c)
  \/ \E r \in requests : Serve(r) \/ LoseRequest(r)

\* Handlers run to their end: every wait for a lock has a timer, and a closed
\* connection ends a wait for the peer.
Fairness ==
  /\ WF_vars(\E c \in Claims : Claim(c) \/ Busy(c))
  /\ WF_vars(\E r \in requests : Serve(r))

Spec == Init /\ [][Next]_vars
FairSpec == Spec /\ Fairness
-----------------------------------------------------------------------------
(* Properties.                                                             *)

Results     == {"busy", "refused", "unresolved", "incomplete", "settled"}
Outcomes    == [result : Results, got : Settlements \cup {None}, refunded : BOOLEAN]
Steps       == {"new", "checkB", "checkA", "lockB", "lockA", "settleB", "settleA",
                "mailA", "close", "refund", "done"}

\* The state is what the code keeps; only settlements are mailed or taken back.
TypeOK ==
  /\ issuer \in [Balances -> {"here", "there"}]
  /\ listing \in {"unposted", "open", "gone"}
  /\ ownerSpent \subseteq revoked /\ revoked \subseteq Balances
  /\ settled \subseteq Settlements
  /\ undone \subseteq settled /\ mail \subseteq settled /\ refunds \subseteq Claims
  /\ suspended \subseteq {b \in Balances : Foreign(b)}
  /\ recorded \in [Balances -> settled \cup {None}]
  /\ spendLock \in [Balances -> Claims \cup {None}]
  /\ peerLock \in [Balances -> Settlements \cup {None}]
  /\ lease \in [Ids -> Claims \cup {None}]
  /\ stored \in [Ids -> Outcomes \cup {None}]
  /\ pc \in [Claims -> Steps]
  /\ got \in [Claims -> [Legs -> settled \cup {None}]]
  /\ answer \in [Claims -> Outcomes \cup {None}]
  /\ losses \in 0..MaxLosses /\ stops \in 0..MaxStops

\* A balance is settled at most once, and never after its owner has spent it
\* elsewhere: lockSpend at its issuer, and the trade-lock, keep requests apart.
\* Only a request that outlives its connection escapes: it loses its lock, and
\* the retry, or the owner, can spend the balance beside it.
SpentOnce ==
  ~ outlived =>
    \A s \in settled :
      /\ s.of \notin ownerSpent
      /\ \A t \in settled : t.of = s.of => t = s

\* Neither server has stopped, and no retry raced its own first attempt.
Undisturbed == stops = 0 /\ ~ outlived

\* A claim answered "settled" holds a payment made for its own request out of
\* the poster's balance, and the poster has been mailed the other payment.
SettledMeansBoth ==
  ~ outlived =>
    \A c \in Claims : answer[c] # None /\ answer[c].result = "settled" =>
      LET payment == answer[c].got
      IN  /\ payment \in settled /\ payment.of = Posted
          /\ RequestId[payment.claim] = RequestId[c]
          /\ \E s \in mail \ undone : s.of = Offered[c] /\ s.claim = payment.claim

\* relayTradeSettle: "The retry is safe either way": a claimant is refunded
\* only if the poster's leg was not settled for them.
RetryIsSafe == stops = 0 => \A c \in refunds : ~ \E s \in settled : s.of = Posted /\ s.claim = c

\* The poster's balance is never spent without the mail of the payment for it;
\* what was mailed is never taken back by a refund, and a claimant is refunded
\* only when the poster's balance was not spent for them.  Not so if both tries
\* of relayTradeSettle go wrong on the way, which it calls a genuine failure.
PosterIsPaid ==
  Undisturbed /\ losses <= 1 =>
    /\ mail \cap undone = {}
    /\ \A s \in settled : s.of = Posted /\ pc[s.claim] = "done" =>
         \E m \in mail : m.claim = s.claim
    /\ RetryIsSafe

AnsweredNow(c, results) ==
  answer[c] = None /\ answer'[c] # None /\ answer'[c].result \in results

\* Once a request has been answered with an outcome that moved a balance, every
\* repetition of it is answered the same.
AnswerStands ==
  [][\A c, d \in Claims :
       /\ RequestId[c] = RequestId[d]
       /\ answer[d] # None /\ answer[d].result \in {"incomplete", "settled"}
       /\ AnsweredNow(c, Results \ {"busy"})
       => answer'[c] = answer[d]]_vars

\* Every claim is answered in the end (or its server stopped).
ClaimsEnd == []<>(\A c \in Claims : pc[c] \in {"new", "done"})
=============================================================================
