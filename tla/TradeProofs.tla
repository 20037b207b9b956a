------------------------------ MODULE TradeProofs ------------------------------
(***************************************************************************)
(* What a trade promises, for every set of claims and balances, wherever   *)
(* they were issued.  For any number of lost messages, stops and requests  *)
(* that outlive their connections an outcome stands (AnswerStands).  As    *)
(* long as no request outlives its connection no balance is spent twice    *)
(* (SpentOnce) and a settled claim settles both legs (SettledMeansBoth);   *)
(* the poster is paid (PosterIsPaid) if besides nothing stops and at most  *)
(* one message is lost.  Each part has its own inductive invariant:        *)
(* TradeInv, LeaseInv, PayInv and CalmInv.                                 *)
(***************************************************************************)
EXTENDS Trade, TLAPS

Asking == {"lockB", "lockA", "settleB", "settleA"}
InHand(r) == r.at \in {"checked", "revoked"}

\* Requests are about balances of the other domain.  From its checks to its
\* end a settlement has its balance to itself, and revokes it only once, as
\* long as no request has outlived its connection.
Relayed ==
  /\ requests \subseteq [claim : Claims, step : Asking, try : 1..2, at : {"sent", "looked", "checked", "revoked"}]
  /\ \A r \in requests :
       /\ Foreign(About(r))
       /\ r.step \in Locking => r.at = "sent"
       /\ InHand(r) /\ ~ outlived => peerLock[About(r)] = Payment(r)
       /\ r.at = "checked" /\ ~ outlived => About(r) \notin revoked
       /\ r.at = "revoked" => Payment(r) \in settled
       /\ r.step = "settleA" => Delivered(r.claim) \in settled
  /\ \A q, r \in requests :
       InHand(q) /\ InHand(r) /\ About(q) = About(r) /\ ~ outlived => q = r

\* A claim waits for the other domain at the steps that ask it, and no others;
\* a settlement it is told of was made.
Waiting ==
  /\ awaits \in [Claims -> Waits \cup {None}]
  /\ \A c \in Claims :
       /\ awaits[c] # None <=> pc[c] \in Asking /\ Foreign(BalanceOf(c, LegOf(pc[c])))
       /\ awaits[c] # None /\ awaits[c].says = "ok" /\ pc[c] \notin Locking =>
            awaits[c].payment \in settled
  /\ \A c \in Claims : pc[c] \in {"settleA", "mailA", "close", "refund"} => Delivered(c) \in settled

\* From its checks on a claim holds the spend locks, and until it settles a
\* balance of the station's own nobody else has spent it.
HasChecked(c, leg) ==
  pc[c] \in (Asking \cup {"mailA", "close", "refund"}) \cup (IF leg = "B" THEN {"checkA"} ELSE {})
HasSettled(c, leg) ==
  pc[c] \in {"mailA", "close", "refund"} \cup (IF leg = "B" THEN {"settleA"} ELSE {})
Holding ==
  \A c \in Claims, leg \in Legs : HasChecked(c, leg) =>
    /\ spendLock[BalanceOf(c, leg)] = c
    /\ ~ HasSettled(c, leg) /\ ~ Foreign(BalanceOf(c, leg)) => BalanceOf(c, leg) \notin revoked

SettledIsRevoked == \A s \in settled : s.of \in revoked

TradeInv == TypeOK /\ Relayed /\ Waiting /\ Holding /\ SettledIsRevoked /\ SpentOnce

-----------------------------------------------------------------------------
(* What an action that does not touch a part leaves true of it.            *)

\* What a claim has been paid stays paid.
StaysPaid ==
  /\ UNCHANGED issuer /\ settled \subseteq settled'
  /\ \A c \in Claims : Delivered(c) \in settled => got'[c]["B"] \in settled'

\* A request that has just been made.
Fresh(r) ==
  /\ r \in [claim : Claims, step : Asking, try : 1..2, at : {"sent"}]
  /\ Foreign(About(r))

\* The payment that a request is to make.
LEMMA PaymentOf ==
  ASSUME Relayed, NEW r \in requests
  PROVE  /\ Payment(r) \in Settlements /\ Payment(r).of = About(r) /\ Payment(r).claim = r.claim
         /\ About(r) \in Balances
<1>1. r.claim \in Claims /\ r.try \in 0..2 BY DEF Relayed
<1>2. About(r) \in Balances BY <1>1 DEF About, BalanceOf, Balances
<1> QED BY <1>1, <1>2 DEF Payment, Settlement, Settlements, About

\* Requests may end and new ones be made; what is revoked nobody had in hand.
LEMMA RelayKept ==
  ASSUME TypeOK, Relayed, StaysPaid, outlived' \/ UNCHANGED <<peerLock, outlived>>,
         \A b \in revoked' \ revoked : ~ Foreign(b) \/ peerLock[b] = None,
         \A r \in requests' : r \in requests \/ (Fresh(r) /\ (r.step = "settleA" => got'[r.claim]["B"] \in settled')),
         None \notin Settlements
  PROVE  Relayed'
<1>1. ASSUME NEW r \in requests, r \in requests' PROVE
        /\ r.at = "checked" /\ ~ outlived' => About(r) \notin revoked'
        /\ r.at = "revoked" => Payment(r) \in settled'
        /\ r.step = "settleA" => got'[r.claim]["B"] \in settled'
  <2>1. r.claim \in Claims BY DEF Relayed
  <2>2. Payment(r) # None BY PaymentOf
  <2> QED BY <2>1, <2>2 DEF Relayed, StaysPaid, InHand
<1>2. /\ requests' \subseteq [claim : Claims, step : Asking, try : 1..2, at : {"sent", "looked", "checked", "revoked"}]
      /\ \A r \in requests' : Foreign(About(r))' /\ (r.step \in Locking => r.at = "sent")
  BY DEF Relayed, Fresh, StaysPaid, Foreign, About, BalanceOf
<1>3. \A r \in requests' : InHand(r) /\ ~ outlived' => peerLock'[About(r)] = Payment(r)
  BY DEF Relayed, Fresh, InHand
<1>4. \A q, r \in requests' : InHand(q) /\ InHand(r) /\ About(q) = About(r) /\ ~ outlived' => q = r
  BY DEF Relayed, Fresh, InHand
<1> QED BY <1>1, <1>2, <1>3, <1>4
    DEF Relayed, Fresh, InHand, About, BalanceOf, Payment, Settlement, Delivered

\* A claim goes on waiting, is told of a failure, or waits no longer.
LEMMA WaitKept ==
  ASSUME Waiting, StaysPaid, awaits' \in [Claims -> Waits \cup {None}],
         \A c \in Claims : pc'[c] # pc[c] => pc'[c] \notin {"settleA", "mailA", "close", "refund"},
         \A c \in Claims : \/ awaits'[c] = None /\ pc'[c] \notin Asking
                           \/ awaits'[c] = awaits[c] /\ pc'[c] = pc[c]
                           \/ /\ awaits[c] # None /\ pc'[c] = pc[c]
                              /\ awaits'[c] # None /\ awaits'[c].says # "ok"
  PROVE  Waiting'
BY DEF Waiting, StaysPaid, Foreign, BalanceOf, Delivered

\* The claims that have checked are the same, or fewer, and keep their locks.
LEMMA HoldKept ==
  ASSUME TypeOK, Holding, UNCHANGED issuer, None \notin Claims,
         \A c \in Claims : pc'[c] = pc[c] \/ pc'[c] \in {"new", "checkB", "done"},
         \A c \in Claims, b \in Balances :
           spendLock[b] = c /\ pc'[c] \notin {"new", "checkB", "done"} => spendLock'[b] = c,
         \A b \in revoked' \ revoked : Foreign(b) \/ spendLock[b] = None
  PROVE  Holding'
<1> SUFFICES ASSUME NEW c \in Claims, NEW leg \in Legs, HasChecked(c, leg)'
             PROVE  /\ spendLock'[BalanceOf(c, leg)] = c
                    /\ ~ HasSettled(c, leg)' /\ ~ Foreign(BalanceOf(c, leg))' =>
                         BalanceOf(c, leg) \notin revoked'
  BY DEF Holding, BalanceOf
<1>1. pc'[c] = pc[c] /\ HasChecked(c, leg) /\ (HasSettled(c, leg)' <=> HasSettled(c, leg))
  BY DEF HasChecked, HasSettled, Asking
<1>2. BalanceOf(c, leg) \in Balances BY DEF BalanceOf, Balances
<1>3. spendLock[BalanceOf(c, leg)] = c BY <1>1 DEF Holding
<1> QED BY <1>1, <1>2, <1>3 DEF Holding, HasChecked, Asking, Foreign

LEMMA MoneyKept ==
  ASSUME SettledIsRevoked, SpentOnce, UNCHANGED <<revoked, ownerSpent, settled>>, outlived => outlived'
  PROVE  SettledIsRevoked' /\ SpentOnce'
BY DEF SettledIsRevoked, SpentOnce

\* A claim that is answered holds nothing, and takes nothing from the others.
LEMMA Ends ==
  ASSUME TypeOK, Waiting, Holding, None \notin Claims, StaysPaid, UNCHANGED revoked,
         NEW c \in Claims, NEW outcome \in Outcomes, EndWith(c, outcome)
  PROVE  /\ Waiting' /\ Holding'
         /\ pc' \in [Claims -> Steps] /\ answer' \in [Claims -> Outcomes \cup {None}]
         /\ spendLock' \in [Balances -> Claims \cup {None}] /\ lease' \in [Ids -> Claims \cup {None}]
<1>1. \A d \in Claims : pc'[d] = IF d = c THEN "done" ELSE pc[d] BY DEF EndWith, TypeOK
<1>2. awaits' \in [Claims -> Waits \cup {None}]
      /\ \A d \in Claims : awaits'[d] = IF d = c THEN None ELSE awaits[d]
  BY DEF EndWith, Waiting
<1>3. Waiting' BY <1>1, <1>2, WaitKept DEF Asking
<1>4. Holding' BY <1>1, HoldKept DEF EndWith, StaysPaid
<1> QED BY <1>3, <1>4 DEF EndWith, TypeOK, Steps

\* A claim that goes on to a leg asks for it where the balance was issued.
LEMMA Enters ==
  ASSUME TypeOK, Relayed, Waiting, None \notin Settlements, None \notin Waits, StaysPaid,
         UNCHANGED <<peerLock, outlived>>,
         \A b \in revoked' \ revoked : ~ Foreign(b),
         NEW c \in Claims, NEW step \in Asking, NEW try \in 1..2, Enter(c, step, try),
         step = "settleA" => got'[c]["B"] \in settled'
  PROVE  Relayed' /\ Waiting' /\ pc' \in [Claims -> Steps] /\ pc' = [pc EXCEPT ![c] = step]
<1> DEFINE r == [claim |-> c, step |-> step, try |-> try, at |-> "sent"]
<1>1. pc' = [pc EXCEPT ![c] = step] BY DEF Enter, Moves
<1>2. pc' \in [Claims -> Steps] BY <1>1 DEF TypeOK, Steps, Asking
<1>3. Relayed'
  <2>1. About(r) = BalanceOf(c, LegOf(step)) BY DEF About
  <2>2. r \in requests' \ requests => Fresh(r) BY <2>1 DEF Enter, Fresh
  <2>3. requests' \subseteq requests \cup {r} BY DEF Enter
  <2>4. r.claim = c /\ r.step = step OBVIOUS
  <2> HIDE DEF r
  <2> QED BY <2>2, <2>3, <2>4, RelayKept
<1>4. Waiting'
  <2>1. \A d \in Claims : d # c => pc'[d] = pc[d] /\ awaits'[d] = awaits[d]
    BY <1>1 DEF Enter, TypeOK, Waiting
  <2>2. /\ awaits' \in [Claims -> Waits \cup {None}] /\ pc'[c] = step
        /\ awaits'[c] # None <=> Foreign(BalanceOf(c, LegOf(step)))
        /\ awaits'[c] # None => awaits'[c].says = "nothing"
    <3> DEFINE w == [try |-> try, says |-> "nothing", payment |-> None]
    <3>1. w \in Waits /\ w.says = "nothing" BY DEF Waits
    <3>2. awaits' = [awaits EXCEPT ![c] = IF Foreign(BalanceOf(c, LegOf(step))) THEN w ELSE None] BY DEF Enter
    <3> HIDE DEF w
    <3> QED BY <1>1, <3>1, <3>2 DEF TypeOK, Waiting
  <2>3. ASSUME NEW d \in Claims
        PROVE  /\ awaits'[d] # None <=> pc'[d] \in Asking /\ issuer[BalanceOf(d, LegOf(pc'[d]))] = "there"
               /\ awaits'[d] # None /\ awaits'[d].says = "ok" /\ pc'[d] \notin Locking =>
                    awaits'[d].payment \in settled'
    <3>1. CASE d = c BY <2>2, <3>1 DEF Foreign
    <3>2. CASE d # c BY <2>1, <3>2 DEF Waiting, StaysPaid, Foreign
    <3> QED BY <3>1, <3>2
  <2>4. ASSUME NEW d \in Claims, pc'[d] \in {"settleA", "mailA", "close", "refund"}
        PROVE  got'[d]["B"] \in settled'
    <3>1. CASE d = c BY <2>2, <2>4, <3>1 DEF Asking
    <3>2. CASE d # c BY <2>1, <2>4, <3>2 DEF Waiting, StaysPaid
    <3> QED BY <3>1, <3>2
  <2> QED BY <2>2, <2>3, <2>4 DEF Waiting, Delivered, StaysPaid, Foreign, BalanceOf
<1> QED BY <1>1, <1>2, <1>3, <1>4

-----------------------------------------------------------------------------
(* The poster, and what owners do elsewhere.                               *)

LEMMA OwnersNext ==
  ASSUME TradeAssumption, TradeInv,
         \/ Submit \/ Withdraw \/ UNCHANGED vars
         \/ \E b \in Balances : OwnerSpends(b) \/ SuspensionEnds(b)
  PROVE  TradeInv'
<1> USE DEF TradeInv, ledger, peer, locks, handlers, bounds
<1>1. None \notin Claims /\ None \notin Settlements /\ None \notin Waits BY DEF TradeAssumption
<1>2. UNCHANGED <<issuer, settled, undone, mail, refunds, recorded, peerLock, locks, stored, handlers, requests, answer, bounds>>
  BY DEF Submit, Withdraw, OwnerSpends, SuspensionEnds, vars
<1>3. StaysPaid BY <1>2 DEF StaysPaid, Delivered
<1>4. CASE UNCHANGED <<revoked, ownerSpent>> /\ suspended' \subseteq suspended /\ listing' \in {"unposted", "open", "gone"}
  <2>1. TypeOK' BY <1>2, <1>4 DEF TypeOK, Foreign
  <2>2. Relayed' /\ Waiting' /\ Holding'
    BY <1>1, <1>2, <1>3, <1>4, RelayKept, WaitKept, HoldKept DEF Waiting
  <2> QED BY <1>2, <1>4, <2>1, <2>2, MoneyKept
<1>5. ASSUME NEW b \in Balances, OwnerSpends(b) PROVE TradeInv'
  <2>1. /\ b \notin revoked /\ revoked' = revoked \cup {b} /\ ownerSpent' = ownerSpent \cup {b}
        /\ UNCHANGED <<suspended, listing>>
        /\ IF Foreign(b) THEN peerLock[b] = None ELSE spendLock[b] = None
    BY <1>5 DEF OwnerSpends, Free
  <2>2. TypeOK' BY <1>2, <2>1 DEF TypeOK, Foreign
  <2>3. Relayed' BY <1>1, <1>2, <1>3, <2>1, RelayKept
  <2>4. Waiting' /\ Holding' BY <1>1, <1>2, <1>3, <2>1, WaitKept, HoldKept DEF Waiting
  <2>5. SettledIsRevoked' /\ SpentOnce' BY <1>2, <2>1 DEF SettledIsRevoked, SpentOnce
  <2> QED BY <2>2, <2>3, <2>4, <2>5
<1> QED BY <1>4, <1>5 DEF Submit, Withdraw, SuspensionEnds, vars, TypeOK

-----------------------------------------------------------------------------
(* The claim.                                                              *)

Beginning(c) == Arrive(c) \/ Busy(c) \/ CheckOffered(c) \/ CheckPosted(c) \/ DropListing(c)

LEMMA BeginNext ==
  ASSUME TradeAssumption, TradeInv, NEW c \in Claims, Beginning(c) PROVE TradeInv'
<1> USE DEF TradeInv, ledger, peer, locks, handlers, bounds
<1>1. None \notin Claims /\ None \notin Settlements /\ None \notin Waits BY DEF TradeAssumption
<1>2. /\ UNCHANGED <<issuer, ledger, ownerSpent, peer, stored, got, outlived, stops>>
      /\ listing' \in {"unposted", "open", "gone"} /\ losses' \in 0..MaxLosses
  BY DEF Beginning, Arrive, Busy, CheckOffered, CheckPosted, DropListing, PassesCheck, FailsCheck,
     LostDocument, TypeOK,
         TradeAssumption
<1>3. StaysPaid BY <1>2 DEF StaysPaid, Delivered
<1>4. SettledIsRevoked' /\ SpentOnce' BY <1>2, MoneyKept
<1>5. ASSUME pc' \in [Claims -> Steps], answer' \in [Claims -> Outcomes \cup {None}],
             spendLock' \in [Balances -> Claims \cup {None}], lease' \in [Ids -> Claims \cup {None}]
      PROVE  TypeOK'
  BY <1>2, <1>5 DEF TypeOK, Foreign
<1>6. ASSUME NEW outcome \in Outcomes, EndWith(c, outcome), UNCHANGED requests PROVE TradeInv'
  <2>1. Relayed' BY <1>1, <1>2, <1>3, <1>6, RelayKept
  <2> QED BY <1>1, <1>2, <1>3, <1>4, <1>5, <1>6, <2>1, Ends
<1>7. Refusal \in Outcomes /\ TryLater \in Outcomes BY DEF Refusal, TryLater, Outcomes, Results
<1>8. RequestId[c] \in Ids /\ Offered[c] \in Balances /\ Posted \in Balances BY DEF Ids, Balances
<1>9. CASE Arrive(c)
  <2>1. CASE stored[RequestId[c]] # None
    <3>1. stored[RequestId[c]] \in Outcomes BY <1>8, <2>1 DEF TypeOK
    <3> QED BY <1>6, <1>9, <2>1, <3>1 DEF Arrive
  <2>2. CASE stored[RequestId[c]] = None /\ listing # "open" BY <1>6, <1>7, <1>9, <2>2 DEF Arrive
  <2>3. CASE stored[RequestId[c]] = None /\ listing = "open"
    <3>1. /\ pc[c] = "new" /\ pc' = [pc EXCEPT ![c] = "checkB"] /\ lease' = [lease EXCEPT ![RequestId[c]] = c]
          /\ UNCHANGED <<answer, awaits, spendLock, requests>>
      BY <1>9, <2>3 DEF Arrive, Moves
    <3>2. TypeOK' BY <1>5, <1>8, <3>1 DEF TypeOK, Steps
    <3>3. awaits[c] = None BY <3>1 DEF Waiting, Asking
    <3>4. Relayed' /\ Waiting' /\ Holding'
      BY <1>1, <1>2, <1>3, <3>1, <3>3, RelayKept, WaitKept, HoldKept DEF Waiting, TypeOK, Asking
    <3> QED BY <1>4, <3>2, <3>4
  <2> QED BY <2>1, <2>2, <2>3
<1>10. CASE Busy(c) BY <1>6, <1>7, <1>10 DEF Busy
<1>11. CASE DropListing(c) BY <1>6, <1>7, <1>11 DEF DropListing
<1>12. CASE CheckOffered(c)
  <2>1. CASE EndWith(c, Refusal) BY <1>6, <1>7, <1>12, <2>1 DEF CheckOffered
  <2>2. CASE ~ EndWith(c, Refusal)
    <3>1. /\ pc[c] = "checkB" /\ pc' = [pc EXCEPT ![c] = "checkA"] /\ spendLock[Offered[c]] = None
          /\ spendLock' = [spendLock EXCEPT ![Offered[c]] = c] /\ PassesCheck(Offered[c])
          /\ UNCHANGED <<answer, awaits, lease, requests>>
      BY <1>12, <2>2 DEF CheckOffered, Moves, Free
    <3>2. TypeOK' BY <1>5, <1>8, <3>1 DEF TypeOK, Steps
    <3>3. awaits[c] = None BY <3>1 DEF Waiting, Asking
    <3>4. Relayed' /\ Waiting'
      BY <1>1, <1>2, <1>3, <3>1, <3>3, RelayKept, WaitKept DEF Waiting, TypeOK, Asking
    <3>5. ~ Foreign(Offered[c]) => Offered[c] \notin revoked
      BY <3>1 DEF PassesCheck, Usable, LostDocument
    <3>6. Holding'
      <4>1. ASSUME NEW d \in Claims, NEW leg \in Legs, d # c, HasChecked(d, leg)'
            PROVE  /\ spendLock'[BalanceOf(d, leg)] = d
                   /\ ~ HasSettled(d, leg)' /\ ~ Foreign(BalanceOf(d, leg)) => BalanceOf(d, leg) \notin revoked
        BY <1>1, <1>2, <3>1, <4>1 DEF Holding, HasChecked, HasSettled, TypeOK
      <4>2. HasChecked(c, "B")' /\ ~ HasChecked(c, "A")' BY <3>1 DEF HasChecked, TypeOK, Asking
      <4>3. spendLock'[Offered[c]] = c BY <1>8, <3>1 DEF TypeOK
      <4> QED BY <1>2, <3>5, <4>1, <4>2, <4>3 DEF Holding, BalanceOf, Foreign, Legs
    <3> QED BY <1>4, <3>2, <3>4, <3>6
  <2> QED BY <2>1, <2>2
<1>13. CASE CheckPosted(c)
  <2>1. FirstStep(c) \in {"lockB", "lockA", "settleB"} BY DEF FirstStep, SecondStep
  <2>2. /\ pc[c] = "checkA" /\ Enter(c, FirstStep(c), 1) /\ spendLock[Posted] = None
        /\ spendLock' = [spendLock EXCEPT ![Posted] = c] /\ PassesCheck(Posted) /\ UNCHANGED <<lease, answer>>
    BY <1>13 DEF CheckPosted, Free
  <2>3. Relayed' /\ Waiting' /\ pc' \in [Claims -> Steps] /\ pc' = [pc EXCEPT ![c] = FirstStep(c)]
    BY <1>1, <1>2, <1>3, <2>1, <2>2, Enters DEF Asking
  <2>4. TypeOK' BY <1>5, <1>8, <2>2, <2>3 DEF TypeOK
  <2>5. ~ Foreign(Posted) => Posted \notin revoked BY <2>2 DEF PassesCheck, Usable, LostDocument
  <2>6. HasChecked(c, "B") /\ ~ HasSettled(c, "B") /\ Offered[c] # Posted
    BY <2>2 DEF HasChecked, HasSettled, TradeAssumption
  <2>7. Holding'
    <3>1. ASSUME NEW d \in Claims, NEW leg \in Legs, d # c, HasChecked(d, leg)'
          PROVE  /\ spendLock'[BalanceOf(d, leg)] = d
                 /\ ~ HasSettled(d, leg)' /\ ~ Foreign(BalanceOf(d, leg)) => BalanceOf(d, leg) \notin revoked
      BY <1>1, <1>2, <2>2, <2>3, <3>1 DEF Holding, HasChecked, HasSettled, TypeOK
    <3>2. ~ HasSettled(c, "A")' /\ ~ HasSettled(c, "B")' BY <2>1, <2>3 DEF HasSettled, TypeOK
    <3>3. spendLock'[Posted] = c /\ spendLock'[Offered[c]] = c
      BY <1>8, <2>2, <2>6 DEF TypeOK, Holding, BalanceOf, Legs
    <3>4. ~ Foreign(Offered[c]) => Offered[c] \notin revoked BY <2>6 DEF Holding, BalanceOf, Legs
    <3> QED BY <1>2, <2>5, <3>1, <3>2, <3>3, <3>4 DEF Holding, BalanceOf, Foreign, Legs
  <2> QED BY <1>4, <2>3, <2>4, <2>7
<1> QED BY <1>9, <1>10, <1>11, <1>12, <1>13 DEF Beginning

\* A claim that is told of a failure.
LEMMA ToldOfFailure ==
  ASSUME Waiting, None \notin Waits, StaysPaid, UNCHANGED pc, NEW c \in Claims, awaits[c] # None,
         \/ awaits' = [awaits EXCEPT ![c].says = "no", ![c].payment = None]
         \/ awaits' = [awaits EXCEPT ![c].says = "no"]
  PROVE  Waiting'
<1>1. awaits[c] \in Waits BY DEF Waiting
<1>2. awaits' \in [Claims -> Waits \cup {None}] /\ awaits'[c] # None /\ awaits'[c].says = "no"
      /\ \A d \in Claims : d # c => awaits'[d] = awaits[d]
  BY <1>1 DEF Waiting, Waits
<1> QED BY <1>2, WaitKept

LEMMA ReleasedType ==
  ASSUME TypeOK, NEW cs \in SUBSET Claims, peerLock' \in {peerLock, Released(cs)}
  PROVE  peerLock' \in [Balances -> Settlements \cup {None}]
BY DEF TypeOK, Released

Going(c) ==
  \/ LockAnswered(c) \/ TriesAgain(c) \/ FirstLegFails(c) \/ LoseAnswer(c)
  \/ SecondLegFails(c) \/ Refund(c) \/ Close(c)

\* The steps after the checks at which nothing is settled.
LEMMA GoingNext ==
  ASSUME TradeAssumption, TradeInv, NEW c \in Claims, Going(c) PROVE TradeInv'
<1> USE DEF TradeInv, ledger, peer, locks, handlers, bounds
<1>1. None \notin Claims /\ None \notin Settlements /\ None \notin Waits BY DEF TradeAssumption
<1>2. /\ UNCHANGED <<issuer, revoked, settled, mail, ownerSpent, peer, got, outlived>>
      /\ listing' \in {"unposted", "open", "gone"}
  BY DEF Going, LockAnswered, TriesAgain, FirstLegFails, LoseAnswer, SecondLegFails, Refund,
     Close, TypeOK
<1>3. StaysPaid BY <1>2 DEF StaysPaid, Delivered
<1>4. SettledIsRevoked' /\ SpentOnce' BY <1>2, MoneyKept
<1>5. losses' \in 0..MaxLosses /\ stops' \in 0..MaxStops
  <2>1. UNCHANGED <<losses, stops>> \/ Loss
    BY DEF Going, LockAnswered, TriesAgain, FirstLegFails, LoseAnswer, SecondLegFails, Refund, Close
  <2> QED BY <2>1 DEF TypeOK, TradeAssumption, Loss
<1>6. ASSUME pc' \in [Claims -> Steps], answer' \in [Claims -> Outcomes \cup {None}],
             stored' \in [Ids -> Outcomes \cup {None}], undone' \subseteq settled, refunds' \subseteq Claims,
             spendLock' \in [Balances -> Claims \cup {None}], lease' \in [Ids -> Claims \cup {None}]
      PROVE  TypeOK'
  BY <1>2, <1>5, <1>6 DEF TypeOK, Foreign
<1>7. ASSUME NEW outcome \in Outcomes, EndWith(c, outcome), UNCHANGED <<requests, undone>>, refunds' \subseteq Claims,
             stored' \in {stored, [stored EXCEPT ![RequestId[c]] = outcome]}
      PROVE  TradeInv'
  <2>1. Relayed' BY <1>1, <1>2, <1>3, <1>7, RelayKept
  <2>2. stored' \in [Ids -> Outcomes \cup {None}] BY <1>7 DEF TypeOK
  <2>3. undone' \subseteq settled BY <1>7 DEF TypeOK
  <2> QED BY <1>1, <1>2, <1>3, <1>4, <1>6, <1>7, <2>1, <2>2, <2>3, Ends
<1>8. /\ Refusal \in Outcomes /\ Unresolved \in Outcomes
      /\ \A refunded \in BOOLEAN : Incomplete(refunded) \in Outcomes
      /\ Settled(got[c]["A"]) \in Outcomes
  <2>1. got[c]["A"] \in Settlements \cup {None} BY DEF TypeOK, Legs
  <2> QED BY <2>1 DEF Refusal, Unresolved, Incomplete, Settled, Outcomes, Results
<1>9. refunds \subseteq Claims BY DEF TypeOK
\* the claim goes on to a step that asks for a leg
<1>10. ASSUME NEW step \in Asking, NEW try \in 1..2, Enter(c, step, try), pc[c] \in Asking,
              step = pc[c] \/ (pc[c] \in Locking /\ step \in {"lockA", "settleB"}),
              UNCHANGED <<answer, stored, undone, refunds, locks>>
       PROVE  TradeInv'
  <2>1. step = "settleA" => got'[c]["B"] \in settled' BY <1>2, <1>10 DEF Waiting, Delivered
  <2>2. Relayed' /\ Waiting' /\ pc' \in [Claims -> Steps] /\ pc' = [pc EXCEPT ![c] = step]
    BY <1>1, <1>2, <1>3, <1>10, <2>1, Enters
  <2>3. TypeOK' BY <1>6, <1>10, <2>2 DEF TypeOK
  <2>4. Holding'
    <3>1. \A d \in Claims, leg \in Legs :
             (HasChecked(d, leg)' <=> HasChecked(d, leg)) /\ (HasSettled(d, leg)' <=> HasSettled(d, leg))
      BY <1>10, <2>2 DEF HasChecked, HasSettled, TypeOK, Asking, Locking
    <3> QED BY <1>2, <1>10, <3>1 DEF Holding, BalanceOf, Foreign
  <2> QED BY <1>4, <2>2, <2>3, <2>4
<1>11. CASE LockAnswered(c)
  <2>1. CASE EndWith(c, Refusal) /\ UNCHANGED requests BY <1>7, <1>8, <1>9, <1>11, <2>1 DEF LockAnswered
  <2>2. CASE Enter(c, IF pc[c] = "lockB" THEN SecondStep(c) ELSE "settleB", 1) /\ UNCHANGED <<answer, locks>>
    <3>1. SecondStep(c) \in {"lockA", "settleB"} BY DEF SecondStep
    <3> QED BY <1>10, <1>11, <2>2, <3>1 DEF LockAnswered, Locking, Asking
  <2> QED BY <1>11, <2>1, <2>2 DEF LockAnswered
<1>12. CASE TriesAgain(c)
  <2>1. pc[c] \in Asking BY <1>12 DEF TriesAgain, Waiting
  <2> QED BY <1>10, <1>12, <2>1 DEF TriesAgain
<1>13. CASE FirstLegFails(c) BY <1>7, <1>8, <1>9, <1>13 DEF FirstLegFails
<1>14. CASE LoseAnswer(c)
  <2>1. /\ awaits[c] # None /\ UNCHANGED <<pc, locks, stored, requests, answer, undone, refunds>>
        /\ awaits' = [awaits EXCEPT ![c].says = "no", ![c].payment = None]
    BY <1>14 DEF LoseAnswer
  <2>2. Waiting' BY <1>1, <1>3, <2>1, ToldOfFailure
  <2>3. Relayed' /\ Holding' BY <1>1, <1>2, <1>3, <2>1, RelayKept, HoldKept
  <2>4. TypeOK' BY <1>6, <2>1 DEF TypeOK
  <2> QED BY <1>4, <2>2, <2>3, <2>4
<1>15. CASE SecondLegFails(c)
  <2>1. Delivered(c) \in settled /\ pc[c] = "settleA" BY <1>15 DEF SecondLegFails, Waiting
  <2>2. CASE EndIncomplete(c, FALSE) /\ UNCHANGED undone
    BY <1>7, <1>8, <1>9, <1>15, <2>2 DEF SecondLegFails, EndIncomplete
  <2>3. CASE /\ undone' = undone \cup {Delivered(c)} /\ pc' = [pc EXCEPT ![c] = "refund"]
             /\ awaits' = [awaits EXCEPT ![c] = None] /\ UNCHANGED <<stored, answer, locks>>
    <3>1. UNCHANGED <<requests, refunds>> BY <1>15 DEF SecondLegFails
    <3>2. TypeOK' BY <1>6, <2>1, <2>3, <3>1 DEF TypeOK, Steps
    <3>3. Relayed' BY <1>1, <1>2, <1>3, <3>1, RelayKept
    <3>4. Waiting' BY <1>2, <2>1, <2>3 DEF Waiting, TypeOK, Foreign, BalanceOf, Delivered, Asking
    <3>5. \A d \in Claims, leg \in Legs :
             /\ HasChecked(d, leg)' => HasChecked(d, leg)
             /\ HasSettled(d, leg) => HasSettled(d, leg)'
      BY <2>1, <2>3 DEF HasChecked, HasSettled, TypeOK, Asking
    <3>6. Holding' BY <1>2, <2>3, <3>5 DEF Holding, BalanceOf, Foreign
    <3> QED BY <1>4, <3>2, <3>3, <3>4, <3>6
  <2> QED BY <1>15, <2>2, <2>3 DEF SecondLegFails, Moves
<1>16. CASE Refund(c)
  <2>1. PICK refunded \in BOOLEAN : EndIncomplete(c, refunded) BY <1>16 DEF Refund
  <2>2. refunds' \subseteq Claims BY <1>9, <1>16 DEF Refund
  <2> QED BY <1>7, <1>8, <1>16, <2>1, <2>2 DEF Refund, EndIncomplete
<1>17. CASE Close(c) BY <1>7, <1>8, <1>9, <1>17 DEF Close
<1> QED BY <1>11, <1>12, <1>13, <1>14, <1>15, <1>16, <1>17 DEF Going

\* The connection of a claim's request closes, and the request goes on.
LEMMA OutlivesNext ==
  ASSUME TradeAssumption, TradeInv, NEW c \in Claims, Outlives(c) PROVE TradeInv'
<1> USE DEF TradeInv, ledger, peer, locks, handlers, bounds
<1>1. None \notin Claims /\ None \notin Settlements /\ None \notin Waits BY DEF TradeAssumption
<1>2. /\ awaits[c] # None /\ awaits' = [awaits EXCEPT ![c].says = "no"] /\ outlived' = TRUE /\ Loss
      /\ peerLock' \in {peerLock, Released({c})}
      /\ UNCHANGED <<issuer, listing, ledger, ownerSpent, suspended, recorded, locks, stored, pc, got,
                     requests, answer>>
  BY DEF Outlives, Listens
<1>3. StaysPaid BY <1>2 DEF StaysPaid, Delivered
<1>4. losses' \in 0..MaxLosses /\ stops' \in 0..MaxStops BY <1>2 DEF Loss, TypeOK, TradeAssumption
<1>5. peerLock' \in [Balances -> Settlements \cup {None}]
  <2>1. {c} \in SUBSET Claims OBVIOUS
  <2> QED BY <1>2, <2>1, ReleasedType
<1>6. TypeOK' BY <1>2, <1>4, <1>5 DEF TypeOK, Foreign
<1>7. Waiting' BY <1>1, <1>2, <1>3, ToldOfFailure
<1>8. Relayed' /\ Holding' BY <1>1, <1>2, <1>3, RelayKept, HoldKept
<1> QED BY <1>2, <1>6, <1>7, <1>8, MoneyKept

\* A balance that is settled was not revoked before, and is from then on.
LEMMA SettleOnce ==
  ASSUME TypeOK, SettledIsRevoked, SpentOnce, UNCHANGED <<ownerSpent, outlived>>, NEW s,
         ~ outlived => s.of \notin revoked, revoked' = revoked \cup {s.of}, settled' = settled \cup {s}
  PROVE  SettledIsRevoked' /\ SpentOnce'
BY DEF TypeOK, SettledIsRevoked, SpentOnce

LEMMA SettleNext ==
  ASSUME TradeAssumption, TradeInv, NEW c \in Claims,
         SettleOffered(c) \/ SettlePosted(c) \/ MailPoster(c) \/ SettleAnswered(c)
  PROVE  TradeInv'
<1> USE DEF TradeInv, ledger, peer, locks, handlers, bounds
<1>1. None \notin Claims /\ None \notin Settlements /\ None \notin Waits BY DEF TradeAssumption
<1>2. UNCHANGED <<issuer, listing, undone, refunds, ownerSpent, peer, locks, stored, answer, bounds>>
  BY DEF SettleOffered, SettlePosted, MailPoster, SettleAnswered
<1>3. ASSUME pc' \in [Claims -> Steps], got' \in [Claims -> [Legs -> settled' \cup {None}]],
             revoked \subseteq revoked', revoked' \subseteq Balances,
             settled \subseteq settled', settled' \subseteq Settlements, mail' \subseteq settled'
      PROVE  TypeOK'
  BY <1>2, <1>3 DEF TypeOK, Foreign
<1>4. CASE SettleOffered(c)
  <2> DEFINE s == Settlement(c, "B", 0)
  <2>1. /\ pc[c] = "settleB" /\ ~ Foreign(Offered[c]) /\ Enter(c, "settleA", 1)
        /\ revoked' = revoked \cup {Offered[c]} /\ settled' = settled \cup {s}
        /\ got' = [got EXCEPT ![c]["B"] = s] /\ UNCHANGED mail
    BY <1>4 DEF SettleOffered
  <2>2. s \in Settlements /\ s.of = Offered[c] /\ Offered[c] \in Balances
    BY DEF Settlement, Settlements, BalanceOf, Balances
  <2> HIDE DEF s
  <2>3. Offered[c] \notin revoked /\ spendLock[Offered[c]] = c
    BY <2>1 DEF Holding, HasChecked, HasSettled, BalanceOf, Legs, Asking
  <2>4. got' \in [Claims -> [Legs -> settled' \cup {None}]] /\ got'[c]["B"] = s
        /\ \A d \in Claims : d # c => got'[d] = got[d]
    BY <2>1 DEF TypeOK, Legs
  <2>5. StaysPaid BY <1>2, <2>1, <2>4 DEF StaysPaid, Delivered
  <2>6. Relayed' /\ Waiting' /\ pc' \in [Claims -> Steps] /\ pc' = [pc EXCEPT ![c] = "settleA"]
    BY <1>1, <1>2, <2>1, <2>4, <2>5, Enters DEF Asking
  <2>7. TypeOK' BY <1>3, <2>1, <2>2, <2>4, <2>6 DEF TypeOK
  <2>8. Holding'
    <3>1. ASSUME NEW d \in Claims, NEW leg \in Legs, HasChecked(d, leg)'
          PROVE  /\ spendLock[BalanceOf(d, leg)] = d
                 /\ ~ HasSettled(d, leg)' /\ ~ Foreign(BalanceOf(d, leg)) => BalanceOf(d, leg) \notin revoked'
      <4>1. HasChecked(d, leg) /\ (HasSettled(d, leg) => HasSettled(d, leg)')
        BY <2>1, <2>6, <3>1 DEF HasChecked, HasSettled, TypeOK, Asking
      <4>2. spendLock[BalanceOf(d, leg)] = d BY <3>1, <4>1 DEF Holding
      <4>3. CASE d = c
        <5>1. HasSettled(c, "B")' BY <2>6 DEF HasSettled, TypeOK
        <5>2. Posted # Offered[c] BY DEF TradeAssumption
        <5> QED BY <2>1, <3>1, <4>1, <4>2, <4>3, <5>1, <5>2 DEF Holding, BalanceOf, Legs
      <4>4. CASE d # c BY <2>1, <2>3, <3>1, <4>1, <4>2, <4>4 DEF Holding
      <4> QED BY <4>3, <4>4
    <3> QED BY <1>2, <3>1 DEF Holding, BalanceOf, Foreign
  <2>9. SettledIsRevoked' /\ SpentOnce' BY <1>2, <2>1, <2>2, <2>3, SettleOnce
  <2> QED BY <2>6, <2>7, <2>8, <2>9
<1>5. CASE SettlePosted(c)
  <2> DEFINE s == Settlement(c, "A", 0)
  <2>1. /\ pc[c] = "settleA" /\ ~ Foreign(Posted) /\ pc' = [pc EXCEPT ![c] = "mailA"]
        /\ revoked' = revoked \cup {Posted} /\ settled' = settled \cup {s}
        /\ got' = [got EXCEPT ![c]["A"] = s] /\ UNCHANGED <<mail, awaits, requests>>
    BY <1>5 DEF SettlePosted, Moves
  <2>2. s \in Settlements /\ s.of = Posted /\ Posted \in Balances
    BY DEF Settlement, Settlements, BalanceOf, Balances
  <2> HIDE DEF s
  <2>3. Posted \notin revoked /\ spendLock[Posted] = c
    BY <2>1 DEF Holding, HasChecked, HasSettled, BalanceOf, Legs, Asking
  <2>4. got' \in [Claims -> [Legs -> settled' \cup {None}]] /\ \A d \in Claims : got'[d]["B"] = got[d]["B"]
    BY <2>1 DEF TypeOK, Legs
  <2>5. StaysPaid BY <1>2, <2>1, <2>4 DEF StaysPaid, Delivered
  <2>6. TypeOK' BY <1>3, <2>1, <2>2, <2>4 DEF TypeOK, Steps
  <2>7. Relayed' BY <1>1, <1>2, <2>1, <2>5, RelayKept
  <2>8. awaits[c] = None BY <2>1 DEF Waiting, LegOf, BalanceOf
  <2>9. Waiting' BY <1>2, <2>1, <2>4, <2>8 DEF Waiting, TypeOK, Foreign, BalanceOf, Delivered, Asking
  <2>10. Holding'
    <3>1. ASSUME NEW d \in Claims, NEW leg \in Legs, HasChecked(d, leg)'
          PROVE  /\ spendLock[BalanceOf(d, leg)] = d
                 /\ ~ HasSettled(d, leg)' /\ ~ Foreign(BalanceOf(d, leg)) => BalanceOf(d, leg) \notin revoked'
      <4>1. HasChecked(d, leg) /\ (HasSettled(d, leg) => HasSettled(d, leg)')
        BY <2>1, <3>1 DEF HasChecked, HasSettled, TypeOK, Asking
      <4>2. spendLock[BalanceOf(d, leg)] = d BY <3>1, <4>1 DEF Holding
      <4>3. CASE d = c BY <2>1, <4>2, <4>3 DEF HasSettled, TypeOK
      <4>4. CASE d # c BY <2>1, <2>3, <3>1, <4>1, <4>2, <4>4 DEF Holding
      <4> QED BY <4>3, <4>4
    <3> QED BY <1>2, <3>1 DEF Holding, BalanceOf, Foreign
  <2>11. SettledIsRevoked' /\ SpentOnce' BY <1>2, <2>1, <2>2, <2>3, SettleOnce
  <2> QED BY <2>6, <2>7, <2>9, <2>10, <2>11
<1>6. CASE MailPoster(c)
  <2>1. /\ pc[c] = "mailA" /\ pc' = [pc EXCEPT ![c] = "close"] /\ mail' = mail \cup {Delivered(c)}
        /\ UNCHANGED <<revoked, settled, awaits, got, requests>>
    BY <1>6 DEF MailPoster, Moves
  <2>2. Delivered(c) \in settled /\ awaits[c] = None BY <2>1 DEF Waiting, Asking
  <2>3. StaysPaid BY <1>2, <2>1 DEF StaysPaid, Delivered
  <2>4. TypeOK' BY <1>3, <2>1, <2>2 DEF TypeOK, Steps
  <2>5. Relayed' BY <1>1, <1>2, <2>1, <2>3, RelayKept
  <2>6. Waiting' BY <1>2, <2>1, <2>2 DEF Waiting, TypeOK, Foreign, BalanceOf, Delivered, Asking
  <2>7. \A d \in Claims, leg \in Legs :
           (HasChecked(d, leg)' <=> HasChecked(d, leg)) /\ (HasSettled(d, leg)' <=> HasSettled(d, leg))
    BY <2>1 DEF HasChecked, HasSettled, TypeOK
  <2>8. Holding' BY <1>2, <2>1, <2>7 DEF Holding, BalanceOf, Foreign
  <2> QED BY <1>2, <2>1, <2>4, <2>5, <2>6, <2>8, MoneyKept
<1>7. CASE SettleAnswered(c)
  <2> DEFINE s == awaits[c].payment
             leg == LegOf(pc[c])
  <2>1. /\ s \in settled /\ pc[c] \in {"settleB", "settleA"} /\ Foreign(BalanceOf(c, leg)) /\ leg \in Legs
        /\ leg = (IF pc[c] = "settleB" THEN "B" ELSE "A")
    BY <1>7 DEF SettleAnswered, Waiting, Asking, Locking, LegOf, Legs
  <2>2. /\ got' = [got EXCEPT ![c][leg] = s] /\ UNCHANGED <<revoked, settled, mail>>
        /\ IF pc[c] = "settleB" THEN Enter(c, "settleA", 1)
           ELSE pc' = [pc EXCEPT ![c] = "close"] /\ awaits' = [awaits EXCEPT ![c] = None] /\ UNCHANGED requests
    BY <1>7 DEF SettleAnswered, Moves
  <2> HIDE DEF s, leg
  <2>3. got' \in [Claims -> [Legs -> settled' \cup {None}]] /\ got'[c][leg] = s
        /\ \A d \in Claims : got'[d]["B"] = (IF d = c /\ leg = "B" THEN s ELSE got[d]["B"])
    BY <2>1, <2>2 DEF TypeOK, Legs
  <2>4. StaysPaid BY <1>2, <2>1, <2>2, <2>3 DEF StaysPaid, Delivered
  <2>5. /\ Relayed' /\ Waiting' /\ pc' \in [Claims -> Steps]
        /\ pc' = [pc EXCEPT ![c] = IF leg = "B" THEN "settleA" ELSE "close"]
    <3>1. CASE pc[c] = "settleB"
      BY <1>1, <1>2, <2>1, <2>2, <2>3, <2>4, <3>1, Enters DEF Asking
    <3>2. CASE pc[c] = "settleA"
      <4>1. Relayed' BY <1>1, <1>2, <2>1, <2>2, <2>4, <3>2, RelayKept
      <4>2. Delivered(c) \in settled /\ got'[c]["B"] = got[c]["B"]
        BY <2>1, <2>3, <3>2 DEF Waiting
      <4>3. \A d \in Claims : /\ pc'[d] = IF d = c THEN "close" ELSE pc[d]
                              /\ awaits'[d] = IF d = c THEN None ELSE awaits[d]
                              /\ got'[d]["B"] = got[d]["B"]
        BY <2>1, <2>2, <2>3, <3>2, <4>2 DEF Waiting, TypeOK
      <4>4. awaits' \in [Claims -> Waits \cup {None}] BY <2>2, <3>2 DEF Waiting
      <4>5. Waiting'
        BY <1>2, <2>2, <4>2, <4>3, <4>4 DEF Waiting, Foreign, BalanceOf, Delivered, Asking
      <4> QED BY <2>1, <2>2, <3>2, <4>1, <4>5 DEF TypeOK, Steps
    <3> QED BY <2>1, <3>1, <3>2
  <2>6. TypeOK' BY <1>3, <2>2, <2>3, <2>5 DEF TypeOK
  <2>7. \A d \in Claims, l \in Legs :
           /\ HasChecked(d, l)' <=> HasChecked(d, l)
           /\ (HasSettled(d, l)' <=> HasSettled(d, l)) \/ (d = c /\ HasSettled(d, l)')
    BY <2>1, <2>5 DEF HasChecked, HasSettled, TypeOK, Asking, Legs
  <2>8. Holding' BY <1>2, <2>2, <2>7 DEF Holding, BalanceOf, Foreign
  <2> QED BY <1>2, <2>2, <2>5, <2>6, <2>8, MoneyKept
<1> QED BY <1>4, <1>5, <1>6, <1>7

-----------------------------------------------------------------------------
(* The other domain.                                                       *)

\* Whoever waits for r is told; nobody is told of a settlement not made.
LEMMA Replies ==
  ASSUME Relayed, Waiting, None \notin Waits, StaysPaid, UNCHANGED <<pc, got>>,
         NEW r \in requests, NEW says \in {"ok", "no"}, NEW payment \in settled' \cup {None},
         says = "ok" /\ r.step \notin Locking => payment \in settled',
         Reply(r, says, payment), settled' \subseteq Settlements
  PROVE  Waiting'
<1>1. \A c \in Claims :
         IF c = r.claim /\ pc[c] = r.step /\ awaits[c].try = r.try /\ awaits[c].says = "nothing"
         THEN awaits'[c] = [awaits[c] EXCEPT !.says = says, !.payment = payment] ELSE awaits'[c] = awaits[c]
  BY DEF Reply
<1>2. r.claim \in Claims /\ r.step \in Asking /\ Foreign(BalanceOf(r.claim, LegOf(r.step)))
  BY DEF Relayed, About
<1>3. pc[r.claim] = r.step => awaits[r.claim] \in Waits BY <1>2 DEF Waiting
<1>4. ASSUME NEW c \in Claims
      PROVE  /\ awaits'[c] \in Waits \cup {None} /\ (awaits'[c] # None <=> awaits[c] # None)
             /\ awaits'[c] # None /\ awaits'[c].says = "ok" /\ pc[c] \notin Locking =>
                  awaits'[c].payment \in settled'
  <2>1. CASE c = r.claim /\ pc[c] = r.step /\ awaits[c].try = r.try /\ awaits[c].says = "nothing"
    <3>1. awaits[c] \in Waits /\ awaits'[c] = [awaits[c] EXCEPT !.says = says, !.payment = payment]
      BY <1>1, <1>3, <2>1
    <3>2. awaits'[c] \in Waits /\ awaits'[c].says = says /\ awaits'[c].payment = payment BY <3>1 DEF Waits
    <3> QED BY <2>1, <3>1, <3>2
  <2>2. CASE ~ (c = r.claim /\ pc[c] = r.step /\ awaits[c].try = r.try /\ awaits[c].says = "nothing")
    BY <1>1, <2>2 DEF Waiting, StaysPaid
  <2> QED BY <2>1, <2>2
<1>5. awaits' \in [Claims -> Waits \cup {None}] BY <1>4 DEF Reply
<1> QED BY <1>4, <1>5 DEF Waiting, StaysPaid, Foreign, BalanceOf, Delivered

\* A relayed request is answered or goes a step further; the claims go on waiting.
LEMMA ServeNext ==
  ASSUME TradeAssumption, TradeInv, NEW r \in requests, Serve(r) \/ LoseRequest(r) PROVE TradeInv'
<1> USE DEF TradeInv, ledger, peer, locks, handlers, bounds
<1>1. None \notin Claims /\ None \notin Settlements /\ None \notin Waits BY DEF TradeAssumption
<1>2. UNCHANGED <<issuer, listing, ownerSpent, undone, refunds, locks, stored, pc, got, answer, outlived, stops>>
  BY DEF Serve, RelayLock, RelaySettleLooks, RelaySettleChecks, RelaySettleRevokes, RelaySettleRecords,
     LoseRequest, Loss
<1>3. r.claim \in Claims /\ r.step \in Asking /\ r.try \in 1..2 /\ Foreign(About(r)) BY DEF Relayed
<1>4. About(r) \in Balances BY <1>3 DEF About, BalanceOf, Balances
<1>6. settled \subseteq settled' => StaysPaid BY <1>2 DEF StaysPaid, Delivered
\* r is answered
<1>7. ASSUME NEW says \in {"ok", "no"}, NEW payment \in settled \cup {None}, Reply(r, says, payment),
             says = "ok" /\ r.step \notin Locking => payment \in settled,
             UNCHANGED <<revoked, settled, mail, recorded, peerLock>>,
             suspended' \subseteq suspended \cup {About(r)}, losses' \in 0..MaxLosses
      PROVE  TradeInv'
  <2>1. StaysPaid /\ settled' \subseteq Settlements BY <1>6, <1>7 DEF TypeOK
  <2>2. requests' \subseteq requests BY <1>7 DEF Reply
  <2>3. Relayed' BY <1>1, <1>2, <1>7, <2>1, <2>2, RelayKept
  <2>4. Waiting' BY <1>1, <1>2, <1>7, <2>1, Replies
  <2>5. Holding' BY <1>1, <1>2, <1>7, HoldKept
  <2>6. TypeOK' BY <1>2, <1>3, <1>4, <1>7 DEF TypeOK, Foreign
  <2> QED BY <1>2, <1>7, <2>3, <2>4, <2>5, <2>6, MoneyKept
\* r goes a step further
<1>8. ASSUME NEW at \in {"looked", "checked", "revoked"}, r.step \notin Locking,
             requests' = (requests \ {r}) \cup {[r EXCEPT !.at = at]}, settled \subseteq settled',
             \A b \in revoked' : b = About(r) \/ b \in revoked,
             \A b \in Balances : b # About(r) => peerLock'[b] = peerLock[b],
             at = "looked" \/ outlived \/
               (peerLock'[About(r)] = Payment(r) /\ (InHand(r) \/ peerLock[About(r)] = None)),
             at = "looked" => UNCHANGED <<revoked, peerLock>>,
             at = "checked" => About(r) \notin revoked', at = "revoked" => Payment(r) \in settled'
      PROVE  Relayed'
  <2> DEFINE q == [r EXCEPT !.at = at]
  <2>1. q.claim = r.claim /\ q.step = r.step /\ q.try = r.try /\ q.at = at
        /\ q \in [claim : Claims, step : Asking, try : 1..2, at : {"sent", "looked", "checked", "revoked"}]
    BY DEF Relayed
  <2>2. About(q) = About(r) /\ Payment(q) = Payment(r) /\ Delivered(q.claim) = Delivered(r.claim)
    BY <2>1 DEF About, Payment
  <2>3. \A p \in requests' : p = q \/ (p \in requests /\ p # r) BY <1>8
  <2> HIDE DEF q
  <2>4. ~ outlived => \A p \in requests : p # r /\ InHand(p) /\ at # "looked" => About(p) # About(r)
    <3> SUFFICES ASSUME ~ outlived, NEW p \in requests, p # r, InHand(p), at # "looked" PROVE About(p) # About(r)
      OBVIOUS
    <3>1. CASE InHand(r) BY <3>1 DEF Relayed
    <3>2. CASE peerLock[About(r)] = None
      <4>1. Payment(p) # None BY <1>1, PaymentOf
      <4>2. peerLock[About(p)] = Payment(p) BY DEF Relayed
      <4> QED BY <3>2, <4>1, <4>2
    <3> QED BY <1>8, <3>1, <3>2
  <2>5. ~ outlived => \A p \in requests : p # r /\ InHand(p) => peerLock'[About(p)] = Payment(p)
    <3> SUFFICES ASSUME ~ outlived, NEW p \in requests, p # r, InHand(p) PROVE peerLock'[About(p)] = Payment(p)
      OBVIOUS
    <3>1. peerLock[About(p)] = Payment(p) BY DEF Relayed
    <3>2. About(p) \in Balances BY PaymentOf
    <3> QED BY <1>8, <2>4, <3>1, <3>2
  <2>6. ~ outlived => \A p \in requests : p # r /\ p.at = "checked" => About(p) \notin revoked'
    BY <1>8, <2>4 DEF Relayed, InHand
  <2>7. ~ outlived => \A p \in requests : p # r /\ InHand(p) /\ at # "looked" => About(p) # About(q)
    BY <2>2, <2>4
  <2> QED BY <1>2, <1>8, <2>1, <2>2, <2>3, <2>5, <2>6, <2>7
      DEF Relayed, InHand, Foreign, About, BalanceOf, Payment, Settlement, Delivered
<1>9. CASE RelayLock(r)
  <2>1. /\ suspended' \subseteq suspended \cup {About(r)} /\ \E says \in {"ok", "no"} : Reply(r, says, None)
        /\ r.step \in Locking /\ UNCHANGED <<revoked, settled, mail, recorded, peerLock, losses>>
    BY <1>9 DEF RelayLock
  <2> QED BY <1>7, <2>1 DEF TypeOK
<1>10. CASE LoseRequest(r)
  <2>1. Reply(r, "no", None) /\ Loss /\ UNCHANGED <<revoked, settled, mail, recorded, peerLock, suspended>>
    BY <1>10 DEF LoseRequest
  <2>2. losses' \in 0..MaxLosses BY <2>1 DEF Loss, TypeOK, TradeAssumption
  <2> QED BY <1>7, <2>1, <2>2
<1>11. ASSUME UNCHANGED <<ledger, losses, suspended, recorded, awaits>>, Relayed',
              peerLock' \in [Balances -> Settlements \cup {None}]
       PROVE  TradeInv'
  <2>1. TypeOK' BY <1>2, <1>11 DEF TypeOK, Foreign
  <2>2. Waiting' BY <1>2, <1>11 DEF Waiting, Foreign, BalanceOf, Delivered
  <2>3. Holding' BY <1>1, <1>2, <1>11, HoldKept
  <2> QED BY <1>2, <1>11, <2>1, <2>2, <2>3, MoneyKept
<1>12. CASE RelaySettleLooks(r)
  <2>1. UNCHANGED <<ledger, peer, losses>> /\ r.step \notin Locking BY <1>12 DEF RelaySettleLooks
  <2>2. CASE Recorded(About(r)) # None
    <3>1. Reply(r, "ok", Recorded(About(r))) BY <1>12, <2>2 DEF RelaySettleLooks
    <3>2. Recorded(About(r)) \in settled BY <1>4, <2>2 DEF Recorded, TypeOK
    <3> QED BY <1>7, <2>1, <3>1, <3>2 DEF TypeOK
  <2>3. CASE Recorded(About(r)) = None
    <3>1. requests' = (requests \ {r}) \cup {[r EXCEPT !.at = "looked"]} /\ UNCHANGED awaits
      BY <1>12, <2>3 DEF RelaySettleLooks
    <3>2. Relayed' BY <1>8, <2>1, <3>1
    <3> QED BY <1>11, <2>1, <3>1, <3>2 DEF TypeOK
  <2> QED BY <2>2, <2>3
<1>13. CASE RelaySettleChecks(r)
  <2>1. UNCHANGED <<ledger, suspended, recorded, losses>> /\ r.step \notin Locking
    BY <1>13 DEF RelaySettleChecks
  <2>2. CASE Reply(r, "no", None) /\ UNCHANGED peerLock BY <1>7, <2>1, <2>2 DEF TypeOK
  <2>3. CASE /\ Free(peerLock, About(r)) /\ MaySettle(r) /\ peerLock' = [peerLock EXCEPT ![About(r)] = Payment(r)]
             /\ requests' = (requests \ {r}) \cup {[r EXCEPT !.at = "checked"]} /\ UNCHANGED awaits
    <3>1. Payment(r) \in Settlements BY PaymentOf
    <3>2. /\ peerLock[About(r)] = None /\ About(r) \notin revoked' /\ peerLock'[About(r)] = Payment(r)
          /\ peerLock' \in [Balances -> Settlements \cup {None}]
          /\ \A b \in Balances : b # About(r) => peerLock'[b] = peerLock[b]
      BY <1>4, <2>1, <2>3, <3>1 DEF Free, MaySettle, TypeOK
    <3>3. Relayed' BY <1>8, <2>1, <2>3, <3>2
    <3> QED BY <1>11, <2>1, <2>3, <3>2, <3>3
  <2> QED BY <1>13, <2>2, <2>3 DEF RelaySettleChecks
<1>14. CASE RelaySettleRevokes(r)
  <2> DEFINE s == Payment(r)
  <2>1. /\ r.step \notin Locking /\ r.at = "checked" /\ revoked' = revoked \cup {About(r)}
        /\ settled' = settled \cup {s} /\ requests' = (requests \ {r}) \cup {[r EXCEPT !.at = "revoked"]}
        /\ UNCHANGED <<mail, peer, awaits, losses>>
    BY <1>14 DEF RelaySettleRevokes
  <2>2. InHand(r) /\ (~ outlived => About(r) \notin revoked /\ peerLock[About(r)] = Payment(r))
    BY <2>1 DEF InHand, Relayed
  <2>3. s \in Settlements /\ s.of = About(r) BY PaymentOf
  <2>4. Relayed' BY <1>8, <2>1, <2>2
  <2> HIDE DEF s
  <2>5. TypeOK' BY <1>2, <1>4, <2>1, <2>3 DEF TypeOK, Foreign
  <2>6. Waiting' BY <1>2, <2>1 DEF Waiting, Foreign, BalanceOf, Delivered
  <2>7. Holding' BY <1>1, <1>2, <1>3, <2>1, HoldKept
  <2>8. SettledIsRevoked' /\ SpentOnce' BY <1>2, <2>1, <2>2, <2>3, SettleOnce
  <2> QED BY <2>4, <2>5, <2>6, <2>7, <2>8
<1>15. CASE RelaySettleRecords(r)
  <2>1. /\ r.step \notin Locking /\ r.at = "revoked" /\ mail' = mail \cup Notice(r)
        /\ suspended' = suspended \ {About(r)}
        /\ recorded' = [recorded EXCEPT ![About(r)] = IF @ = None THEN Payment(r) ELSE @]
        /\ peerLock' = [peerLock EXCEPT ![About(r)] = IF @ = Payment(r) THEN None ELSE @] /\ Reply(r, "ok", Payment(r))
        /\ UNCHANGED <<revoked, settled, losses>>
    BY <1>15 DEF RelaySettleRecords
  <2>2. InHand(r) /\ Payment(r) \in settled /\ Notice(r) \subseteq settled
    BY <2>1 DEF InHand, Relayed, Notice
  <2>3. StaysPaid /\ settled' \subseteq Settlements BY <1>6, <2>1 DEF TypeOK
  <2>4. Waiting' BY <1>1, <1>2, <2>1, <2>2, <2>3, Replies
  <2>5. TypeOK' BY <1>2, <1>4, <2>1, <2>2 DEF TypeOK, Foreign
  <2>6. Holding' BY <1>1, <1>2, <2>1, HoldKept
  <2>7. Relayed'
    <3>1. \A p \in requests' : p \in requests /\ (InHand(p) /\ ~ outlived => About(p) # About(r))
      BY <2>1, <2>2 DEF Reply, Relayed
    <3>2. \A p \in requests' : InHand(p) /\ ~ outlived => peerLock'[About(p)] = peerLock[About(p)]
      BY <2>1, <3>1 DEF TypeOK, Relayed, About, BalanceOf, Balances
    <3> QED
      BY <1>2, <2>1, <3>1, <3>2 DEF Relayed, InHand, Foreign, About, BalanceOf, Payment, Settlement, Delivered
  <2> QED BY <1>2, <2>1, <2>4, <2>5, <2>6, <2>7, MoneyKept
<1> QED BY <1>9, <1>10, <1>12, <1>13, <1>14, <1>15 DEF Serve

-----------------------------------------------------------------------------
(* The stops.                                                              *)

LEMMA StopNext ==
  ASSUME TradeAssumption, TradeInv, StationStops \/ PeerStops PROVE TradeInv'
<1> USE DEF TradeInv, ledger, peer, locks, handlers, bounds
<1>1. None \notin Claims /\ None \notin Settlements /\ None \notin Waits BY DEF TradeAssumption
<1>2. UNCHANGED <<issuer, listing, ledger, ownerSpent, suspended, recorded, stored, got, answer, losses>>
  BY DEF StationStops, PeerStops, Stop
<1>3. stops' \in 0..MaxStops BY DEF StationStops, PeerStops, Stop, TypeOK, TradeAssumption
<1>4. StaysPaid BY <1>2 DEF StaysPaid, Delivered
<1>5. SettledIsRevoked' /\ SpentOnce'
  <2>1. outlived => outlived' BY DEF StationStops, PeerStops
  <2> QED BY <1>2, <2>1, MoneyKept
<1>6. CASE StationStops
  <2>1. /\ pc' = [c \in Claims |-> IF pc[c] = "new" THEN "new" ELSE "done"] /\ awaits' = [c \in Claims |-> None]
        /\ spendLock' = [b \in Balances |-> None] /\ lease' = [i \in Ids |-> None] /\ UNCHANGED requests
        /\ peerLock' \in {peerLock, Released(Claims)} /\ (outlived' \/ requests = {}) /\ (outlived => outlived')
    BY <1>6 DEF StationStops
  <2>2. peerLock' \in [Balances -> Settlements \cup {None}] BY <2>1, ReleasedType
  <2>3. TypeOK' BY <1>2, <1>3, <2>1, <2>2 DEF TypeOK, Foreign, Steps
  <2>4. Relayed'
    <3>1. CASE outlived' BY <1>1, <1>2, <1>4, <2>1, <3>1, RelayKept
    <3>2. CASE requests = {} BY <2>1, <3>2 DEF Relayed
    <3> QED BY <2>1, <3>1, <3>2
  <2>5. Waiting' BY <2>1 DEF Waiting, Asking
  <2>6. Holding' BY <2>1 DEF Holding, HasChecked, Asking
  <2> QED BY <1>5, <2>3, <2>4, <2>5, <2>6
<1>7. CASE PeerStops
  <2>1. /\ requests' = {} /\ awaits' = HangUp /\ peerLock' = [b \in Balances |-> None] /\ UNCHANGED <<pc, locks>>
    BY <1>7 DEF PeerStops
  <2>2. TypeOK' BY <1>2, <1>3, <2>1 DEF TypeOK, Foreign
  <2>3. Relayed' BY <2>1 DEF Relayed
  <2>4. ASSUME NEW c \in Claims
        PROVE  /\ awaits'[c] \in Waits \cup {None}
               /\ awaits'[c] = awaits[c] \/ (awaits[c] # None /\ awaits'[c] # None /\ awaits'[c].says # "ok")
    <3>1. CASE awaits[c] # None /\ awaits[c].says = "nothing"
      <4>1. awaits[c] \in Waits /\ awaits'[c] = [awaits[c] EXCEPT !.says = "no"]
        BY <2>1, <3>1 DEF Waiting, HangUp, Listens
      <4>2. awaits'[c] \in Waits /\ awaits'[c].says = "no" BY <4>1 DEF Waits
      <4> QED BY <1>1, <3>1, <4>2
    <3>2. CASE ~ (awaits[c] # None /\ awaits[c].says = "nothing") BY <2>1, <3>2 DEF Waiting, HangUp, Listens
    <3> QED BY <3>1, <3>2
  <2>5. awaits' \in [Claims -> Waits \cup {None}] BY <2>1, <2>4 DEF HangUp
  <2>6. Waiting' BY <1>4, <2>1, <2>4, <2>5, WaitKept
  <2>7. Holding' BY <1>1, <1>2, <2>1, HoldKept
  <2> QED BY <1>5, <2>2, <2>3, <2>6, <2>7
<1> QED BY <1>6, <1>7

-----------------------------------------------------------------------------
(* The theorems.                                                           *)

LEMMA TradeInit == ASSUME TradeAssumption, Init PROVE TradeInv
<1>1. TypeOK BY DEF Init, TypeOK, TradeAssumption, Nothing, Steps
<1>2. Relayed /\ Waiting /\ Holding /\ SettledIsRevoked /\ SpentOnce
  BY DEF Init, Relayed, Waiting, Holding, HasChecked, SettledIsRevoked, SpentOnce, Asking
<1> QED BY <1>1, <1>2 DEF TradeInv

LEMMA TradeNext == ASSUME TradeAssumption, TradeInv, [Next]_vars PROVE TradeInv'
<1>1. CASE Submit \/ Withdraw \/ UNCHANGED vars \/ \E b \in Balances : OwnerSpends(b) \/ SuspensionEnds(b)
  BY <1>1, OwnersNext
<1>2. CASE StationStops \/ PeerStops BY <1>2, StopNext
<1>3. ASSUME NEW c \in Claims, Arrive(c) \/ Busy(c) \/ Claim(c) \/ LoseAnswer(c) \/ Outlives(c) PROVE TradeInv'
  BY <1>3, BeginNext, GoingNext, OutlivesNext, SettleNext DEF Claim, Beginning, Going
<1>4. ASSUME NEW r \in requests, Serve(r) \/ LoseRequest(r) PROVE TradeInv' BY <1>4, ServeNext
<1> QED BY <1>1, <1>2, <1>3, <1>4 DEF Next

LEMMA TradeHolds == Spec => []TradeInv
BY TradeAssumption, TradeInit, TradeNext, PTL DEF Spec

\* What the two servers keep is well-formed, and nothing is mailed, recorded,
\* taken back or handed to a claim but a settlement that was made.
THEOREM TypesHold == Spec => []TypeOK
BY TradeHolds, PTL DEF TradeInv

\* A balance is settled at most once and never after its owner spent it
\* elsewhere, whatever is lost or stops, as long as no request outlives its
\* connection: lockSpend at the issuer, and the check of the list under it.
THEOREM BalanceSpentOnce == Spec => []SpentOnce
BY TradeHolds, PTL DEF TradeInv

-----------------------------------------------------------------------------
(* Both legs: what claims, requests and the books say of each other.       *)

Past == {"settleA", "mailA", "close", "refund"}

\* While no request has outlived its connection, each has its claim waiting
\* for it, and a claim has one at most.
Connected ==
  \A r \in requests :
    /\ pc[r.claim] = r.step /\ awaits[r.claim] # None
    /\ awaits[r.claim].try = r.try /\ awaits[r.claim].says = "nothing"
    /\ \A q \in requests : q.claim = r.claim => q = r

\* Once a claim knows a balance unspent, under its lock, nobody else settles it.
Secured(c, leg) ==
  \/ pc[c] \in Past \cup {"settleB"}
  \/ leg = "B" /\ pc[c] = "lockA"
  \/ pc[c] = (IF leg = "B" THEN "lockB" ELSE "lockA") /\ awaits[c] # None /\ awaits[c].says = "ok"
Own ==
  \A c \in Claims, leg \in Legs : Secured(c, leg) =>
    \A s \in settled : s.of = BalanceOf(c, leg) => s.claim = c

\* What a claim has in hand at each step, and what it has been told.
Told(c) == awaits[c] # None /\ awaits[c].says = "ok"
Stage(c) ==
  /\ pc[c] \in Past => Delivered(c).of = Offered[c] /\ Delivered(c).claim = c
  /\ Told(c) /\ pc[c] \notin Locking => awaits[c].payment.of = BalanceOf(c, LegOf(pc[c]))
  /\ Told(c) /\ pc[c] = "settleA" => Delivered(c) \in mail
  /\ pc[c] \in {"mailA", "close"} =>
       got[c]["A"] \in settled /\ got[c]["A"].of = Posted /\ got[c]["A"].claim = c
  /\ pc[c] = "close" => Delivered(c) \in mail

\* What has been recorded, settled and taken back, and by claims at which step.
Books ==
  /\ \A b \in Balances : recorded[b] # None => recorded[b].of = b
  /\ recorded[Posted] # None => Delivered(recorded[Posted].claim) \in mail
  /\ \A s \in settled : s.of = Posted => pc[s.claim] \in Past \cup {"done"}
  /\ \A u \in undone : pc[u.claim] \in {"refund", "done"}

\* Both legs of a claim of requestId i are settled, and will stay so.
Both(i, payment) ==
  /\ payment \in settled /\ payment.of = Posted /\ RequestId[payment.claim] = i
  /\ pc[payment.claim] = "done"
  /\ \E s \in mail \ undone : s.of = Offered[payment.claim] /\ s.claim = payment.claim
Given ==
  /\ \A i \in Ids : stored[i] # None /\ stored[i].result = "settled" => Both(i, stored[i].got)
  /\ \A c \in Claims : answer[c] # None /\ answer[c].result = "settled" =>
       Both(RequestId[c], answer[c].got)

Paying == Connected /\ Own /\ (\A c \in Claims : Stage(c)) /\ Books /\ Given

-----------------------------------------------------------------------------
(* What a step of one claim leaves true of them.                           *)

LEMMA OwnKept ==
  ASSUME TradeInv', Own, UNCHANGED issuer,
         \A c \in Claims, leg \in Legs : Secured(c, leg)' => Secured(c, leg) \/ BalanceOf(c, leg) \notin revoked',
         \A s \in settled' \ settled : spendLock'[s.of] = s.claim
  PROVE  Own'
<1> SUFFICES ASSUME NEW c \in Claims, NEW leg \in Legs, Secured(c, leg)', NEW s \in settled',
                    s.of = BalanceOf(c, leg)
             PROVE  s.claim = c
  BY DEF Own, BalanceOf
<1>1. HasChecked(c, leg)' BY DEF Secured, HasChecked, Past, Asking, Legs
<1>2. spendLock'[BalanceOf(c, leg)] = c BY <1>1 DEF TradeInv, Holding, BalanceOf
<1>3. s.of \in revoked' BY DEF TradeInv, SettledIsRevoked
<1> QED BY <1>2, <1>3 DEF Own

LEMMA BothKept ==
  ASSUME NEW i, NEW payment, Both(i, payment), settled \subseteq settled', mail \subseteq mail',
         \A d \in Claims : pc[d] = "done" => pc'[d] = "done",
         \A u \in undone' \ undone : u.claim \in Claims /\ pc[u.claim] # "done",
         TypeOK
  PROVE  Both(i, payment)'
<1>1. payment.claim \in Claims BY DEF Both, TypeOK, Settlements
<1> QED BY <1>1 DEF Both

\* A step of one claim.
ActsAlone(c) ==
  /\ \A r \in requests : r.claim # c
  /\ UNCHANGED <<issuer, recorded>>
  /\ \A d \in Claims : d # c =>
       pc'[d] = pc[d] /\ awaits'[d] = awaits[d] /\ got'[d] = got[d] /\ answer'[d] = answer[d]
  /\ requests \subseteq requests' /\ settled \subseteq settled' /\ mail \subseteq mail'

LEMMA ClaimKept ==
  ASSUME TradeInv, TradeInv', Paying, NEW c \in Claims, ActsAlone(c), pc[c] # "done",
         \A r \in requests' \ requests :
           /\ r.claim = c /\ pc'[c] = r.step /\ awaits'[c] # None
           /\ awaits'[c].try = r.try /\ awaits'[c].says = "nothing"
           /\ \A q \in requests' \ requests : q = r,
         \A leg \in Legs : Secured(c, leg)' => Secured(c, leg) \/ BalanceOf(c, leg) \notin revoked',
         \A s \in settled' \ settled :
           s.claim = c /\ spendLock'[s.of] = c /\ (s.of = Posted => pc'[c] \in Past),
         pc[c] \in Past => pc'[c] \in Past \cup {"done"}, pc[c] = "refund" => pc'[c] \in {"refund", "done"},
         \A u \in undone' \ undone : u.claim = c /\ pc'[c] = "refund",
         got'[c]["B"] = got[c]["B"] \/ pc[c] = "settleB",
         Stage(c)',
         \A i \in Ids : stored'[i] = stored[i] \/
           (stored'[i] # None /\ stored'[i].result = "settled" => Both(i, stored[i].got)'),
         answer'[c] = answer[c] \/
           (answer'[c] # None /\ answer'[c].result = "settled" => Both(RequestId[c], answer[c].got)')
  PROVE  Paying'
<1>1. Connected'
  <2>1. ASSUME NEW r \in requests', NEW q \in requests', q.claim = r.claim PROVE q = r
    BY <2>1 DEF Paying, Connected, ActsAlone
  <2>2. ASSUME NEW r \in requests, r \in requests'
        PROVE  pc'[r.claim] = pc[r.claim] /\ awaits'[r.claim] = awaits[r.claim]
    BY <2>2 DEF ActsAlone, TradeInv, Relayed
  <2> QED BY <2>1, <2>2 DEF Paying, Connected
<1>2. Own'
  <2>1. \A d \in Claims, leg \in Legs : d # c => (Secured(d, leg)' <=> Secured(d, leg))
    BY DEF ActsAlone, Secured
  <2> QED BY <2>1, OwnKept DEF ActsAlone, Paying
<1>3. \A d \in Claims : Stage(d)'
  <2>1. ASSUME NEW d \in Claims, d # c PROVE Stage(d)'
    BY <2>1 DEF Paying, Stage, Told, ActsAlone, Delivered, BalanceOf
  <2> QED BY <2>1
<1>4. Books'
  <2>1. \A s \in settled : s.claim \in Claims BY DEF TradeInv, TypeOK, Settlements
  <2>2. \A s \in settled : s.of = Posted => pc'[s.claim] \in Past \cup {"done"}
    BY <2>1 DEF Paying, Books, ActsAlone
  <2>3. \A u \in undone : pc'[u.claim] \in {"refund", "done"}
    BY <2>1 DEF Paying, Books, ActsAlone, TradeInv, TypeOK
  <2>4. ASSUME recorded[Posted] # None PROVE Delivered(recorded[Posted].claim)' \in mail'
    <3>1. recorded[Posted] \in settled /\ recorded[Posted].of = Posted
      BY <2>4 DEF TradeInv, TypeOK, Paying, Books, Balances
    <3>2. Delivered(recorded[Posted].claim)' = Delivered(recorded[Posted].claim)
      BY <2>1, <3>1 DEF Paying, Books, ActsAlone, Delivered, Past
    <3> QED BY <2>4, <3>2 DEF Paying, Books, ActsAlone
  <2> QED BY <2>2, <2>3, <2>4 DEF Books, ActsAlone, Paying
<1>5. Given'
  <2>1. ASSUME NEW i, NEW payment, Both(i, payment) PROVE Both(i, payment)'
    BY <2>1, BothKept DEF ActsAlone, TradeInv
  <2>2. ASSUME NEW i \in Ids, stored'[i] # None, stored'[i].result = "settled" PROVE Both(i, stored[i].got)'
    <3>1. CASE stored'[i] = stored[i]
      <4>1. Both(i, stored[i].got) BY <2>2, <3>1 DEF Paying, Given
      <4>2. Both(i, stored[i].got)' BY <2>1, <3>1, <4>1 DEF Both
      <4> QED BY <4>2
    <3> QED BY <2>2, <3>1
  <2>3. ASSUME NEW d \in Claims, answer'[d] # None, answer'[d].result = "settled"
        PROVE  Both(RequestId[d], answer[d].got)'
    <3>1. CASE answer'[d] = answer[d]
      <4>1. Both(RequestId[d], answer[d].got) BY <2>3, <3>1 DEF Paying, Given
      <4>2. Both(RequestId[d], answer[d].got)' BY <2>1, <3>1, <4>1 DEF Both
      <4> QED BY <4>2
    <3> QED BY <2>3, <3>1 DEF ActsAlone
  <2> QED BY <2>2, <2>3 DEF Given
<1> QED BY <1>1, <1>2, <1>3, <1>4, <1>5 DEF Paying

\* A claim that is answered for good, or with what another was answered.
LEMMA EndPays ==
  ASSUME TradeInv, TradeInv', Paying, NEW c \in Claims, NEW outcome, EndWith(c, outcome), pc[c] # "done",
         \A r \in requests : r.claim # c,
         UNCHANGED <<issuer, recorded, requests, settled, mail, undone, got>>,
         stored' \in {stored, [stored EXCEPT ![RequestId[c]] = outcome]},
         outcome.result = "settled" =>
           /\ outcome.got \in settled /\ outcome.got.of = Posted
           /\ RequestId[outcome.got.claim] = RequestId[c]
           /\ outcome.got.claim = c \/ pc[outcome.got.claim] = "done"
           /\ \E s \in mail \ undone : s.of = Offered[outcome.got.claim] /\ s.claim = outcome.got.claim
  PROVE  Paying'
<1>1. \A d \in Claims : /\ pc'[d] = IF d = c THEN "done" ELSE pc[d]
                        /\ answer'[d] = IF d = c THEN outcome ELSE answer[d]
                        /\ awaits'[d] = IF d = c THEN None ELSE awaits[d]
  BY DEF EndWith, TradeInv, TypeOK, Waiting
<1>2. ActsAlone(c) BY <1>1 DEF ActsAlone
<1>3. \A leg \in Legs : ~ Secured(c, leg)' BY <1>1 DEF Secured, Past
<1>4. Stage(c)' BY <1>1 DEF Stage, Past, Told
<1>5. outcome.result = "settled" => Both(RequestId[c], outcome.got)'
  <2> SUFFICES ASSUME outcome.result = "settled" PROVE Both(RequestId[c], outcome.got)' OBVIOUS
  <2>1. outcome.got.claim \in Claims BY DEF TradeInv, TypeOK, Settlements
  <2> QED BY <1>1, <2>1 DEF Both
<1>6. answer'[c] # None /\ answer'[c].result = "settled" => Both(RequestId[c], answer[c].got)'
  BY <1>1, <1>5 DEF Both
<1>7. ASSUME NEW i \in Ids
      PROVE  stored'[i] = stored[i] \/
               (stored'[i] # None /\ stored'[i].result = "settled" => Both(i, stored[i].got)')
  <2>1. stored'[i] = stored[i] \/ (i = RequestId[c] /\ stored'[i] = outcome) BY DEF TradeInv, TypeOK
  <2> QED BY <1>5, <2>1 DEF Both
<1> QED BY <1>1, <1>2, <1>3, <1>4, <1>6, <1>7, ClaimKept DEF Past

\* A claim that goes on to a leg.
LEMMA EnterPays ==
  ASSUME TradeInv, TradeInv', Paying, NEW c \in Claims, NEW step \in Asking, NEW try, Enter(c, step, try),
         \A r \in requests : r.claim # c,
         pc[c] \notin {"done", "refund"}, pc[c] \in Past => step = "settleA",
         UNCHANGED <<issuer, recorded, mail, undone, stored, answer>>,
         \A leg \in Legs : Secured(c, leg)' => Secured(c, leg) \/ BalanceOf(c, leg) \notin revoked',
         settled \subseteq settled',
         \A s \in settled' \ settled : s.claim = c /\ spendLock'[s.of] = c /\ s.of # Posted,
         \A d \in Claims : d # c => got'[d] = got[d],
         got'[c]["B"] = got[c]["B"] \/ pc[c] = "settleB",
         step = "settleA" => got'[c]["B"].of = Offered[c] /\ got'[c]["B"].claim = c
  PROVE  Paying'
<1> DEFINE w == [try |-> try, says |-> "nothing", payment |-> None]
           q == [claim |-> c, step |-> step, try |-> try, at |-> "sent"]
<1>1. \A d \in Claims : pc'[d] = IF d = c THEN step ELSE pc[d] BY DEF Enter, Moves, TradeInv, TypeOK
<1>2. \A d \in Claims : d # c => awaits'[d] = awaits[d] BY DEF Enter, TradeInv, Waiting
<1>3. \/ awaits'[c] = None /\ requests' = requests
      \/ awaits'[c] = w /\ requests' = requests \cup {q}
  BY DEF Enter, TradeInv, Waiting
<1>4. ActsAlone(c) BY <1>1, <1>2, <1>3 DEF ActsAlone
<1>5. Stage(c)'
  <2>1. ~ Told(c)' BY <1>3 DEF Told
  <2> QED BY <1>1, <2>1 DEF Stage, Past, Asking, Delivered
<1>6. awaits'[c] # None => awaits'[c] = w BY <1>3
<1>7. \A r \in requests' \ requests :
        /\ r.claim = c /\ pc'[c] = r.step /\ awaits'[c] # None
        /\ awaits'[c].try = r.try /\ awaits'[c].says = "nothing"
        /\ \A p \in requests' \ requests : p = r
  <2> SUFFICES ASSUME NEW r \in requests' \ requests
               PROVE /\ r.claim = c /\ pc'[c] = r.step /\ awaits'[c] # None
                     /\ awaits'[c].try = r.try /\ awaits'[c].says = "nothing"
                     /\ \A p \in requests' \ requests : p = r
    OBVIOUS
  <2>1. requests' = requests \cup {q} /\ r = q /\ awaits'[c] = w BY <1>3
  <2>2. awaits'[c] # None
    <3>1. pc'[c] \in Asking /\ Foreign(BalanceOf(c, LegOf(step)))
      BY <1>1, <2>1 DEF Enter
    <3> QED BY <1>1, <3>1 DEF TradeInv, Waiting, Foreign, BalanceOf
  <2> QED BY <1>1, <2>1, <2>2
<1>8. \A i \in Ids : stored'[i] = stored[i] OBVIOUS
<1> HIDE DEF w, q
<1> QED BY <1>1, <1>4, <1>5, <1>7, <1>8, ClaimKept DEF Past

\* A claim at rest, or that has been told, has no request on its way.
LEMMA NoneOnItsWay ==
  ASSUME TradeInv, Paying, NEW c \in Claims,
         pc[c] \notin Asking \/ awaits[c] = None \/ awaits[c].says # "nothing"
  PROVE  \A r \in requests : r.claim # c
BY DEF TradeInv, Relayed, Paying, Connected

\* A balance of the station's own that a claim has locked and not settled is unspent.
LEMMA HeldIsUnspent ==
  ASSUME TradeInv', NEW c \in Claims, NEW leg \in Legs, HasChecked(c, leg)', ~ HasSettled(c, leg)',
         ~ Foreign(BalanceOf(c, leg)), UNCHANGED issuer
  PROVE  BalanceOf(c, leg) \notin revoked'
BY DEF TradeInv, Holding, BalanceOf, Foreign

LEMMA BeginPays ==
  ASSUME TradeAssumption, TradeInv, TradeInv', Paying, NEW c \in Claims, Beginning(c) PROVE Paying'
<1> USE DEF ledger, peer, locks, handlers, bounds
<1>1. pc[c] \in {"new", "checkB", "checkA"}
  BY DEF Beginning, Arrive, Busy, CheckOffered, CheckPosted, DropListing
<1>2. \A r \in requests : r.claim # c BY <1>1, NoneOnItsWay DEF Asking
<1>3. UNCHANGED <<issuer, ledger, ownerSpent, peer, stored, got>>
  BY DEF Beginning, Arrive, Busy, CheckOffered, CheckPosted, DropListing
<1>4. ASSUME NEW outcome \in {Refusal, TryLater}, EndWith(c, outcome), UNCHANGED requests PROVE Paying'
  <2>1. outcome.result # "settled" BY DEF Refusal, TryLater
  <2> QED BY <1>1, <1>2, <1>3, <1>4, <2>1, EndPays
<1>5. ASSUME NEW step \in {"checkB", "checkA"}, pc' = [pc EXCEPT ![c] = step], UNCHANGED <<answer, awaits, requests>>
      PROVE  Paying'
  <2>1. \A d \in Claims : pc'[d] = IF d = c THEN step ELSE pc[d] BY <1>5 DEF TradeInv, TypeOK
  <2>2. awaits[c] = None BY <1>1 DEF TradeInv, Waiting, Asking
  <2>3. ActsAlone(c) BY <1>2, <1>3, <1>5, <2>1 DEF ActsAlone
  <2>4. Stage(c)' BY <1>5, <2>1, <2>2 DEF Stage, Past, Told
  <2>5. \A leg \in Legs : ~ Secured(c, leg)' BY <2>1 DEF Secured, Past
  <2> QED BY <1>1, <1>3, <1>5, <2>3, <2>4, <2>5, ClaimKept DEF Past
<1>6. CASE Arrive(c)
  <2>1. CASE stored[RequestId[c]] # None
    <3>1. EndWith(c, stored[RequestId[c]]) /\ UNCHANGED requests BY <1>6, <2>1 DEF Arrive
    <3>2. stored[RequestId[c]].result = "settled" => Both(RequestId[c], stored[RequestId[c]].got)
      BY <2>1 DEF Paying, Given, Ids
    <3> QED BY <1>1, <1>2, <1>3, <3>1, <3>2, EndPays DEF Both
  <2>2. CASE stored[RequestId[c]] = None BY <1>4, <1>5, <1>6, <2>2 DEF Arrive, Moves
  <2> QED BY <2>1, <2>2
<1>7. CASE Busy(c) BY <1>4, <1>7 DEF Busy
<1>8. CASE DropListing(c) BY <1>4, <1>8 DEF DropListing
<1>9. CASE CheckOffered(c) BY <1>4, <1>5, <1>9 DEF CheckOffered, Moves
<1>10. CASE CheckPosted(c)
  <2>1. FirstStep(c) \in {"lockB", "lockA", "settleB"} /\ (FirstStep(c) # "lockB" => ~ Foreign(Offered[c]))
        /\ (FirstStep(c) = "settleB" => ~ Foreign(Posted))
    BY DEF FirstStep, SecondStep
  <2>2. Enter(c, FirstStep(c), 1) /\ UNCHANGED answer BY <1>10 DEF CheckPosted
  <2>3. pc'[c] = FirstStep(c) BY <2>2 DEF Enter, Moves, TradeInv, TypeOK
  <2>4. awaits'[c] = None \/ awaits'[c].says = "nothing"
    <3>1. awaits' \in {[awaits EXCEPT ![c] = None],
                       [awaits EXCEPT ![c] = [try |-> 1, says |-> "nothing", payment |-> None]]}
      BY <2>2 DEF Enter
    <3> QED BY <3>1 DEF TradeInv, Waiting
  <2>5. ASSUME NEW leg \in Legs, Secured(c, leg)' PROVE BalanceOf(c, leg) \notin revoked'
    <3>1. /\ FirstStep(c) \in {"lockA", "settleB"} /\ (FirstStep(c) = "lockA" => leg = "B")
      BY <2>1, <2>3, <2>4, <2>5 DEF Secured, Past
    <3>2. ~ Foreign(BalanceOf(c, leg)) BY <2>1, <3>1 DEF BalanceOf, Legs
    <3>3. HasChecked(c, leg)' /\ ~ HasSettled(c, leg)' BY <2>3, <3>1 DEF HasChecked, HasSettled, Asking
    <3> QED BY <1>3, <3>2, <3>3, HeldIsUnspent
  <2> QED BY <1>1, <1>2, <1>3, <2>1, <2>2, <2>5, EnterPays DEF Past, Asking
<1> QED BY <1>6, <1>7, <1>8, <1>9, <1>10 DEF Beginning

\* What becomes secured by going on to a leg: one that is told to be locked, or
\* one of the station's own.
LEMMA SecuredByEntering ==
  ASSUME TradeInv, TradeInv', NEW c \in Claims, NEW step \in Asking, NEW try, Enter(c, step, try),
         UNCHANGED issuer, pc[c] \in Asking, pc[c] \in Locking => awaits[c] # None /\ awaits[c].says = "ok",
         \/ step = pc[c] /\ pc[c] \notin Locking
         \/ pc[c] = "lockB" /\ step = SecondStep(c)
         \/ pc[c] = "lockA" /\ step = "settleB"
         \/ pc[c] = "settleB" /\ step = "settleA"
  PROVE  /\ pc'[c] = step
         /\ \A leg \in Legs : Secured(c, leg)' => Secured(c, leg) \/ BalanceOf(c, leg) \notin revoked'
<1>1. pc'[c] = step BY DEF Enter, Moves, TradeInv, TypeOK
<1>2. awaits'[c] = None \/ awaits'[c].says = "nothing"
  <2>1. awaits' \in {[awaits EXCEPT ![c] = None],
                     [awaits EXCEPT ![c] = [try |-> try, says |-> "nothing", payment |-> None]]}
    BY DEF Enter
  <2> QED BY <2>1 DEF TradeInv, Waiting
<1>3. ASSUME NEW leg \in Legs, Secured(c, leg)', ~ Secured(c, leg) PROVE BalanceOf(c, leg) \notin revoked'
  <2>1. pc[c] = "lockB" /\ step = "settleB" /\ leg = "A"
    <3>1. pc[c] \in Locking BY <1>1, <1>2, <1>3 DEF Secured, Past, Asking, Locking
    <3> QED BY <1>1, <1>2, <1>3, <3>1 DEF Secured, Past, Locking, SecondStep, Legs
  <2>2. ~ Foreign(BalanceOf(c, leg)) BY <2>1 DEF SecondStep, BalanceOf
  <2>3. HasChecked(c, leg)' /\ ~ HasSettled(c, leg)' BY <1>1, <2>1 DEF HasChecked, HasSettled, Asking
  <2> QED BY <2>2, <2>3, HeldIsUnspent
<1> QED BY <1>1, <1>3

\* The payments a claim is told of, or has in hand, are its own.
LEMMA ToldOfOwn ==
  ASSUME TradeInv, Paying, NEW c \in Claims, Told(c), pc[c] \notin Locking
  PROVE  /\ awaits[c].payment \in settled /\ awaits[c].payment.claim = c
         /\ awaits[c].payment.of = BalanceOf(c, LegOf(pc[c]))
<1>1. pc[c] \in {"settleB", "settleA"} BY DEF TradeInv, Waiting, Told, Asking, Locking
<1>2. awaits[c].payment \in settled /\ awaits[c].payment.of = BalanceOf(c, LegOf(pc[c]))
  BY DEF TradeInv, Waiting, Told, Paying, Stage
<1>3. LegOf(pc[c]) \in Legs /\ Secured(c, LegOf(pc[c])) BY <1>1 DEF LegOf, Legs, Secured, Past
<1> QED BY <1>2, <1>3 DEF Paying, Own

LEMMA GoingPays ==
  ASSUME TradeAssumption, TradeInv, TradeInv', Paying, NEW c \in Claims, Going(c) PROVE Paying'
<1> USE DEF ledger, peer, locks, handlers, bounds
<1>1. /\ UNCHANGED <<issuer, revoked, settled, mail, ownerSpent, peer, got>>
      /\ pc[c] \in {"lockB", "lockA", "settleB", "settleA", "refund", "close"}
      /\ awaits[c] = None \/ awaits[c].says # "nothing"
  <2>1. UNCHANGED <<issuer, revoked, settled, mail, ownerSpent, peer, got>>
    BY DEF Going, LockAnswered, TriesAgain, FirstLegFails, LoseAnswer, SecondLegFails, Refund, Close
  <2>2. pc[c] \in {"lockB", "lockA", "settleB", "settleA", "refund", "close"}
    BY DEF Going, LockAnswered, TriesAgain, FirstLegFails, LoseAnswer, SecondLegFails, Refund, Close,
           TradeInv, Waiting, Asking
  <2>3. awaits[c] = None \/ awaits[c].says # "nothing"
    BY DEF Going, LockAnswered, TriesAgain, FirstLegFails, LoseAnswer, SecondLegFails, Refund, Close,
           LegFails, TradeInv, Waiting, Asking, BalanceOf, LegOf
  <2> QED BY <2>1, <2>2, <2>3
<1>2. \A r \in requests : r.claim # c BY <1>1, NoneOnItsWay
<1>3. CASE LockAnswered(c)
  <2>1. CASE awaits[c].says = "no"
    <3>1. Refusal.result # "settled" BY DEF Refusal
    <3> QED BY <1>1, <1>2, <1>3, <2>1, <3>1, EndPays DEF LockAnswered
  <2>2. CASE awaits[c].says # "no"
    <3> DEFINE step == IF pc[c] = "lockB" THEN SecondStep(c) ELSE "settleB"
    <3>1. step \in {"lockA", "settleB"} BY DEF SecondStep
    <3>2. Enter(c, step, 1) /\ UNCHANGED <<answer, stored, undone>> BY <1>3, <2>2 DEF LockAnswered
    <3>3. pc[c] \in {"lockB", "lockA"} /\ awaits[c] # None /\ awaits[c].says = "ok"
      BY <1>3, <2>2 DEF LockAnswered, TradeInv, Waiting, Waits
    <3>4. \/ pc[c] = "lockB" /\ step = SecondStep(c)
          \/ pc[c] = "lockA" /\ step = "settleB"
      BY <3>3
    <3> HIDE DEF step
    <3>5. \A leg \in Legs : Secured(c, leg)' => Secured(c, leg) \/ BalanceOf(c, leg) \notin revoked'
      BY <1>1, <3>1, <3>2, <3>3, <3>4, SecuredByEntering DEF Asking
    <3> QED BY <1>1, <1>2, <3>1, <3>2, <3>3, <3>5, EnterPays DEF Past, Asking
  <2> QED BY <2>1, <2>2
<1>4. CASE TriesAgain(c)
  <2>1. pc[c] \in {"settleB", "settleA"} BY <1>1, <1>4 DEF TriesAgain, Locking, TradeInv, Waiting, Asking
  <2>2. Enter(c, pc[c], 2) /\ UNCHANGED <<answer, stored, undone>> BY <1>4 DEF TriesAgain
  <2>3. \A leg \in Legs : Secured(c, leg)' => Secured(c, leg) \/ BalanceOf(c, leg) \notin revoked'
    BY <1>1, <2>1, <2>2, SecuredByEntering DEF Asking, Locking
  <2>4. pc[c] = "settleA" => got'[c]["B"].of = Offered[c] /\ got'[c]["B"].claim = c
    BY <1>1 DEF Paying, Stage, Past, Delivered
  <2> QED BY <1>1, <1>2, <2>1, <2>2, <2>3, <2>4, EnterPays DEF Past, Asking
<1>5. CASE FirstLegFails(c)
  <2>1. Unresolved.result # "settled" BY DEF Unresolved
  <2> QED BY <1>1, <1>2, <1>5, <2>1, EndPays DEF FirstLegFails
<1>6. \A refunded \in BOOLEAN : Incomplete(refunded).result # "settled" BY DEF Incomplete
<1>7. CASE Refund(c)
  <2>1. PICK refunded \in BOOLEAN : EndIncomplete(c, refunded) BY <1>7 DEF Refund
  <2>2. UNCHANGED <<requests, undone>> BY <1>7 DEF Refund
  <2> QED BY <1>1, <1>2, <1>6, <2>1, <2>2, EndPays DEF EndIncomplete
<1>8. CASE Close(c)
  <2> DEFINE p == got[c]["A"]
  <2>1. p \in settled /\ p.of = Posted /\ p.claim = c /\ Delivered(c) \in mail
    BY <1>8 DEF Close, Paying, Stage
  <2>2. Delivered(c).of = Offered[c] /\ Delivered(c).claim = c BY <1>8 DEF Close, Paying, Stage, Past
  <2>3. Delivered(c) \notin undone BY <1>8, <2>2 DEF Close, Paying, Books
  <2>4. Settled(p).got = p BY DEF Settled
  <2>5. \E s \in mail \ undone : s.of = Offered[Settled(p).got.claim] /\ s.claim = Settled(p).got.claim
    BY <2>1, <2>2, <2>3, <2>4
  <2>6. EndWith(c, Settled(p)) /\ stored' = [stored EXCEPT ![RequestId[c]] = Settled(p)] /\ UNCHANGED <<requests, undone>>
    BY <1>8 DEF Close
  <2> HIDE DEF p
  <2> QED BY <1>1, <1>2, <2>1, <2>4, <2>5, <2>6, EndPays
<1>9. CASE SecondLegFails(c)
  <2>1. CASE Foreign(Offered[c])
    BY <1>1, <1>2, <1>6, <1>9, <2>1, EndPays DEF SecondLegFails, EndIncomplete
  <2>2. CASE ~ Foreign(Offered[c])
    <3>1. /\ pc[c] = "settleA" /\ undone' = undone \cup {Delivered(c)} /\ pc' = [pc EXCEPT ![c] = "refund"]
          /\ awaits' = [awaits EXCEPT ![c] = None] /\ UNCHANGED <<stored, answer, requests>>
      BY <1>9, <2>2 DEF SecondLegFails, Moves
    <3>2. \A d \in Claims : /\ pc'[d] = IF d = c THEN "refund" ELSE pc[d]
                            /\ awaits'[d] = IF d = c THEN None ELSE awaits[d]
      BY <3>1 DEF TradeInv, TypeOK, Waiting
    <3>3. ActsAlone(c) BY <1>1, <1>2, <3>1, <3>2 DEF ActsAlone
    <3>4. Delivered(c).of = Offered[c] /\ Delivered(c).claim = c BY <3>1 DEF Paying, Stage, Past
    <3>5. Stage(c)' BY <1>1, <3>2, <3>4 DEF Stage, Past, Told, Delivered
    <3>6. \A leg \in Legs : Secured(c, leg) BY <3>1 DEF Secured, Past
    <3> QED BY <1>1, <3>1, <3>2, <3>3, <3>4, <3>5, <3>6, ClaimKept DEF Past
  <2> QED BY <2>1, <2>2
<1>10. CASE LoseAnswer(c)
  <2>1. /\ awaits[c] # None /\ awaits[c].says = "ok" /\ awaits' = [awaits EXCEPT ![c].says = "no", ![c].payment = None]
        /\ UNCHANGED <<pc, stored, answer, requests, undone>>
    BY <1>10 DEF LoseAnswer
  <2>2. awaits[c] \in Waits BY <2>1 DEF TradeInv, Waiting
  <2>3. awaits'[c] # None /\ awaits'[c].says = "no" /\ \A d \in Claims : d # c => awaits'[d] = awaits[d]
    <3>1. awaits'[c] = [awaits[c] EXCEPT !.says = "no", !.payment = None]
          /\ \A d \in Claims : d # c => awaits'[d] = awaits[d]
      BY <2>1 DEF TradeInv, Waiting
    <3>2. awaits'[c] \in Waits /\ awaits'[c].says = "no" BY <2>2, <3>1 DEF Waits
    <3> QED BY <3>1, <3>2 DEF TradeAssumption
  <2>4. ActsAlone(c) BY <1>1, <1>2, <2>1, <2>3 DEF ActsAlone
  <2>5. Stage(c)' BY <1>1, <2>1, <2>3 DEF Stage, Told, Delivered, Paying
  <2>6. \A leg \in Legs : Secured(c, leg)' => Secured(c, leg) BY <2>1, <2>3 DEF Secured
  <2> QED BY <1>1, <2>1, <2>4, <2>5, <2>6, ClaimKept DEF Past
<1> QED BY <1>3, <1>4, <1>5, <1>7, <1>8, <1>9, <1>10 DEF Going

Settling(c) == SettleOffered(c) \/ SettlePosted(c) \/ MailPoster(c) \/ SettleAnswered(c)

LEMMA SettlingPays ==
  ASSUME TradeAssumption, TradeInv, TradeInv', Paying, NEW c \in Claims, Settling(c) PROVE Paying'
<1> USE DEF ledger, peer, locks, handlers, bounds
<1>1. /\ UNCHANGED <<issuer, recorded, undone, spendLock, stored, answer>>
      /\ pc[c] \in {"settleB", "settleA", "mailA"}
      /\ awaits[c] = None \/ awaits[c].says # "nothing"
      /\ settled \subseteq settled' /\ mail \subseteq mail'
  <2>1. UNCHANGED <<issuer, recorded, undone, spendLock, stored, answer>>
    BY DEF Settling, SettleOffered, SettlePosted, MailPoster, SettleAnswered
  <2>2. settled \subseteq settled' /\ mail \subseteq mail'
    BY DEF Settling, SettleOffered, SettlePosted, MailPoster, SettleAnswered
  <2>3. pc[c] \in {"settleB", "settleA", "mailA"}
    BY DEF Settling, SettleOffered, SettlePosted, MailPoster, SettleAnswered, TradeInv, Waiting, Asking,
       Locking
  <2>4. awaits[c] = None \/ awaits[c].says # "nothing"
    BY DEF Settling, SettleOffered, SettlePosted, MailPoster, SettleAnswered,
           TradeInv, Waiting, Asking, BalanceOf, LegOf
  <2> QED BY <2>1, <2>2, <2>3, <2>4
<1>2. \A r \in requests : r.claim # c BY <1>1, NoneOnItsWay
<1>3. \A leg \in Legs : Secured(c, leg) BY <1>1 DEF Secured, Past
<1>4. spendLock[Posted] = c /\ spendLock[Offered[c]] = c
  BY <1>1 DEF TradeInv, Holding, HasChecked, Asking, BalanceOf, Legs
<1>5. got \in [Claims -> [Legs -> settled \cup {None}]] /\ Offered[c] # Posted
  BY DEF TradeInv, TypeOK, TradeAssumption
<1>6. CASE SettleOffered(c)
  <2> DEFINE s == Settlement(c, "B", 0)
  <2>1. s.claim = c /\ s.of = Offered[c] BY DEF Settlement, BalanceOf
  <2>2. /\ pc[c] = "settleB" /\ settled' = settled \cup {s} /\ got' = [got EXCEPT ![c]["B"] = s]
        /\ Enter(c, "settleA", 1) /\ UNCHANGED mail
    BY <1>6 DEF SettleOffered
  <2> HIDE DEF s
  <2>3. got'[c]["B"] = s /\ \A d \in Claims : d # c => got'[d] = got[d] BY <1>5, <2>2 DEF Legs
  <2> QED BY <1>1, <1>2, <1>3, <1>4, <1>5, <2>1, <2>2, <2>3, EnterPays DEF Asking, Past
<1>7. CASE SettlePosted(c)
  <2> DEFINE s == Settlement(c, "A", 0)
  <2>1. s.claim = c /\ s.of = Posted BY DEF Settlement, BalanceOf
  <2>2. /\ pc[c] = "settleA" /\ settled' = settled \cup {s} /\ got' = [got EXCEPT ![c]["A"] = s]
        /\ pc' = [pc EXCEPT ![c] = "mailA"] /\ UNCHANGED <<mail, awaits, requests>> /\ awaits[c] = None
    BY <1>7 DEF SettlePosted, Moves, TradeInv, Waiting, Asking, BalanceOf, LegOf
  <2> HIDE DEF s
  <2>3. got'[c]["A"] = s /\ got'[c]["B"] = got[c]["B"] /\ \A d \in Claims : d # c => got'[d] = got[d]
    BY <1>5, <2>2 DEF Legs
  <2>4. \A d \in Claims : pc'[d] = IF d = c THEN "mailA" ELSE pc[d] BY <2>2 DEF TradeInv, TypeOK
  <2>5. ActsAlone(c) BY <1>1, <1>2, <2>2, <2>3, <2>4 DEF ActsAlone
  <2>6. Stage(c)' BY <2>1, <2>2, <2>3, <2>4 DEF Stage, Past, Told, Paying, Delivered
  <2> QED BY <1>1, <1>3, <1>4, <2>1, <2>2, <2>3, <2>4, <2>5, <2>6, ClaimKept DEF Past
<1>8. CASE MailPoster(c)
  <2>1. /\ pc[c] = "mailA" /\ mail' = mail \cup {Delivered(c)} /\ pc' = [pc EXCEPT ![c] = "close"]
        /\ UNCHANGED <<settled, got, awaits, requests>> /\ awaits[c] = None
    BY <1>8 DEF MailPoster, Moves, TradeInv, Waiting, Asking
  <2>2. \A d \in Claims : pc'[d] = IF d = c THEN "close" ELSE pc[d] BY <2>1 DEF TradeInv, TypeOK
  <2>3. ActsAlone(c) BY <1>1, <1>2, <2>1, <2>2 DEF ActsAlone
  <2>4. Stage(c)' BY <2>1, <2>2 DEF Stage, Past, Told, Paying, Delivered
  <2> QED BY <1>1, <1>3, <2>1, <2>2, <2>3, <2>4, ClaimKept DEF Past
<1>9. CASE SettleAnswered(c)
  <2> DEFINE s == awaits[c].payment
  <2>1. s \in settled /\ s.claim = c /\ s.of = BalanceOf(c, LegOf(pc[c]))
    BY <1>9, ToldOfOwn DEF SettleAnswered, Told
  <2>2. got' = [got EXCEPT ![c][LegOf(pc[c])] = s] /\ UNCHANGED <<settled, mail>> /\ Told(c)
    BY <1>9 DEF SettleAnswered, Told
  <2>3. pc[c] \in {"settleB", "settleA"} BY <1>1, <2>2 DEF TradeInv, Waiting, Told, Asking
  <2>4. CASE pc[c] = "settleB"
    <3>1. Enter(c, "settleA", 1) /\ got' = [got EXCEPT ![c]["B"] = s] /\ s.of = Offered[c]
      BY <1>9, <2>1, <2>2, <2>4 DEF SettleAnswered, LegOf, BalanceOf
    <3> HIDE DEF s
    <3>2. got'[c]["B"] = s /\ \A d \in Claims : d # c => got'[d] = got[d] BY <1>5, <3>1 DEF Legs
    <3> QED BY <1>1, <1>2, <1>3, <2>1, <2>2, <2>4, <3>1, <3>2, EnterPays DEF Asking, Past
  <2>5. CASE pc[c] = "settleA"
    <3>1. /\ pc' = [pc EXCEPT ![c] = "close"] /\ awaits' = [awaits EXCEPT ![c] = None] /\ UNCHANGED requests
          /\ got' = [got EXCEPT ![c]["A"] = s] /\ s.of = Posted /\ Delivered(c) \in mail
      BY <1>9, <2>1, <2>2, <2>5 DEF SettleAnswered, Moves, LegOf, BalanceOf, Paying, Stage
    <3> HIDE DEF s
    <3>2. got'[c]["A"] = s /\ got'[c]["B"] = got[c]["B"] /\ \A d \in Claims : d # c => got'[d] = got[d]
      BY <1>5, <3>1 DEF Legs
    <3>3. \A d \in Claims : /\ pc'[d] = IF d = c THEN "close" ELSE pc[d]
                            /\ awaits'[d] = IF d = c THEN None ELSE awaits[d]
      BY <3>1 DEF TradeInv, TypeOK, Waiting
    <3>4. ActsAlone(c) BY <1>1, <1>2, <3>1, <3>2, <3>3 DEF ActsAlone
    <3>5. Stage(c)' BY <2>1, <2>2, <2>5, <3>1, <3>2, <3>3 DEF Stage, Past, Told, Paying, Delivered
    <3> QED BY <1>1, <1>3, <2>2, <2>5, <3>1, <3>2, <3>3, <3>4, <3>5, ClaimKept DEF Past
  <2> QED BY <2>3, <2>4, <2>5
<1> QED BY <1>6, <1>7, <1>8, <1>9 DEF Settling

-----------------------------------------------------------------------------
(* The other domain.                                                       *)

LEMMA OfRequest ==
  ASSUME TradeAssumption, TradeInv, Paying, NEW r \in requests
  PROVE  /\ r.claim \in Claims /\ r.step \in Asking /\ pc[r.claim] = r.step
         /\ spendLock[About(r)] = r.claim /\ About(r) \in Balances
         /\ r.step \in {"settleB", "settleA"} => Secured(r.claim, LegOf(r.step))
         /\ r.step \notin Locking => r.step \in {"settleB", "settleA"}
         /\ About(r) = Posted <=> LegOf(r.step) = "A"
<1>1. r.claim \in Claims /\ r.step \in Asking /\ pc[r.claim] = r.step
  BY DEF TradeInv, Relayed, Paying, Connected
<1>2. LegOf(r.step) \in Legs /\ HasChecked(r.claim, LegOf(r.step)) BY <1>1 DEF LegOf, Legs, HasChecked, Asking
<1>3. spendLock[About(r)] = r.claim BY <1>1, <1>2 DEF TradeInv, Holding, About
<1> QED BY <1>1, <1>2, <1>3
    DEF Secured, Past, About, BalanceOf, Balances, LegOf, Legs, Locking, Asking, TradeAssumption

\* The books, and what has been given, when no claim moves.
LEMMA AtRest ==
  ASSUME TradeInv, Paying, UNCHANGED <<issuer, undone, pc, got, stored, answer>>,
         settled \subseteq settled', mail \subseteq mail',
         \A s \in settled' \ settled : s.of = Posted => pc[s.claim] \in Past,
         \A b \in Balances : recorded'[b] = recorded[b] \/
           (recorded'[b].of = b /\ (b = Posted => Delivered(recorded'[Posted].claim) \in mail'))
  PROVE  Books' /\ Given'
<1>1. Books' BY DEF Paying, Books, Delivered, Balances
<1>2. ASSUME NEW i, NEW payment, Both(i, payment) PROVE Both(i, payment)'
  BY <1>2, BothKept DEF TradeInv
<1>3. Given' BY <1>2 DEF Paying, Given
<1> QED BY <1>1, <1>3

\* The claim that is waiting for r is told the answer.
LEMMA ReplyPays ==
  ASSUME TradeAssumption, TradeInv, TradeInv', Paying, NEW r \in requests, NEW says \in {"ok", "no"}, NEW payment,
         Reply(r, says, payment), UNCHANGED <<issuer, undone, settled, pc, got, stored, answer>>, mail \subseteq mail',
         says = "ok" /\ r.step \in Locking => About(r) \notin revoked',
         says = "ok" /\ r.step \notin Locking => payment.of = About(r),
         says = "ok" /\ r.step = "settleA" => Delivered(r.claim) \in mail',
         \A b \in Balances : recorded'[b] = recorded[b] \/
           (recorded'[b].of = b /\ (b = Posted => Delivered(recorded'[Posted].claim) \in mail'))
  PROVE  Paying'
<1>1. r.claim \in Claims /\ pc[r.claim] = r.step /\ r.step \in Asking
  BY OfRequest
<1>2. /\ awaits[r.claim] # None /\ awaits'[r.claim] # None
      /\ awaits'[r.claim].says = says /\ awaits'[r.claim].payment = payment
      /\ \A d \in Claims : d # r.claim => awaits'[d] = awaits[d]
      /\ requests' = requests \ {r}
  <2>1. /\ awaits[r.claim].try = r.try /\ awaits[r.claim].says = "nothing" /\ awaits[r.claim] # None
    BY DEF Paying, Connected
  <2>2. awaits[r.claim] \in Waits BY <1>1, <2>1 DEF TradeInv, Waiting
  <2>3. awaits'[r.claim] = [awaits[r.claim] EXCEPT !.says = says, !.payment = payment]
    BY <1>1, <2>1 DEF Reply
  <2>4. awaits'[r.claim] # None BY <1>1, <2>1 DEF TradeInv, Waiting, Foreign, BalanceOf
  <2> QED BY <2>1, <2>2, <2>3, <2>4 DEF Reply, Waits
<1>3. Connected' BY <1>2 DEF Paying, Connected, TradeInv, Relayed
<1>4. Own'
  <2>1. \A d \in Claims, leg \in Legs : d # r.claim => (Secured(d, leg)' <=> Secured(d, leg))
    BY <1>2 DEF Secured
  <2>2. ASSUME NEW leg \in Legs, Secured(r.claim, leg)', ~ Secured(r.claim, leg)
        PROVE  BalanceOf(r.claim, leg) \notin revoked'
    BY <1>1, <1>2, <2>2 DEF Secured, About, BalanceOf, LegOf, Locking, Legs
  <2> QED BY <2>1, <2>2, OwnKept DEF Paying
<1>5. \A d \in Claims : Stage(d)'
  <2>1. ASSUME NEW d \in Claims, d # r.claim PROVE Stage(d)'
    BY <1>2, <2>1 DEF Paying, Stage, Told, Delivered, BalanceOf
  <2>2. Stage(r.claim)' BY <1>1, <1>2 DEF Paying, Stage, Told, Delivered, BalanceOf, About, Locking
  <2> QED BY <2>1, <2>2
<1>6. Books' /\ Given' BY AtRest
<1> QED BY <1>3, <1>4, <1>5, <1>6 DEF Paying

\* r goes a step further, and may settle its balance for the claim that waits.
LEMMA FurtherPays ==
  ASSUME TradeAssumption, TradeInv, TradeInv', Paying, NEW r \in requests, NEW at, r.step \notin Locking,
         requests' = (requests \ {r}) \cup {[r EXCEPT !.at = at]},
         UNCHANGED <<issuer, undone, pc, awaits, got, spendLock, stored, answer, mail, recorded>>,
         settled' = settled \/ settled' = settled \cup {Payment(r)}
  PROVE  Paying'
<1> DEFINE q == [r EXCEPT !.at = at]
<1>1. q.claim = r.claim /\ q.step = r.step /\ q.try = r.try
  BY DEF TradeInv, Relayed
<1>2. \A p \in requests' : p = q \/ (p \in requests /\ p # r) OBVIOUS
<1> HIDE DEF q
<1>3. Connected' BY <1>1, <1>2 DEF Paying, Connected
<1>4. Payment(r).claim = r.claim /\ Payment(r).of = About(r) BY DEF Payment, Settlement, About
<1>5. Own' BY <1>4, OwnKept, OfRequest DEF Paying, Secured
<1>6. \A d \in Claims : Stage(d)' BY DEF Paying, Stage, Told, Delivered, BalanceOf
<1>7. Books' /\ Given'
  <2>1. About(r) = Posted => pc[r.claim] \in Past BY OfRequest DEF Past, LegOf
  <2> QED BY <1>4, <2>1, AtRest
<1> QED BY <1>3, <1>5, <1>6, <1>7 DEF Paying

LEMMA ServePays ==
  ASSUME TradeAssumption, TradeInv, TradeInv', Paying, NEW r \in requests, Serve(r) \/ LoseRequest(r) PROVE Paying'
<1> USE DEF ledger, peer, locks, handlers, bounds
<1>1. UNCHANGED <<issuer, undone, spendLock, pc, got, stored, answer>>
  BY DEF Serve, RelayLock, RelaySettleLooks, RelaySettleChecks, RelaySettleRevokes, RelaySettleRecords,
     LoseRequest
<1>2. CASE RelayLock(r) \/ LoseRequest(r)
  <2>1. PICK says \in {"ok", "no"} : Reply(r, says, None) /\ (says = "ok" => r.step \in Locking /\ About(r) \notin revoked)
    BY <1>2 DEF RelayLock, LoseRequest
  <2>2. UNCHANGED <<settled, mail, revoked, recorded>> BY <1>2 DEF RelayLock, LoseRequest
  <2>3. says = "ok" => r.step # "settleA" BY <2>1 DEF Locking
  <2> QED BY <1>1, <2>1, <2>2, <2>3, ReplyPays
<1>3. CASE RelaySettleLooks(r)
  <2>1. UNCHANGED <<settled, mail, revoked, recorded>> /\ r.step \notin Locking BY <1>3 DEF RelaySettleLooks
  <2>2. CASE Recorded(About(r)) # None
    <3> DEFINE s == recorded[About(r)]
    <3>1. Reply(r, "ok", s) /\ s # None BY <1>3, <2>2 DEF RelaySettleLooks, Recorded
    <3>2. s \in settled /\ s.of = About(r) BY <3>1, OfRequest DEF TradeInv, TypeOK, Paying, Books
    <3>3. ASSUME r.step = "settleA" PROVE Delivered(r.claim) \in mail
      <4>1. About(r) = Posted /\ Secured(r.claim, "A") /\ r.claim \in Claims BY <3>3, OfRequest DEF LegOf
      <4>2. s.claim = r.claim BY <3>2, <4>1 DEF Paying, Own, BalanceOf, Legs
      <4> QED BY <3>1, <4>1, <4>2 DEF Paying, Books
    <3> HIDE DEF s
    <3> QED BY <1>1, <2>1, <3>1, <3>2, <3>3, ReplyPays
  <2>3. CASE Recorded(About(r)) = None BY <1>1, <1>3, <2>1, <2>3, FurtherPays DEF RelaySettleLooks
  <2> QED BY <2>2, <2>3
<1>4. CASE RelaySettleChecks(r)
  <2>1. UNCHANGED <<settled, mail, revoked, recorded>> /\ r.step \notin Locking BY <1>4 DEF RelaySettleChecks
  <2>2. CASE Reply(r, "no", None) BY <1>1, <2>1, <2>2, ReplyPays
  <2>3. CASE requests' = (requests \ {r}) \cup {[r EXCEPT !.at = "checked"]} /\ UNCHANGED awaits
    BY <1>1, <2>1, <2>3, FurtherPays
  <2> QED BY <1>4, <2>2, <2>3 DEF RelaySettleChecks
<1>5. CASE RelaySettleRevokes(r) BY <1>1, <1>5, FurtherPays DEF RelaySettleRevokes
<1>6. CASE RelaySettleRecords(r)
  <2> DEFINE s == Payment(r)
  <2>1. /\ r.step \notin Locking /\ mail' = mail \cup Notice(r) /\ Reply(r, "ok", s) /\ UNCHANGED settled
        /\ recorded' = [recorded EXCEPT ![About(r)] = IF @ = None THEN s ELSE @]
    BY <1>6 DEF RelaySettleRecords
  <2>2. s.claim = r.claim /\ s.of = About(r) BY DEF Payment, Settlement, About
  <2> HIDE DEF s
  <2>3. r.step = "settleA" => Delivered(r.claim) \in mail' BY <2>1 DEF Notice
  <2>4. About(r) = Posted => r.step = "settleA" BY <2>1, OfRequest DEF LegOf
  <2>5. ASSUME NEW b \in Balances
        PROVE  recorded'[b] = recorded[b] \/
                 (recorded'[b].of = b /\ (b = Posted => Delivered(recorded'[Posted].claim) \in mail'))
    BY <2>1, <2>2, <2>3, <2>4 DEF TradeInv, TypeOK
  <2> QED BY <1>1, <2>1, <2>2, <2>3, <2>5, ReplyPays
<1> QED BY <1>2, <1>3, <1>4, <1>5, <1>6 DEF Serve

-----------------------------------------------------------------------------
(* The owners and the stops.                                               *)

LEMMA ElsewherePays ==
  ASSUME TradeInv, Paying,
         \/ Submit \/ Withdraw \/ UNCHANGED vars
         \/ \E b \in Balances : OwnerSpends(b) \/ SuspensionEnds(b)
  PROVE  Paying'
<1> USE DEF ledger, peer, locks, handlers, bounds
<1>1. UNCHANGED <<issuer, settled, undone, mail, recorded, stored, handlers, requests, answer>>
  BY DEF Submit, Withdraw, OwnerSpends, SuspensionEnds, vars
<1>2. Connected' BY <1>1 DEF Paying, Connected
<1>3. Own' BY <1>1 DEF Paying, Own, Secured, BalanceOf
<1>4. \A c \in Claims : Stage(c)' BY <1>1 DEF Paying, Stage, Told, Delivered, BalanceOf
<1>5. Books' /\ Given' BY <1>1, AtRest
<1> QED BY <1>2, <1>3, <1>4, <1>5 DEF Paying

LEMMA StopPays ==
  ASSUME TradeAssumption, TradeInv, Paying, StationStops \/ PeerStops, ~ outlived' PROVE Paying'
<1> USE DEF ledger, peer, locks, handlers, bounds
<1>1. UNCHANGED <<issuer, settled, undone, mail, recorded, stored, got, answer>> /\ requests' = {}
  BY DEF StationStops, PeerStops
<1>2. \A c \in Claims : pc'[c] = pc[c] \/ (pc[c] # "new" /\ pc'[c] = "done")
  BY DEF StationStops, PeerStops, TradeInv, TypeOK
<1>3. \A c \in Claims : awaits'[c] = None \/ awaits'[c] = awaits[c] \/ awaits'[c].says # "ok"
  <2>1. CASE StationStops BY <2>1 DEF StationStops
  <2>2. CASE PeerStops
    <3>1. ASSUME NEW c \in Claims, awaits[c] # None, awaits[c].says = "nothing" PROVE awaits'[c].says # "ok"
      <4>1. awaits[c] \in Waits BY <3>1 DEF TradeInv, Waiting
      <4>2. awaits'[c] = [awaits[c] EXCEPT !.says = "no"] BY <2>2, <3>1 DEF PeerStops, HangUp, Listens
      <4> QED BY <4>1, <4>2 DEF Waits
    <3> QED BY <2>2, <3>1 DEF PeerStops, HangUp, Listens
  <2> QED BY <2>1, <2>2
<1>4. Connected' BY <1>1 DEF Connected
<1>5. Own'
  <2>1. \A c \in Claims, leg \in Legs : Secured(c, leg)' => Secured(c, leg)
    <3> SUFFICES ASSUME NEW c \in Claims, NEW leg \in Legs, Secured(c, leg)' PROVE Secured(c, leg) OBVIOUS
    <3>1. pc'[c] = pc[c] BY <1>2 DEF Secured, Past
    <3> QED BY <1>3, <3>1 DEF Secured
  <2> QED BY <1>1, <2>1 DEF Paying, Own, BalanceOf
<1>6. \A c \in Claims : Stage(c)'
  <2> SUFFICES ASSUME NEW c \in Claims PROVE Stage(c)' OBVIOUS
  <2>1. CASE pc'[c] = "done" /\ pc[c] # "new" 
    <3>1. Told(c)' => Told(c) /\ awaits'[c] = awaits[c] BY <1>3 DEF Told
    <3>2. CASE pc'[c] = pc[c] BY <1>1, <2>1, <3>1, <3>2 DEF Paying, Stage, Past, Locking, BalanceOf, Delivered
    <3>3. CASE pc'[c] # pc[c]
      <4>1. StationStops BY <3>3 DEF PeerStops
      <4>2. ~ Told(c)' BY <4>1 DEF StationStops, Told
      <4> QED BY <2>1, <4>2 DEF Stage, Past
    <3> QED BY <3>2, <3>3
  <2>2. CASE pc'[c] = pc[c]
    <3>1. Told(c)' => Told(c) /\ awaits'[c] = awaits[c] BY <1>3 DEF Told
    <3> QED BY <1>1, <2>2, <3>1 DEF Paying, Stage, BalanceOf, Delivered
  <2> QED BY <1>2, <2>1, <2>2
<1>7. Books'
  <2>1. \A s \in settled : s.claim \in Claims BY DEF TradeInv, TypeOK, Settlements
  <2>2. undone \subseteq settled BY DEF TradeInv, TypeOK
  <2> QED BY <1>1, <1>2, <2>1, <2>2 DEF Paying, Books, Delivered
<1>8. Given'
  <2>1. ASSUME NEW i, NEW payment, Both(i, payment) PROVE Both(i, payment)'
    BY <1>1, <1>2, <2>1, BothKept DEF TradeInv
  <2> QED BY <1>1, <2>1 DEF Paying, Given
<1> QED BY <1>4, <1>5, <1>6, <1>7, <1>8 DEF Paying

PayInv == TradeInv /\ (~ outlived => Paying)

LEMMA PayInit == ASSUME TradeAssumption, Init PROVE PayInv
<1>1. TradeInv BY TradeInit
<1>2. Paying
  BY DEF Init, Paying, Connected, Own, Secured, Past, Stage, Told, Books, Given, Balances, Ids
<1> QED BY <1>1, <1>2 DEF PayInv

LEMMA PayNext == ASSUME TradeAssumption, PayInv, [Next]_vars PROVE PayInv'
<1>1. TradeInv /\ TradeInv' BY TradeNext DEF PayInv
<1> SUFFICES ASSUME ~ outlived' PROVE Paying' BY <1>1 DEF PayInv
<1>2. CASE Submit \/ Withdraw \/ UNCHANGED vars \/ \E b \in Balances : OwnerSpends(b) \/ SuspensionEnds(b)
  <2>1. ~ outlived BY <1>2 DEF Submit, Withdraw, OwnerSpends, SuspensionEnds, vars, bounds
  <2> QED BY <1>1, <1>2, <2>1, ElsewherePays DEF PayInv
<1>3. CASE StationStops \/ PeerStops
  <2>1. ~ outlived BY <1>3 DEF StationStops, PeerStops
  <2> QED BY <1>1, <1>3, <2>1, StopPays DEF PayInv
<1>4. ASSUME NEW c \in Claims, Arrive(c) \/ Busy(c) \/ Claim(c) \/ LoseAnswer(c) \/ Outlives(c) PROVE Paying'
  <2>1. ~ Outlives(c) BY DEF Outlives
  <2>2. Beginning(c) \/ Going(c) \/ Settling(c) BY <1>4, <2>1 DEF Claim, Beginning, Going, Settling
  <2>3. ~ outlived
    BY <2>1, <2>2 DEF Beginning, Arrive, Busy, CheckOffered, CheckPosted, DropListing,
       Going, LockAnswered, TriesAgain, FirstLegFails, LoseAnswer, SecondLegFails, Refund, Close,
       Settling, SettleOffered, SettlePosted, MailPoster, SettleAnswered, bounds
  <2> QED BY <1>1, <2>1, <2>2, <2>3, BeginPays, GoingPays, SettlingPays DEF PayInv
<1>5. ASSUME NEW r \in requests, Serve(r) \/ LoseRequest(r) PROVE Paying'
  <2>1. ~ outlived
    BY <1>5 DEF Serve, RelayLock, RelaySettleLooks, RelaySettleChecks, RelaySettleRevokes, RelaySettleRecords,
       LoseRequest, bounds
  <2> QED BY <1>1, <1>5, <2>1, ServePays DEF PayInv
<1> QED BY <1>2, <1>3, <1>4, <1>5 DEF Next

LEMMA PayHolds == Spec => []PayInv
BY TradeAssumption, PayInit, PayNext, PTL DEF Spec

\* A claim answered "settled" holds a payment out of the poster's balance made
\* for its own request, and the poster has been mailed the claimant's, for any
\* losses and stops, as long as no request outlives its connection.
THEOREM ClaimSettlesBoth == Spec => []SettledMeansBoth
<1>1. PayInv => SettledMeansBoth
  <2> SUFFICES ASSUME PayInv, ~ outlived, NEW c \in Claims, answer[c] # None, answer[c].result = "settled"
               PROVE  /\ answer[c].got \in settled /\ answer[c].got.of = Posted
                      /\ RequestId[answer[c].got.claim] = RequestId[c]
                      /\ \E s \in mail \ undone : s.of = Offered[c] /\ s.claim = answer[c].got.claim
    BY DEF SettledMeansBoth
  <2>1. Both(RequestId[c], answer[c].got) BY DEF PayInv, Paying, Given
  <2>2. answer[c].got.claim \in Claims BY <2>1 DEF PayInv, TradeInv, TypeOK, Both, Settlements
  <2>3. Offered[answer[c].got.claim] = Offered[c] BY <2>1, <2>2, TradeAssumption DEF TradeAssumption, Both
  <2> QED BY <2>1, <2>3 DEF Both
<1> QED BY <1>1, PayHolds, PTL

-----------------------------------------------------------------------------
(* The lease on a requestId, and the outcome stored under it.              *)

Active(c) == pc[c] \notin {"new", "done"}
Lasting(outcome) == outcome # None /\ outcome.result \in {"incomplete", "settled"}

\* A claim under way holds the lease of its requestId, which has no outcome
\* yet; an outcome that moved a balance is the one stored for its requestId.
LeaseInv ==
  /\ \A c \in Claims : Active(c) => lease[RequestId[c]] = c /\ stored[RequestId[c]] = None
  /\ \A c \in Claims : Lasting(answer[c]) => stored[RequestId[c]] = answer[c]

\* How a step changes what is answered and stored.
Unanswered ==
  /\ UNCHANGED <<stored, answer>>
  /\ \/ UNCHANGED lease /\ \A c \in Claims : Active(c)' => Active(c)
     \/ \A c \in Claims : ~ Active(c)'
Begins(c) ==
  /\ UNCHANGED <<stored, answer>> /\ stored[RequestId[c]] = None /\ lease[RequestId[c]] = None
  /\ pc' = [pc EXCEPT ![c] = "checkB"] /\ lease' = [lease EXCEPT ![RequestId[c]] = c]
Repeats(c) ==
  /\ pc[c] = "new" /\ UNCHANGED stored /\ stored[RequestId[c]] # None /\ EndWith(c, stored[RequestId[c]])
Fails(c) ==
  /\ UNCHANGED stored
  /\ \/ pc[c] = "new" /\ EndWith(c, TryLater)
     \/ pc[c] = "new" /\ stored[RequestId[c]] = None /\ EndWith(c, Refusal)
     \/ Active(c) /\ (EndWith(c, Refusal) \/ EndWith(c, Unresolved))
Stores(c) ==
  /\ Active(c)
  /\ \E outcome \in Outcomes : EndWith(c, outcome) /\ stored' = [stored EXCEPT ![RequestId[c]] = outcome]

LEMMA AnswerStep ==
  ASSUME TradeInv, [Next]_vars
  PROVE  Unanswered \/ \E c \in Claims : Begins(c) \/ Repeats(c) \/ Fails(c) \/ Stores(c)
<1> USE DEF ledger, peer, locks, handlers, bounds
<1>1. CASE Submit \/ Withdraw \/ UNCHANGED vars \/ PeerStops \/ \E b \in Balances : OwnerSpends(b) \/ SuspensionEnds(b)
  BY <1>1 DEF Submit, Withdraw, PeerStops, OwnerSpends, SuspensionEnds, vars, Unanswered, Active
<1>2. CASE StationStops BY <1>2 DEF StationStops, Unanswered, Active
<1>3. CASE \E r \in requests : Serve(r) \/ LoseRequest(r)
  BY <1>3 DEF Serve, RelayLock, RelaySettleLooks, RelaySettleChecks, RelaySettleRevokes, RelaySettleRecords,
     LoseRequest, Unanswered, Active
<1>4. CASE \E c \in Claims : LoseAnswer(c) \/ Outlives(c) BY <1>4 DEF LoseAnswer, Outlives, Unanswered, Active
<1>5. ASSUME NEW c \in Claims, Arrive(c) \/ Busy(c)
      PROVE  Begins(c) \/ Repeats(c) \/ Fails(c)
  <2>1. CASE Arrive(c) BY <2>1 DEF Arrive, Begins, Repeats, Fails, Moves
  <2>2. CASE Busy(c) BY <2>2 DEF Busy, Fails, Active
  <2> QED BY <1>5, <2>1, <2>2
\* a claim under way is answered, or goes on
<1>6. ASSUME NEW c \in Claims, Active(c), UNCHANGED <<stored, answer, lease>>, NEW step, pc' = [pc EXCEPT ![c] = step]
      PROVE  Unanswered
  BY <1>6 DEF TradeInv, TypeOK, Unanswered, Active
<1>7. ASSUME NEW c \in Claims, CheckOffered(c) \/ CheckPosted(c) \/ DropListing(c) PROVE Unanswered \/ Fails(c)
  <2>1. Active(c) BY <1>7 DEF CheckOffered, CheckPosted, DropListing, Active
  <2> QED BY <1>6, <1>7, <2>1 DEF CheckOffered, CheckPosted, DropListing, Enter, Moves, Fails
<1>8. ASSUME NEW c \in Claims,
             LockAnswered(c) \/ TriesAgain(c) \/ SettleAnswered(c) \/ FirstLegFails(c)
      PROVE  Unanswered \/ Fails(c)
  <2>1. Active(c)
    BY <1>8 DEF LockAnswered, TriesAgain, SettleAnswered, FirstLegFails, Active, TradeInv, Waiting, Asking
  <2> QED BY <1>6, <1>8, <2>1 DEF LockAnswered, TriesAgain, SettleAnswered, FirstLegFails, Enter, Moves, Fails
<1>9. ASSUME NEW c \in Claims, SettleOffered(c) \/ SettlePosted(c) \/ MailPoster(c) PROVE Unanswered
  <2>1. Active(c) BY <1>9 DEF SettleOffered, SettlePosted, MailPoster, Active
  <2> QED BY <1>6, <1>9, <2>1 DEF SettleOffered, SettlePosted, MailPoster, Enter, Moves
<1>10. ASSUME NEW c \in Claims, SecondLegFails(c) \/ Refund(c) \/ Close(c) PROVE Unanswered \/ Stores(c)
  <2>1. Active(c) BY <1>10 DEF SecondLegFails, Refund, Close, Active
  <2>2. Settled(got[c]["A"]) \in Outcomes /\ \A refunded \in BOOLEAN : Incomplete(refunded) \in Outcomes
    <3>1. got[c]["A"] \in Settlements \cup {None} BY DEF TradeInv, TypeOK, Legs
    <3> QED BY <3>1 DEF Incomplete, Settled, Outcomes, Results
  <2>3. CASE SecondLegFails(c) BY <1>6, <2>1, <2>2, <2>3 DEF SecondLegFails, EndIncomplete, Moves, Stores
  <2>4. CASE Refund(c) BY <2>1, <2>2, <2>4 DEF Refund, EndIncomplete, Stores
  <2>5. CASE Close(c) BY <2>1, <2>2, <2>5 DEF Close, Stores
  <2> QED BY <1>10, <2>3, <2>4, <2>5
<1> QED BY <1>1, <1>2, <1>3, <1>4, <1>5, <1>7, <1>8, <1>9, <1>10 DEF Next, Claim

LEMMA EndEffect ==
  ASSUME TypeOK, NEW c \in Claims, NEW outcome, EndWith(c, outcome)
  PROVE  /\ \A d \in Claims : /\ pc'[d] = IF d = c THEN "done" ELSE pc[d]
                              /\ answer'[d] = IF d = c THEN outcome ELSE answer[d]
         /\ \A i \in Ids : lease'[i] = IF lease[i] = c THEN None ELSE lease[i]
BY DEF EndWith, TypeOK

LEMMA LeaseNext ==
  ASSUME TradeAssumption, TradeInv, LeaseInv, [Next]_vars PROVE LeaseInv'
<1>1. \A c \in Claims : RequestId[c] \in Ids BY DEF Ids
<1>2. TypeOK BY DEF TradeInv
<1>3. CASE Unanswered BY <1>3 DEF Unanswered, LeaseInv
<1>4. ASSUME NEW c \in Claims, Begins(c) PROVE LeaseInv'
  <2>1. \A d \in Claims : d # c => (Active(d)' <=> Active(d)) BY <1>4 DEF Begins, Active, TypeOK
  <2>2. \A d \in Claims : d # c /\ Active(d) => RequestId[d] # RequestId[c]
    BY <1>4 DEF Begins, LeaseInv, TradeAssumption
  <2>3. lease'[RequestId[c]] = c BY <1>1, <1>2, <1>4 DEF Begins, TypeOK
  <2>4. \A d \in Claims : d # c /\ Active(d) => lease'[RequestId[d]] = lease[RequestId[d]]
    BY <1>1, <1>2, <1>4, <2>2 DEF Begins, TypeOK
  <2> QED BY <1>4, <2>1, <2>3, <2>4 DEF Begins, LeaseInv
<1>5. ASSUME NEW c \in Claims, NEW outcome, EndWith(c, outcome), UNCHANGED stored,
             Lasting(outcome) => outcome = stored[RequestId[c]]
      PROVE  LeaseInv'
  <2>1. \A d \in Claims : /\ pc'[d] = IF d = c THEN "done" ELSE pc[d]
                          /\ answer'[d] = IF d = c THEN outcome ELSE answer[d]
    BY <1>2, <1>5, EndEffect
  <2>2. \A i \in Ids : lease'[i] = IF lease[i] = c THEN None ELSE lease[i] BY <1>2, <1>5, EndEffect
  <2> QED BY <1>1, <1>5, <2>1, <2>2 DEF LeaseInv, Active, Lasting
<1>6. ASSUME NEW c \in Claims, Stores(c) PROVE LeaseInv'
  <2>1. PICK outcome \in Outcomes : EndWith(c, outcome) /\ stored' = [stored EXCEPT ![RequestId[c]] = outcome]
    BY <1>6 DEF Stores
  <2>2. \A d \in Claims : /\ pc'[d] = IF d = c THEN "done" ELSE pc[d]
                          /\ answer'[d] = IF d = c THEN outcome ELSE answer[d]
    BY <1>2, <2>1, EndEffect
  <2>3. \A i \in Ids : lease'[i] = IF lease[i] = c THEN None ELSE lease[i] BY <1>2, <2>1, EndEffect
  <2>4. \A i \in Ids : stored'[i] = IF i = RequestId[c] THEN outcome ELSE stored[i] BY <1>2, <2>1 DEF TypeOK
  <2>5. lease[RequestId[c]] = c /\ stored[RequestId[c]] = None BY <1>6 DEF Stores, LeaseInv
  <2>6. \A d \in Claims : d # c /\ Active(d) => RequestId[d] # RequestId[c] BY <2>5 DEF LeaseInv
  <2>7. \A d \in Claims : Lasting(answer[d]) => RequestId[d] # RequestId[c] BY <2>5 DEF LeaseInv, Lasting
  <2> QED BY <1>1, <2>2, <2>3, <2>4, <2>6, <2>7 DEF LeaseInv, Active, Lasting
<1>7. ~ Lasting(TryLater) /\ ~ Lasting(Refusal) /\ ~ Lasting(Unresolved)
  BY DEF Lasting, TryLater, Refusal, Unresolved
<1>8. ASSUME NEW c \in Claims, Repeats(c) PROVE LeaseInv' BY <1>5, <1>8 DEF Repeats
<1>9. ASSUME NEW c \in Claims, Fails(c) PROVE LeaseInv' BY <1>5, <1>7, <1>9 DEF Fails
<1> QED BY <1>3, <1>4, <1>6, <1>8, <1>9, AnswerStep

\* The first stretch of a repetition finds the outcome that is stored.
LEMMA RepeatStands ==
  ASSUME TradeInv, LeaseInv, [Next]_vars, NEW c \in Claims, NEW d \in Claims, RequestId[c] = RequestId[d],
         answer[d] # None, answer[d].result \in {"incomplete", "settled"}, AnsweredNow(c, Results \ {"busy"})
  PROVE  answer'[c] = answer[d]
<1>1. stored[RequestId[c]] = answer[d] /\ stored[RequestId[c]] # None BY DEF LeaseInv, Lasting
<1>2. answer'[c] # answer[c] BY DEF AnsweredNow
<1>3. ~ Active(c) BY <1>1 DEF LeaseInv
<1>4. PICK e \in Claims : Repeats(e) \/ Fails(e) \/ Stores(e) BY <1>2, AnswerStep DEF Unanswered, Begins
<1>5. e = c BY <1>2, <1>4, EndEffect DEF Repeats, Fails, Stores, TradeInv
<1>6. CASE Repeats(c) BY <1>1, <1>6, EndEffect DEF Repeats, TradeInv
<1>7. CASE Fails(c)
  <2>1. EndWith(c, TryLater) BY <1>1, <1>3, <1>7 DEF Fails
  <2>2. answer'[c].result = "busy" BY <2>1, EndEffect DEF TradeInv, TryLater
  <2> QED BY <2>2 DEF AnsweredNow
<1> QED BY <1>3, <1>4, <1>5, <1>6, <1>7 DEF Stores

LEMMA LeaseHolds == Spec => []LeaseInv
<1>1. Init => LeaseInv BY DEF Init, LeaseInv, Active, Lasting
<1>2. TradeInv /\ LeaseInv /\ [Next]_vars => LeaseInv' BY TradeAssumption, LeaseNext
<1> QED BY <1>1, <1>2, TradeHolds, PTL DEF Spec

\* Once a request has been answered with an outcome that moved a balance, every
\* repetition of it is answered the same, for any losses and stops and whoever
\* outlives whom: the lease, and answerClaim storing before it answers.
THEOREM AnswersStand == Spec => AnswerStands
<1>1. TradeInv /\ LeaseInv /\ [Next]_vars =>
        [\A c, d \in Claims :
           /\ RequestId[c] = RequestId[d]
           /\ answer[d] # None /\ answer[d].result \in {"incomplete", "settled"}
           /\ AnsweredNow(c, Results \ {"busy"})
           => answer'[c] = answer[d]]_vars
  BY RepeatStands
<1> QED BY <1>1, TradeHolds, LeaseHolds, PTL DEF Spec, AnswerStands

-----------------------------------------------------------------------------
(* The retry, while nothing has stopped and one message at most was lost.  *)

NotFor(c) == \A s \in settled : ~ (s.of = Posted /\ s.claim = c)
\* The poster's balance is not settled for c, and will not be by its retry.
Dead(c) == NotFor(c) /\ (Posted \in revoked \/ Posted \notin suspended)

\* What an answer to a try tells of the poster's balance, and what follows.
Trying(c, try, says) == pc[c] = "settleA" /\ awaits[c] # None /\ awaits[c].try = try /\ awaits[c].says = says
RetryTells(c) ==
  /\ Trying(c, 1, "no") => Dead(c) \/ losses = 1
  /\ Trying(c, 2, "nothing") => Dead(c) \/ losses = 1
  /\ Trying(c, 2, "ok") => losses = 1
  /\ Trying(c, 2, "no") => NotFor(c)
  /\ pc[c] = "refund" \/ c \in refunds => NotFor(c)
  /\ c \in refunds => pc[c] = "done"

\* How far a settlement of the poster's balance has come at the other domain.
PeerSettles ==
  /\ \A r \in requests : r.step = "settleA" =>
       /\ r.at \in {"looked", "checked"} => recorded[Posted] = None
       /\ r.at = "checked" => NotFor(r.claim)
       /\ r.try = 2 /\ losses = 0 => r.at \in {"sent", "looked"}
  /\ peerLock[Posted] # None => \E r \in requests : InHand(r) /\ About(r) = Posted

\* A settlement of the poster's balance is on its way to the mail, or mailed.
Underway(s) == \E r \in requests : r.step = "settleA" /\ r.at = "revoked" /\ Payment(r) = s
Mailed(s) ==
  /\ recorded[Posted] # None \/ ~ Foreign(Posted)
  /\ pc[s.claim] = "mailA" \/ \E m \in mail : m.claim = s.claim
Mails ==
  /\ \A s \in settled : s.of = Posted => Underway(s) \/ Mailed(s)
  /\ \A m \in mail : \E s \in settled : s.of = Posted /\ s.claim = m.claim
  /\ mail \cap undone = {}

Calm == (\A c \in Claims : RetryTells(c)) /\ PeerSettles /\ Mails

-----------------------------------------------------------------------------
(* The claim.                                                              *)

LEMMA CalmClaim ==
  ASSUME TradeInv, Paying, Calm, NEW c \in Claims, ActsAlone(c), pc[c] # "done",
         UNCHANGED peer, revoked \subseteq revoked', losses' = losses \/ losses' = 1,
         \A r \in requests' \ requests : r.at = "sent",
         \A s \in settled' \ settled : s.claim = c /\ (s.of = Posted => ~ Foreign(Posted) /\ pc'[c] = "mailA"),
         pc[c] = "mailA" => \E m \in mail' : m.claim = c,
         \A m \in mail' \ mail :
           m.claim = c /\ m \notin undone' /\ \E s \in settled : s.of = Posted /\ s.claim = c,
         UNCHANGED undone \/ (UNCHANGED mail /\ NotFor(c) /\ \A u \in undone' \ undone : u.claim = c),
         refunds' \subseteq refunds \cup {c}, RetryTells(c)'
  PROVE  Calm'
<1> USE DEF peer
<1>1. ASSUME NEW d \in Claims PROVE RetryTells(d)'
  <2>1. CASE d # c
    <3>1. NotFor(d) => NotFor(d)' BY <2>1 DEF NotFor
    <3> QED BY <2>1, <3>1 DEF Calm, RetryTells, Trying, Dead, ActsAlone
  <2> QED BY <2>1
<1>2. PeerSettles'
  <2>1. ASSUME NEW r \in requests, NotFor(r.claim) PROVE NotFor(r.claim)'
    BY <2>1 DEF NotFor, ActsAlone
  <2>2. ASSUME NEW r \in requests', r.step = "settleA"
        PROVE  /\ r.at \in {"looked", "checked"} => recorded'[Posted] = None
               /\ r.at = "checked" => NotFor(r.claim)'
               /\ r.try = 2 /\ losses' = 0 => r.at \in {"sent", "looked"}
    <3>1. CASE r \in requests BY <2>1, <2>2, <3>1 DEF Calm, PeerSettles
    <3>2. CASE r \notin requests BY <3>2
    <3> QED BY <3>1, <3>2
  <2>3. ASSUME peerLock'[Posted] # None PROVE (\E r \in requests : InHand(r) /\ About(r) = Posted)'
    BY <2>3 DEF Calm, PeerSettles, ActsAlone, InHand, About, BalanceOf
  <2> QED BY <2>2, <2>3 DEF PeerSettles
<1>3. Mails'
  <2>1. ASSUME NEW s \in settled', s.of = Posted PROVE Underway(s)' \/ Mailed(s)'
    <3>1. CASE s \in settled
      <4>1. s.claim \in Claims BY <3>1 DEF TradeInv, TypeOK, Settlements
      <4>2. Underway(s) => Underway(s)'
        BY DEF Underway, ActsAlone, Payment, Settlement, BalanceOf
      <4>3. Mailed(s) => Mailed(s)' BY <4>1 DEF Mailed, ActsAlone, Foreign
      <4> QED BY <2>1, <3>1, <4>2, <4>3 DEF Calm, Mails
    <3>2. CASE s \notin settled BY <2>1, <3>2 DEF Mailed, ActsAlone, Foreign
    <3> QED BY <3>1, <3>2
  <2>2. \A m \in mail' : \E s \in settled' : s.of = Posted /\ s.claim = m.claim
    BY DEF Calm, Mails, ActsAlone
  <2>3. mail' \cap undone' = {} BY DEF Calm, Mails, NotFor
  <2> QED BY <2>1, <2>2, <2>3 DEF Mails
<1> QED BY <1>1, <1>2, <1>3 DEF Calm

LEMMA BeginCalm ==
  ASSUME TradeInv, Paying, Calm, NEW c \in Claims, Beginning(c), losses' <= 1 PROVE Calm'
<1> USE DEF ledger, peer, locks, handlers, bounds
<1>1. /\ UNCHANGED <<issuer, ledger, peer, got>> /\ pc[c] \in {"new", "checkB", "checkA"}
      /\ losses' = losses \/ losses' = losses + 1
  BY DEF Beginning, Arrive, Busy, CheckOffered, CheckPosted, DropListing, PassesCheck, FailsCheck,
     LostDocument
<1>2. \A r \in requests : r.claim # c BY <1>1, NoneOnItsWay DEF Asking
<1>3. losses' = losses \/ losses' = 1 BY <1>1 DEF TradeInv, TypeOK
<1>4. ASSUME NEW step \in {"checkB", "checkA", "lockB", "lockA", "settleB", "done"}, pc' = [pc EXCEPT ![c] = step],
             \A d \in Claims : d # c => awaits'[d] = awaits[d] /\ answer'[d] = answer[d],
             requests \subseteq requests', \A r \in requests' \ requests : r.at = "sent"
      PROVE  Calm'
  <2>1. \A d \in Claims : pc'[d] = IF d = c THEN step ELSE pc[d] BY <1>4 DEF TradeInv, TypeOK
  <2>2. ActsAlone(c) BY <1>1, <1>2, <1>4, <2>1 DEF ActsAlone
  <2>3. RetryTells(c)' BY <1>1, <2>1 DEF RetryTells, Trying, Calm
  <2> QED BY <1>1, <1>3, <1>4, <2>1, <2>2, <2>3, CalmClaim
<1>5. ASSUME NEW outcome, EndWith(c, outcome), UNCHANGED requests PROVE Calm'
  <2>1. pc' = [pc EXCEPT ![c] = "done"] /\ \A d \in Claims : d # c => awaits'[d] = awaits[d] /\ answer'[d] = answer[d]
    BY <1>5 DEF EndWith, TradeInv, TypeOK, Waiting
  <2> QED BY <1>4, <1>5, <2>1
<1>6. CASE CheckPosted(c)
  <2>1. FirstStep(c) \in {"lockB", "lockA", "settleB"} BY DEF FirstStep, SecondStep
  <2>2. Enter(c, FirstStep(c), 1) /\ UNCHANGED answer BY <1>6 DEF CheckPosted
  <2>3. \A d \in Claims : d # c => awaits'[d] = awaits[d] BY <2>2 DEF Enter, TradeInv, Waiting
  <2>4. /\ pc' = [pc EXCEPT ![c] = FirstStep(c)] /\ requests \subseteq requests'
        /\ \A r \in requests' \ requests : r.at = "sent"
    BY <2>2 DEF Enter, Moves
  <2> QED BY <1>4, <2>1, <2>2, <2>3, <2>4
<1>7. CASE Arrive(c) BY <1>4, <1>5, <1>7 DEF Arrive, Moves
<1>8. CASE CheckOffered(c) BY <1>4, <1>5, <1>8 DEF CheckOffered, Moves
<1>9. CASE Busy(c) \/ DropListing(c) BY <1>5, <1>9 DEF Busy, DropListing
<1> QED BY <1>6, <1>7, <1>8, <1>9 DEF Beginning

\* A failed leg of the poster's was not settled for the claim.
LEMMA FailedIsNotSettled ==
  ASSUME TradeInv, Calm, NEW c \in Claims, pc[c] = "settleA", LegFails(c) PROVE NotFor(c)
<1>1. CASE Foreign(Posted)
  <2>1. awaits[c] # None /\ awaits[c].says = "no" /\ awaits[c].try = 2 BY <1>1 DEF LegFails
  <2> QED BY <2>1 DEF Calm, RetryTells, Trying
<1>2. CASE ~ Foreign(Posted)
  <2>1. HasChecked(c, "A") /\ ~ HasSettled(c, "A") BY DEF HasChecked, HasSettled, Asking
  <2>2. Posted \notin revoked BY <1>2, <2>1 DEF TradeInv, Holding, BalanceOf, Legs
  <2> QED BY <2>2 DEF TradeInv, SettledIsRevoked, NotFor
<1> QED BY <1>1, <1>2

LEMMA GoingCalm ==
  ASSUME TradeAssumption, TradeInv, Paying, Calm, NEW c \in Claims, Going(c), losses' <= 1
  PROVE  Calm'
<1> USE DEF ledger, peer, locks, handlers, bounds
<1>1. /\ UNCHANGED <<issuer, revoked, settled, mail, peer, got>>
      /\ pc[c] \in {"lockB", "lockA", "settleB", "settleA", "refund", "close"}
      /\ awaits[c] = None \/ awaits[c].says # "nothing"
      /\ losses' = losses \/ losses' = losses + 1
  <2>1. UNCHANGED <<issuer, revoked, settled, mail, peer, got>> /\ (losses' = losses \/ losses' = losses + 1)
    BY DEF Going, LockAnswered, TriesAgain, FirstLegFails, LoseAnswer, SecondLegFails, Refund, Close, Loss
  <2>2. pc[c] \in {"lockB", "lockA", "settleB", "settleA", "refund", "close"}
    BY DEF Going, LockAnswered, TriesAgain, FirstLegFails, LoseAnswer, SecondLegFails, Refund, Close,
           TradeInv, Waiting, Asking
  <2>3. awaits[c] = None \/ awaits[c].says # "nothing"
    BY DEF Going, LockAnswered, TriesAgain, FirstLegFails, LoseAnswer, SecondLegFails, Refund, Close,
           LegFails, TradeInv, Waiting, Asking, BalanceOf, LegOf
  <2> QED BY <2>1, <2>2, <2>3
<1>2. \A r \in requests : r.claim # c BY <1>1, NoneOnItsWay
<1>3. losses' = losses \/ losses' = 1 BY <1>1 DEF TradeInv, TypeOK
<1>4. c \notin refunds BY <1>1 DEF Calm, RetryTells
\* a step of c, at which no payment is mailed
<1>5. ASSUME NEW step, pc' = [pc EXCEPT ![c] = step], refunds' \subseteq refunds \cup {c},
             \A d \in Claims : d # c => awaits'[d] = awaits[d] /\ answer'[d] = answer[d],
             requests \subseteq requests', \A r \in requests' \ requests : r.at = "sent",
             UNCHANGED undone \/ (NotFor(c) /\ \A u \in undone' \ undone : u.claim = c),
             step \in {"settleA", "refund"} \/ c \in refunds' => RetryTells(c)'
      PROVE  Calm'
  <2>1. \A d \in Claims : pc'[d] = IF d = c THEN step ELSE pc[d] BY <1>5 DEF TradeInv, TypeOK
  <2>2. ActsAlone(c) BY <1>1, <1>2, <1>5, <2>1 DEF ActsAlone
  <2>3. RetryTells(c)' BY <1>5, <2>1 DEF RetryTells, Trying
  <2> QED BY <1>1, <1>3, <1>5, <2>1, <2>2, <2>3, CalmClaim
<1>6. ASSUME NEW outcome, EndWith(c, outcome), UNCHANGED <<requests, undone>>, refunds' \subseteq refunds \cup {c},
             c \in refunds' => NotFor(c)
      PROVE  Calm'
  <2>1. /\ pc' = [pc EXCEPT ![c] = "done"] /\ pc'[c] = "done"
        /\ \A d \in Claims : d # c => awaits'[d] = awaits[d] /\ answer'[d] = answer[d]
    BY <1>6 DEF EndWith, TradeInv, TypeOK, Waiting
  <2>2. c \in refunds' => RetryTells(c)' BY <1>1, <1>6, <2>1 DEF RetryTells, Trying, NotFor
  <2> QED BY <1>5, <1>6, <2>1, <2>2
<1>7. ASSUME NEW step, NEW try, Enter(c, step, try), UNCHANGED <<answer, undone, refunds>>
      PROVE  /\ pc' = [pc EXCEPT ![c] = step] /\ pc'[c] = step
             /\ \A d \in Claims : d # c => awaits'[d] = awaits[d] /\ answer'[d] = answer[d]
             /\ requests \subseteq requests' /\ \A r \in requests' \ requests : r.at = "sent"
             /\ awaits'[c] # None => awaits'[c].try = try /\ awaits'[c].says = "nothing"
  <2>1. awaits' \in {[awaits EXCEPT ![c] = None],
                     [awaits EXCEPT ![c] = [try |-> try, says |-> "nothing", payment |-> None]]}
    BY <1>7 DEF Enter
  <2> QED BY <1>7, <2>1 DEF Enter, Moves, TradeInv, TypeOK, Waiting
<1>8. CASE LockAnswered(c)
  <2>1. CASE EndWith(c, Refusal) /\ UNCHANGED requests BY <1>4, <1>6, <1>8, <2>1 DEF LockAnswered
  <2>2. CASE Enter(c, IF pc[c] = "lockB" THEN SecondStep(c) ELSE "settleB", 1) /\ UNCHANGED answer
    <3> DEFINE step == IF pc[c] = "lockB" THEN SecondStep(c) ELSE "settleB"
    <3>1. step \in {"lockA", "settleB"} BY DEF SecondStep
    <3>2. Enter(c, step, 1) /\ UNCHANGED <<answer, undone, refunds>> BY <1>8, <2>2 DEF LockAnswered
    <3> HIDE DEF step
    <3> QED BY <1>4, <1>5, <1>7, <3>1, <3>2
  <2> QED BY <1>8, <2>1, <2>2 DEF LockAnswered
<1>9. CASE TriesAgain(c)
  <2>1. /\ Enter(c, pc[c], 2) /\ UNCHANGED <<answer, undone, refunds, losses>>
        /\ awaits[c] # None /\ awaits[c].says = "no" /\ awaits[c].try = 1
    BY <1>9 DEF TriesAgain
  <2>2. pc[c] = "settleA" => Dead(c) \/ losses = 1 BY <2>1 DEF Calm, RetryTells, Trying
  <2>3. (pc[c] = "settleA" => Dead(c) \/ losses = 1)' BY <1>1, <1>7, <2>1, <2>2 DEF Dead, NotFor
  <2>4. pc[c] = "settleA" => RetryTells(c)' BY <1>4, <1>7, <2>1, <2>3 DEF RetryTells, Trying
  <2>5. pc[c] # "refund" BY <2>1 DEF TradeInv, Waiting, Asking
  <2> QED BY <1>4, <1>5, <1>7, <2>1, <2>4, <2>5
<1>10. CASE FirstLegFails(c) BY <1>4, <1>6, <1>10 DEF FirstLegFails
<1>11. CASE Refund(c)
  <2>1. NotFor(c) BY <1>11 DEF Refund, Calm, RetryTells
  <2> QED BY <1>6, <1>11, <2>1 DEF Refund, EndIncomplete
<1>12. CASE Close(c) BY <1>4, <1>6, <1>12 DEF Close
<1>13. CASE SecondLegFails(c)
  <2>1. NotFor(c) BY <1>13, FailedIsNotSettled DEF SecondLegFails
  <2>2. CASE EndIncomplete(c, FALSE) /\ UNCHANGED undone
    BY <1>4, <1>6, <1>13, <2>2 DEF SecondLegFails, EndIncomplete
  <2>3. CASE undone' = undone \cup {Delivered(c)} /\ Moves(c, "refund") /\ awaits' = [awaits EXCEPT ![c] = None]
             /\ UNCHANGED <<stored, answer, locks>>
    <3>1. pc[c] = "settleA" /\ UNCHANGED <<requests, refunds>> BY <1>13 DEF SecondLegFails
    <3>2. Delivered(c).claim = c BY <3>1 DEF Paying, Stage, Past
    <3>3. pc'[c] = "refund" /\ \A d \in Claims : d # c => awaits'[d] = awaits[d]
      BY <2>3 DEF Moves, TradeInv, TypeOK, Waiting
    <3>4. RetryTells(c)' BY <1>1, <1>4, <2>1, <3>1, <3>3 DEF RetryTells, Trying, NotFor
    <3> QED BY <1>5, <2>1, <2>3, <3>1, <3>2, <3>3, <3>4 DEF Moves
  <2> QED BY <1>13, <2>2, <2>3 DEF SecondLegFails
<1>14. CASE LoseAnswer(c)
  <2>1. /\ awaits[c] # None /\ awaits[c].says = "ok" /\ Loss
        /\ awaits' = [awaits EXCEPT ![c].says = "no", ![c].payment = None]
        /\ UNCHANGED <<pc, answer, requests, undone, refunds>>
    BY <1>14 DEF LoseAnswer
  <2>2. awaits[c] \in Waits /\ \A d \in Claims : d # c => awaits'[d] = awaits[d] BY <2>1 DEF TradeInv, Waiting
  <2>3. awaits'[c].says = "no" /\ awaits'[c].try = awaits[c].try
    <3>1. awaits'[c] = [awaits[c] EXCEPT !.says = "no", !.payment = None] BY <2>1 DEF TradeInv, Waiting
    <3> QED BY <2>2, <3>1 DEF Waits
  <2>4. losses = 0 /\ losses' = 1 BY <2>1 DEF Loss, TradeInv, TypeOK
  <2>5. pc[c] = "settleA" => awaits[c].try = 1
    BY <2>1, <2>2, <2>4 DEF Calm, RetryTells, Trying, Waits
  <2>6. RetryTells(c)'
    <3>1. NotFor(c) => NotFor(c)' BY <1>1 DEF NotFor
    <3> QED BY <1>4, <2>1, <2>3, <2>4, <2>5, <3>1 DEF RetryTells, Trying, Calm
  <2>7. pc' = [pc EXCEPT ![c] = pc[c]] BY <2>1 DEF TradeInv, TypeOK
  <2> QED BY <1>4, <1>5, <2>1, <2>2, <2>6, <2>7
<1> QED BY <1>8, <1>9, <1>10, <1>11, <1>12, <1>13, <1>14 DEF Going

LEMMA SettlingCalm ==
  ASSUME TradeAssumption, TradeInv, Paying, Calm, NEW c \in Claims, Settling(c) PROVE Calm'
<1> USE DEF ledger, peer, locks, handlers, bounds
<1>1. /\ UNCHANGED <<issuer, peer, undone, refunds, answer, losses>> /\ revoked \subseteq revoked'
      /\ pc[c] \in {"settleB", "settleA", "mailA"}
      /\ awaits[c] = None \/ awaits[c].says # "nothing"
      /\ settled \subseteq settled' /\ mail \subseteq mail'
  <2>1. UNCHANGED <<issuer, peer, undone, refunds, answer, losses>> /\ revoked \subseteq revoked'
    BY DEF Settling, SettleOffered, SettlePosted, MailPoster, SettleAnswered
  <2>2. settled \subseteq settled' /\ mail \subseteq mail'
    BY DEF Settling, SettleOffered, SettlePosted, MailPoster, SettleAnswered
  <2>3. pc[c] \in {"settleB", "settleA", "mailA"}
    BY DEF Settling, SettleOffered, SettlePosted, MailPoster, SettleAnswered, TradeInv, Waiting, Asking,
       Locking
  <2>4. awaits[c] = None \/ awaits[c].says # "nothing"
    BY DEF Settling, SettleOffered, SettlePosted, MailPoster, SettleAnswered,
           TradeInv, Waiting, Asking, BalanceOf, LegOf
  <2> QED BY <2>1, <2>2, <2>3, <2>4
<1>2. \A r \in requests : r.claim # c BY <1>1, NoneOnItsWay
<1>3. got \in [Claims -> [Legs -> settled \cup {None}]] /\ Offered[c] # Posted /\ c \notin refunds
  BY <1>1 DEF TradeInv, TypeOK, TradeAssumption, Calm, RetryTells
\* c goes on to the poster's leg, with its first try
<1>4. ASSUME Enter(c, "settleA", 1), pc[c] = "settleB", UNCHANGED mail,
             \A s \in settled' \ settled : s.claim = c /\ s.of # Posted,
             \A d \in Claims : d # c => got'[d] = got[d]
      PROVE  Calm'
  <2>1. \A d \in Claims : pc'[d] = IF d = c THEN "settleA" ELSE pc[d]
    BY <1>4 DEF Enter, Moves, TradeInv, TypeOK
  <2>2. /\ \A d \in Claims : d # c => awaits'[d] = awaits[d]
        /\ awaits'[c] # None => awaits'[c].try = 1 /\ awaits'[c].says = "nothing"
    <3>1. awaits' \in {[awaits EXCEPT ![c] = None],
                       [awaits EXCEPT ![c] = [try |-> 1, says |-> "nothing", payment |-> None]]}
      BY <1>4 DEF Enter
    <3> QED BY <3>1 DEF TradeInv, Waiting
  <2>3. requests \subseteq requests' /\ \A r \in requests' \ requests : r.at = "sent" BY <1>4 DEF Enter
  <2>4. ActsAlone(c) BY <1>1, <1>2, <1>4, <2>1, <2>2, <2>3 DEF ActsAlone
  <2>5. RetryTells(c)' BY <1>1, <1>3, <2>1, <2>2 DEF RetryTells, Trying
  <2> QED BY <1>1, <1>4, <2>3, <2>4, <2>5, CalmClaim
\* c goes on to a step at which it waits for nothing
<1>5. ASSUME NEW step \in {"mailA", "close"}, pc' = [pc EXCEPT ![c] = step], awaits' = [awaits EXCEPT ![c] = None],
             UNCHANGED requests, \A d \in Claims : d # c => got'[d] = got[d],
             \A s \in settled' \ settled : s.claim = c /\ ~ Foreign(Posted) /\ step = "mailA",
             pc[c] = "mailA" => \E m \in mail' : m.claim = c,
             \A m \in mail' \ mail : m.claim = c /\ m \notin undone /\ \E s \in settled : s.of = Posted /\ s.claim = c
      PROVE  Calm'
  <2>1. \A d \in Claims : /\ pc'[d] = IF d = c THEN step ELSE pc[d]
                          /\ awaits'[d] = IF d = c THEN None ELSE awaits[d]
    BY <1>5 DEF TradeInv, TypeOK, Waiting
  <2>2. ActsAlone(c) BY <1>1, <1>2, <1>5, <2>1 DEF ActsAlone
  <2>3. RetryTells(c)' BY <1>1, <1>3, <2>1 DEF RetryTells, Trying
  <2> QED BY <1>1, <1>5, <2>1, <2>2, <2>3, CalmClaim
<1>6. CASE SettleOffered(c)
  <2> DEFINE s == Settlement(c, "B", 0)
  <2>1. s.claim = c /\ s.of = Offered[c] BY DEF Settlement, BalanceOf
  <2>2. /\ pc[c] = "settleB" /\ settled' = settled \cup {s} /\ got' = [got EXCEPT ![c]["B"] = s]
        /\ Enter(c, "settleA", 1) /\ UNCHANGED mail
    BY <1>6 DEF SettleOffered
  <2> HIDE DEF s
  <2>3. \A d \in Claims : d # c => got'[d] = got[d] BY <1>3, <2>2
  <2> QED BY <1>3, <1>4, <2>1, <2>2, <2>3
<1>7. CASE SettlePosted(c)
  <2> DEFINE s == Settlement(c, "A", 0)
  <2>1. s.claim = c BY DEF Settlement
  <2>2. /\ pc[c] = "settleA" /\ ~ Foreign(Posted) /\ settled' = settled \cup {s} /\ got' = [got EXCEPT ![c]["A"] = s]
        /\ pc' = [pc EXCEPT ![c] = "mailA"] /\ UNCHANGED <<mail, awaits, requests>> /\ awaits[c] = None
    BY <1>7 DEF SettlePosted, Moves, TradeInv, Waiting, Asking, BalanceOf, LegOf
  <2> HIDE DEF s
  <2>3. awaits' = [awaits EXCEPT ![c] = None] /\ \A d \in Claims : d # c => got'[d] = got[d]
    BY <1>3, <2>2 DEF TradeInv, Waiting
  <2> QED BY <1>5, <2>1, <2>2, <2>3
<1>8. CASE MailPoster(c)
  <2>1. /\ pc[c] = "mailA" /\ mail' = mail \cup {Delivered(c)} /\ pc' = [pc EXCEPT ![c] = "close"]
        /\ UNCHANGED <<settled, got, awaits, requests>> /\ awaits[c] = None
    BY <1>8 DEF MailPoster, Moves, TradeInv, Waiting, Asking
  <2>2. Delivered(c).claim = c BY <2>1 DEF Paying, Stage, Past
  <2>3. Delivered(c) \notin undone BY <2>1, <2>2 DEF Paying, Books
  <2>4. \E s \in settled : s.of = Posted /\ s.claim = c BY <2>1 DEF Paying, Stage
  <2>5. awaits' = [awaits EXCEPT ![c] = None] BY <2>1 DEF TradeInv, Waiting
  <2> QED BY <1>5, <2>1, <2>2, <2>3, <2>4, <2>5
<1>9. CASE SettleAnswered(c)
  <2>1. pc[c] \in {"settleB", "settleA"} /\ UNCHANGED <<settled, mail>>
    BY <1>1, <1>9 DEF SettleAnswered, TradeInv, Waiting, Asking
  <2>2. \A d \in Claims : d # c => got'[d] = got[d] BY <1>3, <1>9 DEF SettleAnswered
  <2>3. CASE pc[c] = "settleB" BY <1>4, <1>9, <2>1, <2>2, <2>3 DEF SettleAnswered
  <2>4. CASE pc[c] = "settleA" BY <1>5, <1>9, <2>1, <2>2, <2>4 DEF SettleAnswered, Moves
  <2> QED BY <2>1, <2>3, <2>4
<1> QED BY <1>6, <1>7, <1>8, <1>9 DEF Settling

-----------------------------------------------------------------------------
(* The other domain.                                                       *)

\* Only the claim that holds the poster's balance has requests about it, one at most.
LEMMA OneForPosted ==
  ASSUME TradeAssumption, TradeInv, Paying, NEW r \in requests, About(r) = Posted
  PROVE  /\ \A q \in requests : About(q) = Posted => q = r
         /\ \A c \in Claims : HasChecked(c, "A") => c = r.claim
         /\ r.step \notin Locking => r.step = "settleA"
<1>1. \A c \in Claims : HasChecked(c, "A") => spendLock[Posted] = c
  BY DEF TradeInv, Holding, BalanceOf, Legs
<1>2. spendLock[Posted] = r.claim BY OfRequest
<1>3. \A q \in requests : About(q) = Posted => spendLock[Posted] = q.claim BY OfRequest
<1>4. r.step \notin Locking => r.step = "settleA" BY OfRequest DEF LegOf
<1> QED BY <1>1, <1>2, <1>3, <1>4 DEF Paying, Connected

LEMMA AboutPosted ==
  ASSUME TradeInv, Paying, NEW r \in requests, r.step = "settleA"
  PROVE  /\ About(r) = Posted /\ Foreign(Posted) /\ HasChecked(r.claim, "A") /\ r.claim \in Claims
         /\ Trying(r.claim, r.try, "nothing")
BY DEF TradeInv, Relayed, Paying, Connected, About, LegOf, BalanceOf, HasChecked, Asking, Trying

\* A settlement that has only been looked up is not made for anybody.
LEMMA LookedIsUnsettled ==
  ASSUME TradeAssumption, TradeInv, Paying, Calm, NEW r \in requests, r.step = "settleA", r.at = "looked"
  PROVE  \A s \in settled : s.of # Posted
<1>1. recorded[Posted] = None /\ Foreign(Posted) BY AboutPosted DEF Calm, PeerSettles
<1>2. ASSUME NEW s \in settled, s.of = Posted, Underway(s) PROVE FALSE
  <2>1. PICK q \in requests : q.step = "settleA" /\ q.at = "revoked" BY <1>2 DEF Underway
  <2> QED BY <2>1, OneForPosted, AboutPosted
<1> QED BY <1>1, <1>2 DEF Calm, Mails, Mailed

\* What becomes of the tries when r is answered.
LEMMA TriesKept ==
  ASSUME TradeAssumption, TradeInv, Paying, Calm, NEW r \in requests, NEW says \in {"ok", "no"}, NEW payment,
         Reply(r, says, payment), UNCHANGED <<pc, settled, refunds>>, revoked \subseteq revoked',
         losses' = losses \/ losses' = 1, \A c \in Claims : pc[c] = "settleA" /\ Dead(c) => Dead(c)',
         r.step = "settleA" =>
           /\ says = "ok" => (r.try = 2 => losses' = 1)
           /\ says = "no" => Dead(r.claim) \/ (losses' = 1 /\ (r.try = 2 => NotFor(r.claim)))
  PROVE  \A c \in Claims : RetryTells(c)'
<1> SUFFICES ASSUME NEW c \in Claims PROVE RetryTells(c)' OBVIOUS
<1>1. NotFor(c) <=> NotFor(c)' BY DEF NotFor
<1>2. CASE c # r.claim
  <2>1. awaits'[c] = awaits[c] BY <1>2 DEF Reply
  <2> QED BY <1>1, <2>1 DEF Calm, RetryTells, Trying
<1>3. CASE c = r.claim
  <2>1. pc[c] = r.step /\ awaits[c] # None /\ awaits[c].try = r.try /\ awaits[c].says = "nothing" /\ awaits[c] \in Waits
    BY <1>3 DEF Paying, Connected, TradeInv, Waiting
  <2>2. awaits'[c] = [awaits[c] EXCEPT !.says = says, !.payment = payment] BY <1>3, <2>1 DEF Reply
  <2>3. awaits'[c].says = says /\ awaits'[c].try = r.try BY <2>1, <2>2 DEF Waits
  <2>4. Dead(c) => NotFor(c) BY DEF Dead
  <2> QED BY <1>1, <1>3, <2>1, <2>3, <2>4 DEF Calm, RetryTells, Trying
<1> QED BY <1>2, <1>3

LEMMA ServeCalm ==
  ASSUME TradeAssumption, TradeInv, TradeInv', Paying, Calm, NEW r \in requests, Serve(r) \/ LoseRequest(r),
         ~ outlived, losses' <= 1
  PROVE  Calm'
<1> USE DEF ledger, peer, locks, handlers, bounds
<1>1. UNCHANGED <<issuer, undone, refunds, spendLock, pc, got>>
  BY DEF Serve, RelayLock, RelaySettleLooks, RelaySettleChecks, RelaySettleRevokes, RelaySettleRecords,
     LoseRequest
<1>2. r.claim \in Claims /\ r.step \in Asking /\ (r.step \notin Locking => r.step \in {"settleB", "settleA"})
  BY OfRequest
<1>3. Payment(r).claim = r.claim /\ Payment(r).of = About(r) BY DEF Payment, Settlement, About
\* r is answered, with nothing settled and nothing recorded
<1>4. ASSUME UNCHANGED <<settled, mail, recorded, peerLock>>, losses' = losses \/ losses' = 1,
             requests' = requests \ {r}, ~ InHand(r), \A c \in Claims : RetryTells(c)'
      PROVE  Calm'
  <2>1. PeerSettles'
    BY <1>1, <1>4 DEF Calm, PeerSettles, NotFor, InHand, About, BalanceOf
  <2>2. \A s \in settled : Underway(s) => Underway(s)'
    BY <1>1, <1>4 DEF Underway, InHand, Payment, Settlement, BalanceOf
  <2>3. Mails' BY <1>1, <1>4, <2>2 DEF Calm, Mails, Mailed, Foreign
  <2> QED BY <1>4, <2>1, <2>3 DEF Calm
\* r goes a step further
<1>5. ASSUME NEW at \in {"looked", "checked", "revoked"}, r.step \notin Locking,
             requests' = (requests \ {r}) \cup {[r EXCEPT !.at = at]},
             UNCHANGED <<mail, recorded, awaits, losses, suspended>>, revoked \subseteq revoked',
             InHand(r) => at = "revoked", peerLock'[Posted] # None => peerLock[Posted] # None \/ at # "looked",
             \/ UNCHANGED settled /\ at # "revoked"
             \/ at = "revoked" /\ r.at = "checked" /\ settled' = settled \cup {Payment(r)},
             r.step = "settleA" =>
               /\ at \in {"looked", "checked"} => recorded[Posted] = None
               /\ at = "checked" => NotFor(r.claim)
               /\ r.try = 2 /\ losses = 0 => at = "looked",
             r.step # "settleA" => peerLock'[Posted] = peerLock[Posted]
      PROVE  Calm'
  <2> DEFINE q == [r EXCEPT !.at = at]
  <2>1. q.claim = r.claim /\ q.step = r.step /\ q.try = r.try /\ q.at = at BY DEF TradeInv, Relayed
  <2>2. About(q)' = About(r) /\ Payment(q)' = Payment(r) /\ (InHand(q) <=> at # "looked")
    BY <1>1, <2>1 DEF About, Payment, Settlement, BalanceOf, InHand
  <2>3. q \in requests' /\ \A p \in requests' : p = q \/ (p \in requests /\ p # r) BY <1>5
  <2>4. \A p \in requests : p # r => p \in requests' BY <1>5
  <2> HIDE DEF q
  <2>5. \A c \in Claims : NotFor(c) /\ (c # r.claim \/ at # "revoked" \/ r.step # "settleA") => NotFor(c)'
    <3>1. r.step = "settleB" => About(r) # Posted BY OfRequest DEF LegOf
    <3>2. r.step \in {"settleB", "settleA"} BY <1>2, <1>5
    <3> QED BY <1>3, <1>5, <3>1, <3>2 DEF NotFor
  <2>6. ASSUME NEW c \in Claims PROVE RetryTells(c)'
    <3>1. CASE c # r.claim \/ at # "revoked" \/ r.step # "settleA"
      BY <1>1, <1>5, <2>5, <3>1 DEF Calm, RetryTells, Trying, Dead
    <3>2. CASE c = r.claim /\ at = "revoked" /\ r.step = "settleA"
      <4>1. Trying(c, r.try, "nothing") /\ r.try \in 1..2 BY <3>2, AboutPosted DEF TradeInv, Relayed
      <4>2. r.try = 2 => losses = 1
        <5>1. losses' \in Nat BY DEF TradeInv, TypeOK, TradeAssumption
        <5>2. r.try = 2 => losses # 0 /\ losses' = losses BY <1>5, <3>2
        <5> QED BY <5>1, <5>2
      <4>3. pc[c] = "settleA" /\ c \notin refunds /\ awaits[c].says = "nothing" /\ awaits[c].try = r.try
        BY <4>1 DEF Trying, Calm, RetryTells
      <4> QED BY <1>1, <1>5, <4>2, <4>3 DEF RetryTells, Trying
    <3> QED BY <3>1, <3>2
  <2>7. PeerSettles'
    <3>1. ASSUME NEW p \in requests', p.step = "settleA"
          PROVE  /\ p.at \in {"looked", "checked"} => recorded'[Posted] = None
                 /\ p.at = "checked" => NotFor(p.claim)'
                 /\ p.try = 2 /\ losses' = 0 => p.at \in {"sent", "looked"}
      <4>1. CASE p = q BY <1>2, <1>5, <2>1, <2>5, <3>1, <4>1
      <4>2. CASE p # q
        <5>1. p \in requests /\ p # r BY <2>3, <4>2
        <5>2. p.claim # r.claim /\ p.claim \in Claims BY <5>1 DEF Paying, Connected, TradeInv, Relayed
        <5> QED BY <1>5, <2>5, <3>1, <5>1, <5>2 DEF Calm, PeerSettles
      <4> QED BY <4>1, <4>2
    <3>2. ASSUME peerLock'[Posted] # None PROVE (\E p \in requests : InHand(p) /\ About(p) = Posted)'
      <4>1. CASE r.step = "settleA"
        <5>1. About(r) = Posted BY <4>1, AboutPosted
        <5>2. CASE at # "looked" BY <2>2, <2>3, <5>1, <5>2 DEF InHand
        <5>3. CASE at = "looked"
          <6>1. PICK p \in requests : InHand(p) /\ About(p) = Posted BY <1>5, <3>2, <5>3 DEF Calm, PeerSettles
          <6>2. p # r BY <1>5, <5>3, <6>1
          <6> QED BY <1>1, <2>4, <6>1, <6>2 DEF InHand, About, BalanceOf
        <5> QED BY <5>2, <5>3
      <4>2. CASE r.step # "settleA"
        <5>1. PICK p \in requests : InHand(p) /\ About(p) = Posted BY <1>5, <3>2, <4>2 DEF Calm, PeerSettles
        <5>2. p # r
          <6>1. About(r) # Posted BY <1>2, <1>5, <4>2, OfRequest DEF LegOf
          <6> QED BY <5>1, <6>1
        <5> QED BY <1>1, <2>4, <5>1, <5>2 DEF InHand, About, BalanceOf
      <4> QED BY <4>1, <4>2
    <3> QED BY <3>1, <3>2 DEF PeerSettles
  <2>8. Mails'
    <3>1. ASSUME NEW s \in settled', s.of = Posted PROVE Underway(s)' \/ Mailed(s)'
      <4>1. CASE s \in settled
        <5>1. CASE Mailed(s) BY <1>1, <1>5, <5>1 DEF Mailed, Foreign
        <5>2. CASE Underway(s)
          <6>1. PICK p \in requests : p.step = "settleA" /\ p.at = "revoked" /\ Payment(p) = s
            BY <5>2 DEF Underway
          <6>2. p # r BY <1>5, <6>1 DEF InHand
          <6>3. Payment(p)' = Payment(p) BY <1>1 DEF Payment, Settlement, BalanceOf
          <6> QED BY <2>4, <6>1, <6>2, <6>3 DEF Underway
        <5> QED BY <3>1, <4>1, <5>1, <5>2 DEF Calm, Mails
      <4>2. CASE s \notin settled
        <5>1. s = Payment(r) /\ at = "revoked" BY <1>5, <4>2
        <5>2. r.step = "settleA" BY <1>2, <1>5, <3>1, <5>1, OfRequest DEF LegOf, Payment, Settlement, About
        <5> QED BY <2>1, <2>2, <2>3, <5>1, <5>2 DEF Underway
      <4> QED BY <4>1, <4>2
    <3>2. settled \subseteq settled' BY <1>5
    <3> QED BY <1>1, <1>5, <3>1, <3>2 DEF Calm, Mails
  <2> QED BY <2>6, <2>7, <2>8 DEF Calm
\* a settlement of the poster's balance is alone with it
<1>6. r.step = "settleA" =>
        /\ About(r) = Posted /\ Foreign(Posted) /\ HasChecked(r.claim, "A") /\ Trying(r.claim, r.try, "nothing")
        /\ \A q \in requests : About(q) = Posted => q = r
        /\ r.try = 2 => Dead(r.claim) \/ losses = 1
        /\ Delivered(r.claim).claim = r.claim /\ Delivered(r.claim) \notin undone /\ r.try \in 1..2
  <2> SUFFICES ASSUME r.step = "settleA"
               PROVE  /\ About(r) = Posted /\ Foreign(Posted) /\ HasChecked(r.claim, "A")
                      /\ Trying(r.claim, r.try, "nothing")
                      /\ \A q \in requests : About(q) = Posted => q = r
                      /\ r.try = 2 => Dead(r.claim) \/ losses = 1
                      /\ Delivered(r.claim).claim = r.claim /\ Delivered(r.claim) \notin undone /\ r.try \in 1..2
    OBVIOUS
  <2>1. /\ About(r) = Posted /\ Foreign(Posted) /\ HasChecked(r.claim, "A")
        /\ Trying(r.claim, r.try, "nothing")
    BY AboutPosted
  <2>2. Delivered(r.claim).claim = r.claim /\ Delivered(r.claim) \notin undone
    BY <1>2, <2>1 DEF Trying, Paying, Stage, Past, Books
  <2> QED BY <1>2, <2>1, <2>2, OneForPosted DEF Calm, RetryTells, TradeInv, Relayed
<1>7. ASSUME UNCHANGED <<settled, suspended>>, revoked \subseteq revoked', NEW c \in Claims, Dead(c) PROVE Dead(c)'
  BY <1>7 DEF Dead, NotFor
<1>8. CASE RelayLock(r)
  <2>1. PICK says \in {"ok", "no"} : Reply(r, says, None) BY <1>8 DEF RelayLock
  <2>2. /\ r.step \in Locking /\ UNCHANGED <<settled, mail, revoked, recorded, peerLock, losses>>
        /\ suspended' \subseteq suspended \cup {About(r)}
    BY <1>8 DEF RelayLock
  <2>3. ASSUME NEW c \in Claims, pc[c] = "settleA", Dead(c) PROVE Dead(c)'
    <3>1. About(r) # Posted
      <4>1. HasChecked(c, "A") /\ c # r.claim BY <2>2, <2>3, OfRequest DEF HasChecked, Asking, Locking
      <4> QED BY <4>1, OneForPosted
    <3> QED BY <2>2, <2>3, <3>1 DEF Dead, NotFor
  <2>4. r.step # "settleA" /\ ~ InHand(r) BY <2>2 DEF Locking, InHand, TradeInv, Relayed
  <2>5. \A c \in Claims : RetryTells(c)' BY <1>1, <2>1, <2>2, <2>3, <2>4, TriesKept
  <2> QED BY <1>4, <2>1, <2>2, <2>4, <2>5 DEF Reply
<1>9. CASE LoseRequest(r)
  <2>1. /\ Reply(r, "no", None) /\ r.at = "sent" /\ losses' = losses + 1
        /\ UNCHANGED <<settled, mail, revoked, recorded, peerLock, suspended>>
    BY <1>9 DEF LoseRequest, Loss
  <2>2. losses = 0 /\ losses' = 1 BY <2>1 DEF TradeInv, TypeOK, TradeAssumption
  <2>3. r.step = "settleA" => (r.try = 2 => NotFor(r.claim)) BY <1>6, <2>2 DEF Dead
  <2>4. \A c \in Claims : RetryTells(c)' BY <1>1, <1>7, <2>1, <2>2, <2>3, TriesKept
  <2> QED BY <1>4, <2>1, <2>2, <2>4 DEF Reply, InHand
<1>10. CASE RelaySettleLooks(r)
  <2>1. /\ r.at = "sent" /\ r.step \notin Locking
        /\ UNCHANGED <<settled, mail, revoked, recorded, peerLock, suspended, losses>>
    BY <1>10 DEF RelaySettleLooks
  <2>2. CASE recorded[About(r)] # None
    <3>1. Reply(r, "ok", recorded[About(r)]) BY <1>10, <2>2 DEF RelaySettleLooks, Recorded
    <3>2. r.step = "settleA" => ~ NotFor(r.claim)
      <4> SUFFICES ASSUME r.step = "settleA" PROVE ~ NotFor(r.claim) OBVIOUS
      <4> DEFINE s == recorded[Posted]
      <4>1. s \in settled /\ s.of = Posted BY <1>6, <2>2 DEF TradeInv, TypeOK, Paying, Books, Balances
      <4>2. Secured(r.claim, "A") BY <1>6 DEF Secured, Trying, Past
      <4>3. s.claim = r.claim BY <1>2, <4>1, <4>2 DEF Paying, Own, BalanceOf, Legs
      <4> QED BY <4>1, <4>3 DEF NotFor
    <3>3. r.step = "settleA" => (r.try = 2 => losses' = 1) BY <1>6, <2>1, <3>2 DEF Dead
    <3>4. \A c \in Claims : RetryTells(c)' BY <1>1, <1>7, <2>1, <3>1, <3>3, TriesKept
    <3> QED BY <1>4, <2>1, <3>1, <3>4 DEF Reply, InHand
  <2>3. CASE recorded[About(r)] = None
    <3>1. requests' = (requests \ {r}) \cup {[r EXCEPT !.at = "looked"]} /\ UNCHANGED awaits
      BY <1>10, <2>3 DEF RelaySettleLooks, Recorded
    <3> QED BY <1>5, <1>6, <2>1, <2>3, <3>1 DEF InHand
  <2> QED BY <2>2, <2>3
<1>11. CASE RelaySettleChecks(r)
  <2>1. /\ r.at = "looked" /\ r.step \notin Locking
        /\ UNCHANGED <<settled, mail, revoked, recorded, suspended, losses>>
    BY <1>11 DEF RelaySettleChecks
  <2>2. r.step = "settleA" => NotFor(r.claim) /\ recorded[Posted] = None
    BY <2>1, LookedIsUnsettled DEF NotFor, Calm, PeerSettles
  <2>3. CASE Free(peerLock, About(r)) /\ MaySettle(r)
    <3>1. /\ peerLock' = [peerLock EXCEPT ![About(r)] = Payment(r)] /\ UNCHANGED awaits
          /\ requests' = (requests \ {r}) \cup {[r EXCEPT !.at = "checked"]}
      BY <1>11, <2>3 DEF RelaySettleChecks
    <3>2. r.step = "settleA" => (r.try = 2 => losses # 0)
      BY <1>6, <2>3 DEF MaySettle, StillLocked, Dead
    <3>3. r.step # "settleA" => peerLock'[Posted] = peerLock[Posted]
      BY <1>2, <2>1, <3>1, OfRequest DEF LegOf, TradeInv, TypeOK, Balances
    <3> QED BY <1>5, <2>1, <2>2, <3>1, <3>2, <3>3 DEF InHand
  <2>4. CASE ~ (Free(peerLock, About(r)) /\ MaySettle(r))
    <3>1. Reply(r, "no", None) /\ UNCHANGED peerLock BY <1>11, <2>4 DEF RelaySettleChecks
    <3>2. r.step = "settleA" => Dead(r.claim)
      <4> SUFFICES ASSUME r.step = "settleA" PROVE Dead(r.claim) OBVIOUS
      <4>1. peerLock[Posted] = None BY <1>6, <2>1 DEF Calm, PeerSettles, InHand
      <4>2. Posted \in revoked \/ Posted \notin suspended
        BY <1>6, <2>4, <4>1 DEF Free, MaySettle, StillLocked
      <4> QED BY <2>2, <4>2 DEF Dead
    <3>3. \A c \in Claims : RetryTells(c)' BY <1>1, <1>7, <2>1, <3>1, <3>2, TriesKept
    <3> QED BY <1>4, <2>1, <3>1, <3>3 DEF Reply, InHand
  <2> QED BY <2>3, <2>4
<1>12. CASE RelaySettleRevokes(r)
  <2>1. /\ r.at = "checked" /\ r.step \notin Locking /\ revoked \subseteq revoked'
        /\ settled' = settled \cup {Payment(r)} /\ requests' = (requests \ {r}) \cup {[r EXCEPT !.at = "revoked"]}
        /\ UNCHANGED <<mail, recorded, awaits, losses, suspended, peerLock>>
    BY <1>12 DEF RelaySettleRevokes
  <2>2. r.step = "settleA" => ~ (r.try = 2 /\ losses = 0) BY <2>1 DEF Calm, PeerSettles
  <2> QED BY <1>5, <2>1, <2>2
<1>13. CASE RelaySettleRecords(r)
  <2>1. /\ r.at = "revoked" /\ r.step \notin Locking /\ mail' = mail \cup Notice(r)
        /\ suspended' = suspended \ {About(r)}
        /\ recorded' = [recorded EXCEPT ![About(r)] = IF @ = None THEN Payment(r) ELSE @]
        /\ peerLock' = [peerLock EXCEPT ![About(r)] = IF @ = Payment(r) THEN None ELSE @] /\ Reply(r, "ok", Payment(r))
        /\ UNCHANGED <<revoked, settled, losses>>
    BY <1>13 DEF RelaySettleRecords
  <2>2. r.step = "settleA" => (r.try = 2 => losses' = 1)
    <3>1. r.step = "settleA" /\ r.try = 2 => losses # 0 BY <2>1 DEF Calm, PeerSettles
    <3>2. losses' = losses BY <2>1
    <3>3. losses \in Nat BY DEF TradeInv, TypeOK, TradeAssumption
    <3> QED BY ONLY <3>1, <3>2, <3>3, losses' <= 1
  <2>3. \A c \in Claims : Dead(c) => Dead(c)' BY <2>1 DEF Dead, NotFor
  <2>4. \A c \in Claims : RetryTells(c)' BY <1>1, <2>1, <2>2, <2>3, TriesKept
  <2>5. Payment(r) \in settled /\ requests' = requests \ {r} BY <2>1 DEF TradeInv, Relayed, Reply
  <2>6. CASE r.step = "settleB"
    <3>1. About(r) # Posted /\ About(r) \in Balances BY <2>6, OfRequest DEF LegOf
    <3>2. recorded'[Posted] = recorded[Posted] /\ peerLock'[Posted] = peerLock[Posted] /\ mail' = mail
      BY <2>1, <2>6, <3>1 DEF TradeInv, TypeOK, Balances, Notice
    <3>3. PeerSettles'
      BY <1>1, <2>1, <2>5, <3>1, <3>2 DEF Calm, PeerSettles, NotFor, InHand, About, BalanceOf
    <3>4. \A s \in settled : s.of = Posted /\ Underway(s) => Underway(s)'
      BY <1>1, <1>3, <2>5, <3>1 DEF Underway, Payment, Settlement, BalanceOf
    <3>5. Mails' BY <1>1, <2>1, <3>2, <3>4 DEF Calm, Mails, Mailed, Foreign
    <3> QED BY <2>4, <3>3, <3>5 DEF Calm
  <2>7. CASE r.step = "settleA"
    <3>1. About(r) = Posted /\ Posted \in Balances /\ Foreign(Posted) BY <1>6, <2>7 DEF Balances
    <3>2. recorded'[Posted] # None /\ peerLock'[Posted] = None /\ mail' = mail \cup {Delivered(r.claim)}
      <4>1. Payment(r) # None BY <2>5 DEF TradeInv, TypeOK, TradeAssumption
      <4>2. peerLock[Posted] = Payment(r) BY <2>1, <3>1 DEF TradeInv, Relayed, InHand
      <4> QED BY <2>1, <2>7, <3>1, <4>1, <4>2 DEF TradeInv, TypeOK, Notice
    <3>3. \A q \in requests' : q.step # "settleA"
      BY <1>6, <2>5, <2>7, AboutPosted
    <3>4. PeerSettles' BY <3>2, <3>3 DEF PeerSettles
    <3>5. ASSUME NEW s \in settled, s.of = Posted PROVE \E m \in mail' : m.claim = s.claim
      <4>1. s.claim = r.claim
        <5>1. Secured(r.claim, "A") BY <1>6, <2>7 DEF Secured, Trying, Past
        <5> QED BY <1>2, <3>5, <5>1 DEF Paying, Own, BalanceOf, Legs
      <4> QED BY <1>6, <2>7, <3>2, <4>1
    <3>6. mail' \cap undone' = {} BY <1>1, <1>6, <2>7, <3>2 DEF Calm, Mails
    <3>7. ASSUME NEW m \in mail' PROVE \E s \in settled' : s.of = Posted /\ s.claim = m.claim
      <4>1. CASE m \in mail BY <2>1, <4>1 DEF Calm, Mails
      <4>2. CASE m = Delivered(r.claim) BY <1>3, <1>6, <2>1, <2>5, <2>7, <3>1, <4>2
      <4> QED BY <3>2, <4>1, <4>2
    <3>8. Mails' BY <2>1, <3>2, <3>5, <3>6, <3>7 DEF Mails, Mailed
    <3> QED BY <2>4, <3>4, <3>8 DEF Calm
  <2> QED BY <1>2, <2>1, <2>6, <2>7
<1> QED BY <1>8, <1>9, <1>10, <1>11, <1>12, <1>13 DEF Serve

-----------------------------------------------------------------------------
(* The owners, and the theorem.                                            *)

LEMMA ElsewhereCalm ==
  ASSUME TradeInv, Calm,
         \/ Submit \/ Withdraw \/ UNCHANGED vars
         \/ \E b \in Balances : OwnerSpends(b) \/ SuspensionEnds(b)
  PROVE  Calm'
<1> USE DEF ledger, peer, locks, handlers, bounds
<1>1. /\ UNCHANGED <<issuer, settled, undone, refunds, mail, recorded, peerLock, handlers, requests, losses>>
      /\ revoked \subseteq revoked' /\ suspended' \subseteq suspended
  BY DEF Submit, Withdraw, OwnerSpends, SuspensionEnds, vars
<1>2. \A c \in Claims : RetryTells(c)' BY <1>1 DEF Calm, RetryTells, Trying, Dead, NotFor
<1>3. PeerSettles' BY <1>1 DEF Calm, PeerSettles, NotFor, InHand, About, BalanceOf
<1>4. Mails' BY <1>1 DEF Calm, Mails, Mailed, Underway, Payment, Settlement, BalanceOf, Foreign
<1> QED BY <1>2, <1>3, <1>4 DEF Calm

CalmInv == PayInv /\ (Undisturbed /\ losses <= 1 => Calm)

LEMMA CalmNext == ASSUME TradeAssumption, CalmInv, [Next]_vars PROVE CalmInv'
<1> USE DEF ledger, peer, locks, handlers, bounds
<1>1. PayInv /\ PayInv' BY PayNext DEF CalmInv
<1>2. TradeInv /\ TradeInv' BY <1>1 DEF PayInv
<1> SUFFICES ASSUME stops' = 0, ~ outlived', losses' <= 1 PROVE Calm' BY <1>1 DEF CalmInv, Undisturbed
<1>3. stops \in Nat /\ losses \in Nat /\ losses' \in Nat BY <1>2 DEF TradeInv, TypeOK, TradeAssumption
<1>4. ASSUME stops = stops', losses = losses' \/ losses' = losses + 1, ~ outlived PROVE Calm /\ Paying
  <2>1. stops = 0 /\ losses <= 1 BY <1>3, <1>4
  <2> QED BY <1>1, <1>4, <2>1 DEF CalmInv, PayInv, Undisturbed
<1>5. CASE Submit \/ Withdraw \/ UNCHANGED vars \/ \E b \in Balances : OwnerSpends(b) \/ SuspensionEnds(b)
  <2>1. UNCHANGED bounds BY <1>5 DEF Submit, Withdraw, OwnerSpends, SuspensionEnds, vars
  <2> QED BY <1>2, <1>4, <1>5, <2>1, ElsewhereCalm
<1>6. ~ StationStops /\ ~ PeerStops BY <1>3 DEF StationStops, PeerStops, Stop
<1>7. ASSUME NEW c \in Claims, Arrive(c) \/ Busy(c) \/ Claim(c) \/ LoseAnswer(c) \/ Outlives(c) PROVE Calm'
  <2>1. ~ Outlives(c) BY DEF Outlives
  <2>2. Beginning(c) \/ Going(c) \/ Settling(c) BY <1>7, <2>1 DEF Claim, Beginning, Going, Settling
  <2>3. UNCHANGED <<outlived, stops>> /\ (losses' = losses \/ losses' = losses + 1)
    <3>1. CASE Beginning(c)
      BY <3>1 DEF Beginning, Arrive, Busy, CheckOffered, CheckPosted, DropListing, PassesCheck, FailsCheck,
         LostDocument
    <3>2. CASE Going(c)
      BY <2>1, <3>2
         DEF Going, LockAnswered, TriesAgain, FirstLegFails, LoseAnswer, SecondLegFails, Refund, Close, Loss
    <3>3. CASE Settling(c) BY <3>3 DEF Settling, SettleOffered, SettlePosted, MailPoster, SettleAnswered
    <3> QED BY <2>2, <3>1, <3>2, <3>3
  <2> QED BY <1>2, <1>4, <2>1, <2>2, <2>3, BeginCalm, GoingCalm, SettlingCalm
<1>8. ASSUME NEW r \in requests, Serve(r) \/ LoseRequest(r) PROVE Calm'
  <2>1. UNCHANGED <<outlived, stops>> /\ (losses' = losses \/ losses' = losses + 1)
    BY <1>8 DEF Serve, RelayLock, RelaySettleLooks, RelaySettleChecks, RelaySettleRevokes, RelaySettleRecords,
       LoseRequest, Loss
  <2> QED BY <1>2, <1>4, <1>8, <2>1, ServeCalm
<1> QED BY <1>5, <1>6, <1>7, <1>8 DEF Next

LEMMA CalmHolds == Spec => []CalmInv
<1>1. ASSUME Init PROVE CalmInv
  <2>1. Calm
    BY <1>1 DEF Init, Calm, RetryTells, Trying, PeerSettles, Mails, NotFor, Balances
  <2> QED BY <1>1, <2>1, PayInit, TradeAssumption DEF CalmInv
<1>2. CalmInv /\ [Next]_vars => CalmInv' BY TradeAssumption, CalmNext
<1> QED BY <1>1, <1>2, PTL DEF Spec

\* While nothing has stopped or outlived its connection and one message at most
\* was lost, the poster is mailed what the balance was spent for, that is never
\* taken back, and only a claimant it was not spent for is refunded: the one
\* retry of relayTradeSettle tells a settlement that failed from a lost answer.
THEOREM PosterPaid == Spec => []PosterIsPaid
<1>1. CalmInv => PosterIsPaid
  <2> SUFFICES ASSUME CalmInv, Undisturbed, losses <= 1
               PROVE  /\ mail \cap undone = {}
                      /\ \A s \in settled : s.of = Posted /\ pc[s.claim] = "done" =>
                           \E m \in mail : m.claim = s.claim
                      /\ \A c \in refunds : ~ \E s \in settled : s.of = Posted /\ s.claim = c
    BY DEF PosterIsPaid, RetryIsSafe
  <2>1. Calm /\ Paying /\ TradeInv BY DEF CalmInv, PayInv, Undisturbed
  <2>2. ASSUME NEW s \in settled, s.of = Posted, pc[s.claim] = "done" PROVE \E m \in mail : m.claim = s.claim
    <3>1. CASE Mailed(s) BY <2>2, <3>1 DEF Mailed
    <3>2. CASE Underway(s)
      <4>1. PICK r \in requests : r.step = "settleA" /\ Payment(r) = s BY <3>2 DEF Underway
      <4>2. s.claim = r.claim BY <4>1 DEF Payment, Settlement
      <4> QED BY <2>1, <2>2, <4>1, <4>2 DEF Paying, Connected
    <3> QED BY <2>1, <2>2, <3>1, <3>2 DEF Calm, Mails
  <2>3. \A c \in refunds : NotFor(c) BY <2>1 DEF TradeInv, TypeOK, Calm, RetryTells
  <2> QED BY <2>1, <2>2, <2>3 DEF Calm, Mails, NotFor
<1> QED BY <1>1, CalmHolds, PTL

====
