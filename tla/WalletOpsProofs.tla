---------------------------- MODULE WalletOpsProofs ----------------------------
(***************************************************************************)
(* What the wallet's journal is for: a result the issuer signed is not     *)
(* lost, nothing spent is offered as if it were not, and no request is     *)
(* carried out twice unasked, for any number of pages, requests, faults    *)
(* and restored backups.                                                   *)
(***************************************************************************)
EXTENDS WalletOps, TLAPS

\* Is a page about to send k, or at it, or may a copy still be carried out?
Sent(k) == k \in slow \/ \E p \in Pages : page[p].at = "sent" /\ page[p].op = k
Out(k)  == k \in slow \/ \E p \in Pages : page[p].op = k \/ k \in page[p].queue

\* A request that has not been journalled yet has left no trace.
Untouched(k) ==
  /\ journal[k] = None /\ issued[k] = 0 /\ k \notin slow \cup stored \cup aged \cup asked \cup loose
  /\ \A p \in Pages : page[p].op # k /\ k \notin page[p].queue
  /\ backup # None => k \notin backup.knows /\ backup.journal[k] = None

\* What a page is at: it plans a request that nobody else plans, or sends one.
PageKnows(p) ==
  /\ page[p].at = "idle" => page[p] = Rest
  /\ page[p].at = "waiting" => page[p].mode = "manual" /\ page[p].queue = {}
  /\ page[p].at = "recover" => page[p].mode = "recovery"
  /\ page[p].at \in {"check", "ready"} => page[p].plan \in Requests
  /\ page[p].plan # None =>
       /\ page[p].at \in {"check", "ready"} \/ page[p].mode = "recovery"
       /\ preds[page[p].plan] # None
       /\ \A q \in Pages : page[q].plan = page[p].plan => q = p
  /\ page[p].at \in {"waiting", "sent", "answered"} => page[p].op \in Requests
  /\ page[p].at \in {"sent", "answered"} =>
       page[p].op \notin page[p].queue /\ (page[p].mode = "fresh" => page[p].op \notin slow)
  /\ page[p].at = "sent" /\ page[p].mode = "fresh" => issued[page[p].op] = 0
  /\ page[p].at = "answered" =>
       /\ \E n \in 0..2 : page[p].answer = <<page[p].op, n>> /\ n <= issued[page[p].op]
       /\ page[p].answer = Refusal(page[p].op) /\ page[p].mode = "fresh" => issued[page[p].op] = 0

\* What the issuer carried out, it revoked the predecessors of, and it can tell
\* a repetition until the request is old; a unique mint goes out later only if a
\* person sends it.
IssuerKnows(k) ==
  /\ preds[k] # None => (Kind[k] = "replace" <=> preds[k] # {})
  /\ k \in stored => issued[k] > 0
  /\ issued[k] > 0 =>
       /\ preds[k] \subseteq revoked
       /\ k \in stored \cup aged
       /\ k \notin stored /\ Kind[k] = "item" /\ Sent(k) => k \in asked

\* A request whose entry is gone can no longer be carried out, or its result is
\* there, unless the entry ended too early: in what is stored and in the backup.
EndedIn(k, journalOf, listOf) ==
  journalOf[k] = None /\ k \notin loose =>
    /\ issued[k] = 0 => ~ Out(k)
    /\ issued[k] = 1 => <<k, 1>> \in listOf \cup revoked

Endings ==
  /\ \A k \in Journalled \ rolled : EndedIn(k, journal, list)
  /\ backup = None => rolled = {}
  /\ backup # None =>
       /\ backup \in [list : SUBSET Credentials, journal : [Requests -> {"pending", "needs-attention", None}],
                      knows : SUBSET Journalled]
       /\ \A k \in backup.knows : EndedIn(k, backup.journal, backup.list)
       /\ \A k \in backup.knows : backup.journal[k] = None => journal[k] = None

\* Without a backup, what was spent is held back by the very request that
\* spent it, and a result appears only when its entry goes.
Spending ==
  backup = None =>
    /\ \A c \in list \cap revoked : \E k \in Unfinished \cup loose : c \in preds[k] /\ issued[k] > 0
    /\ \A k \in Requests, n \in 1..2 : journal[k] # None \/ issued[k] < n =>
         /\ <<k, n>> \notin list \cup revoked
         /\ \A j \in Requests : preds[j] # None => <<k, n>> \notin preds[j]

WalletInv ==
  /\ TypeOK
  /\ \A k \in Requests \ Journalled : Untouched(k)
  /\ \A p \in Pages : PageKnows(p)
  /\ \A k \in Requests : IssuerKnows(k)
  /\ Endings /\ Spending /\ OneResultPerRequest

PageStates == [at : States, mode : Modes, op : Requests \cup {None}, plan : Requests \cup {None},
               queue : SUBSET Requests, answer : (Requests \X (0..2)) \cup {None}]

-----------------------------------------------------------------------------
(* A page goes on: it sends, ends a send, or ends an entry that came to     *)
(* nothing.                                                                 *)

LEMMA PageGoesOn ==
  ASSUME WalletAssumption, WalletInv, NEW p \in Pages, NEW pg \in PageStates,
         page' = [page EXCEPT ![p] = pg], pg.plan = page[p].plan,
         UNCHANGED <<list, preds, unlocked, backup, issuer, aged, rolled>>,
         LeaveBehind(p) \/ UNCHANGED slow,
         journal' \in [Requests -> {"pending", "needs-attention", None}],
         loose \subseteq loose', loose' \subseteq Requests,
         \A k \in Requests :
           \/ journal'[k] = journal[k]
           \/ /\ journal[k] # None
              /\ journal'[k] = "needs-attention" \/ (issued[k] = 0 /\ (Out(k)' => k \in loose')),
         asked \subseteq asked', asked' \subseteq Requests,
         \A k \in (asked' \ asked) \cup (loose' \ loose) : k \in Journalled,
         pg.at = "sent" /\ Kind[pg.op] = "item" /\ pg.op \in aged => pg.op \in asked',
         pg.op \in Journalled \cup {None}, pg.queue \subseteq Journalled,
         \A k \in Requests : pg.op = k \/ k \in pg.queue => Out(k) \/ journal[k] # None,
         pg.at \in {"sent", "answered"} =>
           \A q \in Pages : q # p /\ page[q].at \in {"sent", "answered"} => page[q].op # pg.op,
         PageKnows(p)'
  PROVE  WalletInv'
<1> USE DEF WalletInv, issuer
<1>1. \A q \in Pages : page'[q] = IF q = p THEN pg ELSE page[q] BY DEF TypeOK
<1>2. Journalled' = Journalled BY <1>1 DEF Journalled
<1>3. slow' = slow \/ (page[p].at = "sent" /\ slow' = slow \cup {page[p].op}) BY DEF LeaveBehind
<1>4. page[p].at = "sent" => page[p].op \in Requests /\ page[p].op \in Journalled
  <2> SUFFICES ASSUME page[p].at = "sent", page[p].op \notin Journalled, page[p].op \in Requests PROVE FALSE
    BY DEF PageKnows
  <2> QED BY DEF Untouched
<1>5. TypeOK'
  <2>1. slow' \subseteq Requests BY <1>3, <1>4 DEF TypeOK
  <2> QED BY <1>1, <2>1 DEF TypeOK, PageStates
<1>6. \A k \in Requests \ Journalled' : Untouched(k)'
  <2> SUFFICES ASSUME NEW k \in Requests, k \notin Journalled PROVE Untouched(k)' BY <1>2
  <2>1. Untouched(k) OBVIOUS
  <2>2. k \notin slow' /\ k \notin asked' /\ k \notin loose' BY <1>3, <1>4, <2>1 DEF Untouched
  <2>3. \A q \in Pages : page'[q].op # k /\ k \notin page'[q].queue
    BY <1>1, <2>1 DEF Untouched, WalletAssumption
  <2>4. journal'[k] = None BY <2>1 DEF Untouched
  <2> QED BY <2>1, <2>2, <2>3, <2>4 DEF Untouched
<1>7. \A q \in Pages : PageKnows(q)'
  <2> SUFFICES ASSUME NEW q \in Pages, q # p PROVE PageKnows(q)' OBVIOUS
  <2>1. page'[q] = page[q] /\ \A o \in Pages : page'[o].plan = page[o].plan BY <1>1
  <2>2. page[q].at \in {"sent", "answered"} => (page[q].op \in slow' <=> page[q].op \in slow)
    BY <1>3 DEF TypeOK
  <2> QED BY <2>1, <2>2 DEF PageKnows, Refusal
<1>8. \A k \in Requests : Sent(k)' => Sent(k) \/ (pg.at = "sent" /\ pg.op = k)
  BY <1>1, <1>3 DEF Sent
<1>9. \A k \in Requests : IssuerKnows(k)'
  <2> SUFFICES ASSUME NEW k \in Requests PROVE IssuerKnows(k)' OBVIOUS
  <2>1. IssuerKnows(k) OBVIOUS
  <2> HIDE DEF WalletInv
  <2> QED BY <1>8, <2>1 DEF IssuerKnows
<1>10. \A k \in Requests : Out(k)' => Out(k) \/ journal[k] # None
  <2> SUFFICES ASSUME NEW k \in Requests, Out(k)' PROVE Out(k) \/ journal[k] # None OBVIOUS
  <2>1. CASE k \in slow' BY <1>3, <2>1 DEF Out
  <2>2. CASE \E q \in Pages : page'[q].op = k \/ k \in page'[q].queue
    <3>1. PICK q \in Pages : page'[q].op = k \/ k \in page'[q].queue BY <2>2
    <3>2. CASE q = p BY <1>1, <3>1, <3>2
    <3>3. CASE q # p BY <1>1, <3>1, <3>3 DEF Out
    <3> QED BY <3>2, <3>3
  <2> QED BY <2>1, <2>2 DEF Out
<1>11. Endings'
  <2>1. ASSUME NEW k \in Journalled \ rolled PROVE EndedIn(k, journal, list)'
    <3>1. k \in Requests /\ EndedIn(k, journal, list) BY DEF Endings, Journalled
    <3> HIDE DEF WalletInv
    <3> QED BY <1>10, <3>1 DEF EndedIn
  <2>2. ASSUME backup # None, NEW k \in backup.knows
        PROVE  EndedIn(k, backup.journal, backup.list)' /\ (backup.journal[k] = None => journal'[k] = None)
    <3>1. /\ k \in Requests /\ EndedIn(k, backup.journal, backup.list)
          /\ backup.journal[k] = None => journal[k] = None
      BY <2>2 DEF Endings, Journalled
    <3>2. backup.journal[k] = None => journal'[k] = None BY <3>1
    <3> HIDE DEF WalletInv
    <3> QED BY <1>10, <3>1, <3>2 DEF EndedIn
  <2> QED BY <1>2, <2>1, <2>2 DEF Endings
<1>12. Spending'
  <2>1. Unfinished \cup loose \subseteq Unfinished' \cup loose' \cup {k \in Requests : issued[k] = 0}
    BY DEF Unfinished, WalletAssumption
  <2>2. \A k \in Requests : journal'[k] # None => journal[k] # None OBVIOUS
  <2> HIDE DEF WalletInv
  <2> QED BY <2>1, <2>2 DEF Spending, WalletInv
<1>13. OneResultPerRequest' BY DEF OneResultPerRequest
<1> QED BY <1>5, <1>6, <1>7, <1>9, <1>11, <1>12, <1>13

\* What no page plans to make anew has an entry, or had one.
LEMMA HasEntry ==
  ASSUME WalletAssumption, WalletInv
  PROVE  /\ Unfinished \subseteq Journalled /\ Pending \subseteq Journalled /\ slow \subseteq Journalled
         /\ \A p \in Pages : /\ page[p] \in PageStates
                             /\ page[p].op \in Journalled \cup {None} /\ page[p].queue \subseteq Journalled
<1>1. \A k \in Requests : k \notin Journalled => Untouched(k) BY DEF WalletInv
<1>2. \A k \in Requests : k \notin Journalled => journal[k] = None /\ k \notin slow BY <1>1 DEF Untouched
<1>3. \A k \in Requests, p \in Pages : k \notin Journalled => page[p].op # k /\ k \notin page[p].queue
  BY <1>1 DEF Untouched
<1>4. \A p \in Pages : page[p] \in PageStates BY DEF WalletInv, TypeOK, PageStates
<1>5. slow \subseteq Requests BY DEF WalletInv, TypeOK
<1> QED BY <1>2, <1>3, <1>4, <1>5 DEF Unfinished, Pending, PageStates, WalletAssumption

\* The state a page is left in when a send of its has ended.
LEMMA EndedPage ==
  ASSUME WalletAssumption, WalletInv, NEW p \in Pages, NEW pg \in PageStates, pg.plan = page[p].plan,
         pg.mode # "recovery" => pg.plan = None, page' = [page EXCEPT ![p] = Ended(pg)], UNCHANGED preds
  PROVE  /\ Ended(pg) \in PageStates /\ Ended(pg).plan = page[p].plan /\ Ended(pg).queue \in {{}, pg.queue}
         /\ Ended(pg).op = None /\ Ended(pg).at \in {"idle", "recover"} /\ PageKnows(p)'
<1>1. /\ Ended(pg) \in PageStates /\ Ended(pg).plan = page[p].plan /\ Ended(pg).queue \in {{}, pg.queue}
      /\ Ended(pg).op = None /\ Ended(pg).at \in {"idle", "recover"}
      /\ Ended(pg).at = "idle" => Ended(pg) = Rest
      /\ Ended(pg).at = "recover" => Ended(pg).mode = "recovery"
  <2>1. Rest \in PageStates /\ Rest.plan = None /\ Rest.queue = {} /\ Rest.op = None /\ Rest.at = "idle"
    BY DEF Rest, PageStates, States, Modes
  <2>2. CASE pg.mode = "recovery"
    <3>1. Ended(pg).at = "recover" /\ Ended(pg).mode = "recovery" /\ Ended(pg).op = None
      BY <2>2 DEF Ended, PageStates
    <3>2. Ended(pg) \in PageStates /\ Ended(pg).plan = pg.plan /\ Ended(pg).queue = pg.queue
      BY <2>2 DEF Ended, PageStates, States
    <3> QED BY <3>1, <3>2
  <2>3. CASE pg.mode # "recovery" BY <2>1, <2>3 DEF Ended
  <2> QED BY <2>2, <2>3
<1>2. Rest.plan = None BY DEF Rest
<1>3. page'[p] = Ended(pg) /\ \A q \in Pages : page'[q].plan = page[q].plan BY <1>1 DEF WalletInv, TypeOK
<1> HIDE DEF Ended, Rest
<1>4. page[p].plan # None => preds[page[p].plan] # None /\ \A q \in Pages : page[q].plan = page[p].plan => q = p
  BY DEF WalletInv, PageKnows
<1> QED BY <1>1, <1>2, <1>3, <1>4 DEF PageKnows

\* A page sends again a request that it read in the journal before.
LEMMA Sends ==
  ASSUME WalletAssumption, WalletInv, NEW p \in Pages, NEW k \in Journalled, NEW pg \in PageStates,
         pg.plan = page[p].plan, pg.queue \subseteq page[p].queue, k \notin pg.queue, Out(k),
         SlotFree(k), Resend(p, k, pg),
         pg.mode \in {"manual", "recovery"}, pg.mode = "manual" => pg.plan = None,
         UNCHANGED <<list, preds, unlocked, backup, slow, issuer, aged, loose, rolled>>
  PROVE  WalletInv'
<1>1. /\ k \in Requests /\ page[p] \in PageStates /\ page[p].queue \subseteq Journalled
      /\ pg.queue \subseteq Journalled
  BY HasEntry DEF Journalled
<1>2. \A j \in Requests : j \in pg.queue => Out(j) BY DEF Out
<1>3. /\ asked \subseteq asked' /\ asked' \subseteq asked \cup {k} /\ asked' \subseteq Requests
      /\ journal' \in [Requests -> {"pending", "needs-attention", None}]
      /\ \A j \in Requests : journal'[j] = journal[j] \/ (journal[j] # None /\ journal'[j] = "needs-attention")
      /\ loose \subseteq Requests
  BY <1>1 DEF Resend, Patch, WalletInv, TypeOK
<1>4. CASE page' = [page EXCEPT ![p] = Ended(pg)]
  <2>1. /\ Ended(pg) \in PageStates /\ Ended(pg).plan = page[p].plan /\ Ended(pg).queue \in {{}, pg.queue}
        /\ Ended(pg).op = None /\ Ended(pg).at \in {"idle", "recover"} /\ PageKnows(p)'
    BY <1>4, EndedPage
  <2>2. \A j \in Requests : Ended(pg).op = j \/ j \in Ended(pg).queue => Out(j)
    BY <1>2, <2>1 DEF WalletAssumption
  <2>3. Ended(pg).queue \subseteq Journalled BY <1>1, <2>1
  <2> QED BY <1>3, <1>4, <2>1, <2>2, <2>3, PageGoesOn
<1>5. CASE /\ page' = [page EXCEPT ![p] = [pg EXCEPT !.at = "sent", !.op = k]]
           /\ Kind[k] = "item" => pg.mode = "manual" \/ k \notin aged
           /\ asked' = IF k \in aged /\ pg.mode = "manual" THEN asked \cup {k} ELSE asked
  <2> DEFINE new == [pg EXCEPT !.at = "sent", !.op = k]
  <2>1. /\ new \in PageStates /\ new.plan = page[p].plan /\ new.queue = pg.queue /\ new.op = k
        /\ new.at = "sent" /\ new.mode = pg.mode
    BY <1>1 DEF PageStates, States
  <2>2. Kind[k] = "item" /\ k \in aged => k \in asked' BY <1>5
  <2> HIDE DEF new
  <2>3. page' = [page EXCEPT ![p] = new] BY <1>5 DEF new
  <2>4. page'[p] = new /\ \A q \in Pages : page'[q].plan = page[q].plan BY <2>1, <2>3 DEF WalletInv, TypeOK
  <2>5. PageKnows(p)'
    <3>1. page[p].plan # None => preds[page[p].plan] # None /\ \A q \in Pages : page[q].plan = page[p].plan => q = p
      BY DEF WalletInv, PageKnows
    <3> QED BY <1>1, <2>1, <2>4, <3>1 DEF PageKnows
  <2>6. \A q \in Pages : q # p /\ page[q].at \in {"sent", "answered"} => page[q].op # new.op
    BY <2>1 DEF SlotFree
  <2>7. \A j \in Requests : new.op = j \/ j \in new.queue => Out(j) BY <1>2, <2>1
  <2> QED BY <1>1, <1>3, <2>1, <2>2, <2>3, <2>5, <2>6, <2>7, PageGoesOn
<1> QED BY <1>4, <1>5 DEF Resend

Recovering(p) == RecoverAfterUnlock(p) \/ RecoverNext(p) \/ RecoverEnd(p)
Retrying(p)   == (\E k \in Requests : RetryPending(p, k)) \/ RetrySend(p) \/ NoAnswer(p) \/ Refused(p)
                 \/ (Apply(p) /\ UNCHANGED storage)

\* A page that sends nothing and ends no entry.
LEMMA PageMoves ==
  ASSUME WalletAssumption, WalletInv, NEW p \in Pages, NEW pg \in PageStates,
         page' = [page EXCEPT ![p] = pg], pg.plan = page[p].plan,
         UNCHANGED <<storage, preds, unlocked, backup, slow, issuer, asked, aged, loose, rolled>>,
         pg.op \in Journalled \cup {None}, pg.queue \subseteq Journalled,
         \A k \in Requests : pg.op = k \/ k \in pg.queue => Out(k) \/ journal[k] # None,
         pg.at \notin {"sent", "answered"},
         pg.at = "idle" => pg = Rest,
         pg.at = "waiting" => pg.mode = "manual" /\ pg.op \in Requests /\ pg.queue = {},
         pg.at = "recover" => pg.mode = "recovery",
         pg.at \in {"check", "ready"} => pg.plan \in Requests,
         pg.plan # None => pg.at \in {"check", "ready"} \/ pg.mode = "recovery"
  PROVE  WalletInv'
<1>1. page'[p] = pg /\ \A q \in Pages : page'[q].plan = page[q].plan BY DEF WalletInv, TypeOK
<1>2. page[p].plan # None => preds[page[p].plan] # None /\ \A q \in Pages : page[q].plan = page[p].plan => q = p
  BY DEF WalletInv, PageKnows
<1>3. PageKnows(p)' BY <1>1, <1>2 DEF PageKnows
<1>4. journal \in [Requests -> {"pending", "needs-attention", None}] /\ loose \cup asked \subseteq Requests
  BY DEF WalletInv, TypeOK
<1> QED BY <1>3, <1>4, PageGoesOn DEF storage

LEMMA RecoveringNext ==
  ASSUME WalletAssumption, WalletInv, NEW p \in Pages, Recovering(p) PROVE WalletInv'
<1> USE DEF storage
<1>1. PageKnows(p) /\ page[p] \in PageStates /\ page[p].queue \subseteq Journalled BY HasEntry DEF WalletInv
<1>2. CASE RecoverAfterUnlock(p)
  <2> DEFINE new == Recovery(None)
  <2>1. page[p].plan = None BY <1>1, <1>2 DEF RecoverAfterUnlock, PageKnows, Rest
  <2>2. new = [Rest EXCEPT !.at = "recover", !.mode = "recovery", !.plan = None, !.queue = Pending]
    BY <1>2 DEF RecoverAfterUnlock, Recovery
  <2>3. /\ new \in PageStates /\ new.plan = None /\ new.op = None /\ new.queue = Pending
        /\ new.at = "recover" /\ new.mode = "recovery"
    BY <2>2 DEF Rest, PageStates, States, Modes, Pending
  <2>4. page' = [page EXCEPT ![p] = new]
        /\ UNCHANGED <<storage, preds, unlocked, backup, slow, issuer, asked, aged, loose, rolled>>
    BY <1>2 DEF RecoverAfterUnlock
  <2> HIDE DEF new
  <2>5. \A k \in Requests : new.op = k \/ k \in new.queue => Out(k) \/ journal[k] # None
    BY <2>3 DEF Pending, WalletAssumption
  <2> QED BY <2>1, <2>3, <2>4, <2>5, HasEntry, PageMoves
<1>3. CASE RecoverNext(p)
  <2>1. PICK k \in page[p].queue : LET pg == [page[p] EXCEPT !.queue = @ \ {k}] IN
          \/ page' = [page EXCEPT ![p] = pg] /\ UNCHANGED <<journal, asked, left>>
          \/ unlocked /\ SlotFree(k) /\ Resend(p, k, pg)
    BY <1>3 DEF RecoverNext
  <2> DEFINE pg == [page[p] EXCEPT !.queue = @ \ {k}]
  <2>2. /\ pg \in PageStates /\ pg.plan = page[p].plan /\ pg.op = page[p].op /\ pg.queue = page[p].queue \ {k}
        /\ pg.at = page[p].at /\ pg.mode = page[p].mode
    BY <1>1 DEF PageStates
  <2>3. page[p].at = "recover" /\ page[p].mode = "recovery" /\ k \in Journalled
        /\ page[p].op \in Journalled \cup {None}
    BY <1>1, <1>3, HasEntry DEF RecoverNext, PageKnows
  <2>4. UNCHANGED <<list, preds, unlocked, backup, slow, issuer, aged, loose, rolled>> BY <1>3 DEF RecoverNext
  <2>5. /\ Out(k) /\ k \notin pg.queue /\ pg.queue \subseteq page[p].queue
        /\ \A j \in Requests : pg.op = j \/ j \in pg.queue => Out(j)
    BY <2>2 DEF Out
  <2>6. CASE page' = [page EXCEPT ![p] = pg] /\ UNCHANGED <<journal, asked>>
    <3> HIDE DEF pg
    <3> QED BY <1>1, <2>2, <2>3, <2>4, <2>5, <2>6, PageMoves
  <2>7. CASE SlotFree(k) /\ Resend(p, k, pg)
    <3> HIDE DEF pg
    <3> QED BY <2>2, <2>3, <2>4, <2>5, <2>7, Sends
  <2> QED BY <2>1, <2>6, <2>7
<1>4. CASE RecoverEnd(p)
  <2> DEFINE new == IF page[p].plan = None THEN Rest ELSE [Rest EXCEPT !.at = "check", !.plan = page[p].plan]
  <2>1. /\ new \in PageStates /\ new.plan = page[p].plan /\ new.op = None /\ new.queue = {}
        /\ \/ new = Rest /\ new.at = "idle" /\ new.plan = None
           \/ new.at = "check" /\ new.plan \in Requests
    BY <1>1 DEF Rest, PageStates, States, Modes
  <2>2. page' = [page EXCEPT ![p] = new]
        /\ UNCHANGED <<storage, preds, unlocked, backup, slow, issuer, asked, aged, loose, rolled>>
    BY <1>4 DEF RecoverEnd
  <2> HIDE DEF new
  <2>3. \A k \in Requests : ~ (new.op = k \/ k \in new.queue) BY <2>1 DEF WalletAssumption
  <2> QED BY <2>1, <2>2, <2>3, PageMoves
<1> QED BY <1>2, <1>3, <1>4 DEF Recovering

LEMMA RetryingNext ==
  ASSUME WalletAssumption, WalletInv, NEW p \in Pages, Retrying(p) PROVE WalletInv'
<1> USE DEF storage
<1>1. PageKnows(p) /\ page[p] \in PageStates /\ page[p].queue \subseteq Journalled
      /\ page[p].op \in Journalled \cup {None}
  BY HasEntry DEF WalletInv
<1>2. ASSUME NEW k \in Requests, RetryPending(p, k) PROVE WalletInv'
  <2> DEFINE new == [Rest EXCEPT !.at = "waiting", !.mode = "manual", !.op = k]
  <2>1. page[p].plan = None /\ k \in Journalled
    BY <1>1, <1>2, HasEntry DEF RetryPending, PageKnows, Rest
  <2>2. /\ new \in PageStates /\ new.plan = None /\ new.op = k /\ new.queue = {}
        /\ new.at = "waiting" /\ new.mode = "manual"
    BY DEF Rest, PageStates, States, Modes
  <2>3. page' = [page EXCEPT ![p] = new]
        /\ UNCHANGED <<storage, preds, unlocked, backup, slow, issuer, asked, aged, loose, rolled>>
    BY <1>2 DEF RetryPending
  <2> HIDE DEF new
  <2>4. \A j \in Requests : new.op = j \/ j \in new.queue => journal[j] # None
    BY <1>2, <2>2 DEF RetryPending, Unfinished
  <2> QED BY <2>1, <2>2, <2>3, <2>4, PageMoves
<1>3. CASE RetrySend(p)
  <2>1. /\ page[p].mode = "manual" /\ page[p].plan = None /\ page[p].op \in Journalled
        /\ page[p].queue = {} /\ Out(page[p].op)
    BY <1>1, <1>3, HasEntry DEF RetrySend, PageKnows, Out, WalletAssumption
  <2>2. SlotFree(page[p].op) /\ Resend(p, page[p].op, page[p])
        /\ UNCHANGED <<list, preds, unlocked, backup, slow, issuer, aged, loose, rolled>>
    BY <1>3 DEF RetrySend
  <2> QED BY <1>1, <2>1, <2>2, Sends
<1>4. ASSUME page' = [page EXCEPT ![p] = Ended(page[p])], page[p].at \in {"sent", "answered"},
             UNCHANGED <<list, preds, unlocked, backup, issuer, asked, aged, rolled>>,
             LeaveBehind(p) \/ UNCHANGED slow,
             journal' \in [Requests -> {"pending", "needs-attention", None}],
             loose \subseteq loose', loose' \subseteq Journalled,
             \A k \in Requests :
               \/ journal'[k] = journal[k]
               \/ /\ journal[k] # None
                  /\ journal'[k] = "needs-attention" \/ (issued[k] = 0 /\ (Out(k)' => k \in loose'))
      PROVE  WalletInv'
  <2>1. page[p].mode # "recovery" => page[p].plan = None BY <1>1, <1>4 DEF PageKnows
  <2>2. /\ Ended(page[p]) \in PageStates /\ Ended(page[p]).plan = page[p].plan
        /\ Ended(page[p]).queue \in {{}, page[p].queue} /\ Ended(page[p]).op = None
        /\ Ended(page[p]).at \in {"idle", "recover"} /\ PageKnows(p)'
    BY <1>1, <1>4, <2>1, EndedPage
  <2>3. /\ asked' \subseteq Requests /\ loose' \subseteq Requests /\ Ended(page[p]).queue \subseteq Journalled
        /\ \A k \in Requests : Ended(page[p]).op = k \/ k \in Ended(page[p]).queue => Out(k)
    BY <1>1, <1>4, <2>2 DEF WalletInv, TypeOK, Out, Journalled, WalletAssumption
  <2> QED BY <1>4, <2>2, <2>3, PageGoesOn
<1>5. loose \subseteq Journalled
  <2> SUFFICES ASSUME NEW k \in loose, k \notin Journalled PROVE FALSE OBVIOUS
  <2>1. k \in Requests BY DEF WalletInv, TypeOK
  <2> QED BY <2>1 DEF WalletInv, Untouched
<1>6. CASE NoAnswer(p)
  <2>1. journal' \in [Requests -> {"pending", "needs-attention", None}] BY <1>6 DEF NoAnswer, WalletInv, TypeOK
  <2> QED BY <1>4, <1>5, <1>6, <2>1 DEF NoAnswer
<1>7. CASE Apply(p) /\ UNCHANGED storage
  <2>1. journal' \in [Requests -> {"pending", "needs-attention", None}] BY <1>7 DEF WalletInv, TypeOK
  <2> QED BY <1>4, <1>5, <1>7, <2>1 DEF Apply
<1>8. CASE Refused(p)
  <2>0. PICK k \in Requests : k = page[p].op BY <1>1, <1>8 DEF Refused, PageKnows
  <2> DEFINE ends == page[p].mode = "fresh" \/ ProvablyUnrevoked(k)
  <2>1. /\ k \in Requests /\ k \in Journalled /\ k \notin page[p].queue
        /\ page[p].mode = "fresh" => issued[k] = 0
        /\ page[p].mode # "recovery" => page[p].plan = None
    BY <1>1, <1>8, <2>0 DEF Refused, PageKnows, WalletAssumption
  <2>2. ProvablyUnrevoked(k) => issued[k] = 0
    <3>1. IssuerKnows(k) BY <2>1 DEF WalletInv
    <3>2. issued[k] \in 0..2 BY <2>1 DEF WalletInv, TypeOK
    <3> QED BY <3>1, <3>2 DEF ProvablyUnrevoked, IssuerKnows
  <2>3. /\ Patch(k, IF ends THEN None ELSE "needs-attention")
        /\ loose' = IF ends /\ unlocked /\ journal[k] # None /\ StillOut(p, k) THEN loose \cup {k} ELSE loose
        /\ page' = [page EXCEPT ![p] = Ended(page[p])] /\ UNCHANGED slow
    BY <1>8, <2>0 DEF Refused
  <2>4. Out(k)' => StillOut(p, k)
    <3>1. Ended(page[p]).queue \in {{}, page[p].queue} /\ Ended(page[p]).op = None
      BY <1>1, <2>1, EndedPage, <1>8 DEF Refused
    <3>2. \A q \in Pages : page'[q] = IF q = p THEN Ended(page[p]) ELSE page[q] BY <2>3 DEF WalletInv, TypeOK
    <3>3. page'[p].op # k /\ k \notin page'[p].queue BY <2>1, <3>1, <3>2 DEF WalletAssumption
    <3> QED BY <2>3, <3>2, <3>3 DEF Out, StillOut
  <2>5. \/ UNCHANGED journal
        \/ /\ journal[k] # None
           /\ \/ journal' = [journal EXCEPT ![k] = "needs-attention"]
              \/ /\ journal' = [journal EXCEPT ![k] = None] /\ issued[k] = 0
                 /\ Out(k)' => k \in loose'
    <3>1. CASE ends
      <4>1. issued[k] = 0 BY <2>1, <2>2, <3>1
      <4> QED BY <2>3, <2>4, <3>1, <4>1 DEF Patch
    <3>2. CASE ~ ends BY <2>3, <3>2 DEF Patch
    <3> QED BY <3>1, <3>2
  <2>6. loose \subseteq loose' /\ loose' \subseteq Journalled BY <1>5, <2>1, <2>3
  <2> HIDE DEF ends
  <2>7. journal' \in [Requests -> {"pending", "needs-attention", None}]
        /\ \A j \in Requests :
             \/ journal'[j] = journal[j]
             \/ /\ journal[j] # None
                /\ journal'[j] = "needs-attention" \/ (issued[j] = 0 /\ (Out(j)' => j \in loose'))
    BY <2>1, <2>5 DEF WalletInv, TypeOK
  <2> QED BY <1>4, <1>8, <2>3, <2>6, <2>7 DEF Refused
<1> QED BY <1>2, <1>3, <1>6, <1>7, <1>8 DEF Retrying

-----------------------------------------------------------------------------
(* A new request.                                                          *)

LEMMA BeginNext ==
  ASSUME WalletAssumption, WalletInv, NEW p \in Pages, NEW k \in Requests, NEW chosen \in SUBSET list,
         Begin(p, k, chosen)
  PROVE  WalletInv'
<1> USE DEF WalletInv, storage, issuer
<1> DEFINE new == Recovery(k)
<1>1. /\ page[p].at = "idle" /\ preds[k] = None /\ (Kind[k] = "replace") = (chosen # {})
      /\ preds' = [preds EXCEPT ![k] = chosen] /\ page' = [page EXCEPT ![p] = new]
      /\ UNCHANGED <<storage, unlocked, backup, slow, issuer, aged, asked, loose, rolled>>
  BY DEF Begin
<1>2. page[p] = Rest /\ page[p].plan = None
  <2>1. page[p] = Rest BY <1>1 DEF PageKnows
  <2> QED BY <2>1 DEF Rest
<1>3. /\ new \in PageStates /\ new.plan = k /\ new.op = None /\ new.queue \subseteq Pending
      /\ new.at = "check" \/ (new.at = "recover" /\ new.mode = "recovery")
  BY DEF Recovery, Rest, PageStates, States, Modes, Pending
<1> HIDE DEF new
<1>4. \A q \in Pages : page'[q] = IF q = p THEN new ELSE page[q] BY <1>1 DEF TypeOK
<1>5. chosen \in SUBSET Credentials /\ chosen # None BY DEF TypeOK, WalletAssumption
<1>6. \A j \in Requests : preds'[j] = IF j = k THEN chosen ELSE preds[j] BY <1>1 DEF TypeOK
<1>7. Journalled' = Journalled BY <1>1, <1>2, <1>3, <1>4, <1>6 DEF Journalled, WalletAssumption
<1>8. k \notin Journalled /\ Untouched(k) BY <1>1 DEF Journalled
<1>9. TypeOK' BY <1>1, <1>3, <1>4, <1>5 DEF TypeOK, PageStates
<1>10. \A j \in Requests \ Journalled' : Untouched(j)'
  BY <1>1, <1>3, <1>4, <1>7, HasEntry DEF Untouched, WalletAssumption
<1>11. \A q \in Pages : PageKnows(q)'
  <2>1. \A q \in Pages : page[q].plan # k BY <1>1 DEF PageKnows, WalletAssumption
  <2>2. PageKnows(p)' BY <1>3, <1>4, <1>5, <1>6, <2>1 DEF PageKnows
  <2>3. ASSUME NEW q \in Pages, q # p PROVE PageKnows(q)'
    <3>1. page'[q] = page[q] /\ PageKnows(q) BY <1>4, <2>3
    <3>2. \A o \in Pages : page'[o].plan = page[o].plan \/ page'[o].plan = k BY <1>3, <1>4
    <3>3. page[q].plan # None => preds'[page[q].plan] # None BY <1>5, <1>9, <1>6, <3>1, <2>1 DEF PageKnows, TypeOK
    <3>4. page[q].plan # None => \A o \in Pages : page'[o].plan = page[q].plan => o = q
      BY <2>1, <3>1, <3>2 DEF PageKnows
    <3> QED BY <1>1, <3>1, <3>3, <3>4 DEF PageKnows, Refusal
  <2> QED BY <2>2, <2>3
<1>12. \A j \in Requests : IssuerKnows(j)'
  <2>1. \A j \in Requests : Sent(j)' => Sent(j) BY <1>1, <1>3, <1>4 DEF Sent
  <2> QED BY <1>1, <1>6, <1>8, <2>1 DEF IssuerKnows, Untouched
<1>13. Endings'
  <2>1. \A j \in Requests : Out(j)' => Out(j) \/ journal[j] # None
    BY <1>1, <1>3, <1>4 DEF Out, Pending, WalletAssumption
  <2>2. ASSUME NEW j \in Journalled \ rolled PROVE EndedIn(j, journal, list)'
    BY <1>1, <2>1 DEF Endings, EndedIn, Journalled
  <2>3. ASSUME backup # None, NEW j \in backup.knows PROVE EndedIn(j, backup.journal, backup.list)'
    <3>1. /\ j \in Requests /\ EndedIn(j, backup.journal, backup.list)
          /\ backup.journal[j] = None => journal[j] = None
      BY <2>3 DEF Endings, Journalled
    <3> QED BY <1>1, <2>1, <3>1 DEF EndedIn
  <2> QED BY <1>1, <1>7, <2>2, <2>3 DEF Endings
<1>14. Spending'
  <2>1. backup = None =>
          \A c \in list \cap revoked : \E j \in Unfinished \cup loose : c \in preds'[j] /\ issued[j] > 0
    <3>1. \A j \in Unfinished \cup loose : j \in Requests /\ preds'[j] = preds[j]
      BY <1>6, <1>8 DEF Unfinished, Untouched, TypeOK
    <3> QED BY <3>1 DEF Spending
  <2>2. Unfinished' = Unfinished BY <1>1 DEF Unfinished
  <2>3. backup = None => \A i \in Requests, n \in 1..2 : journal[i] # None \/ issued[i] < n =>
          \A j \in Requests : preds'[j] # None => <<i, n>> \notin preds'[j]
    BY <1>6 DEF Spending
  <2> QED BY <1>1, <2>1, <2>2, <2>3 DEF Spending
<1>15. OneResultPerRequest' BY <1>1 DEF OneResultPerRequest
<1> QED BY <1>9, <1>10, <1>11, <1>12, <1>13, <1>14, <1>15

\* A page that gives up, or is closed, forgets the request it planned.
LEMMA Forgets ==
  ASSUME WalletAssumption, WalletInv, NEW p \in Pages,
         page' = [page EXCEPT ![p] = Rest],
         preds' = [k \in Requests |-> IF page[p].plan = k THEN None ELSE preds[k]],
         UNCHANGED <<storage, unlocked, backup, issuer, aged, asked, loose, rolled>>,
         LeaveBehind(p) \/ UNCHANGED slow
  PROVE  WalletInv'
<1> USE DEF WalletInv, storage, issuer
<1>1. Rest \in PageStates /\ Rest.plan = None /\ Rest.op = None /\ Rest.queue = {} /\ Rest.at = "idle"
  BY DEF Rest, PageStates, States, Modes
<1> HIDE DEF Rest
<1>2. \A q \in Pages : page'[q] = IF q = p THEN Rest ELSE page[q] BY DEF TypeOK
<1>3. \A q \in Pages : q # p /\ page[q].plan # None => page[q].plan # page[p].plan BY DEF PageKnows
<1>4. Journalled' = Journalled BY <1>1, <1>2, <1>3 DEF Journalled, WalletAssumption
<1>5. slow' = slow \/ (page[p].at = "sent" /\ page[p].op \in Journalled /\ slow' = slow \cup {page[p].op})
  BY HasEntry DEF LeaveBehind, PageKnows, WalletAssumption
<1>6. TypeOK'
  <2>1. slow' \subseteq Requests BY <1>5 DEF TypeOK, Journalled
  <2> QED BY <1>1, <1>2, <2>1 DEF TypeOK, PageStates
<1>7. \A k \in Requests \ Journalled' : Untouched(k)'
  BY <1>1, <1>2, <1>4, <1>5 DEF Untouched, WalletAssumption
<1>8. \A q \in Pages : PageKnows(q)'
  <2>1. PageKnows(p)' BY <1>1, <1>2 DEF PageKnows
  <2>2. ASSUME NEW q \in Pages, q # p PROVE PageKnows(q)'
    <3>1. page'[q] = page[q] /\ PageKnows(q) BY <1>2, <2>2
    <3>2. page[q].plan # None => preds'[page[q].plan] # None
      BY <1>3, <2>2, <3>1 DEF PageKnows, TypeOK
    <3>3. \A o \in Pages : page'[o].plan = page[o].plan \/ page'[o].plan = None BY <1>1, <1>2
    <3>4. page[q].plan # None => \A o \in Pages : page'[o].plan = page[q].plan => o = q
      BY <3>1, <3>3 DEF PageKnows
    <3>5. page[q].at \in {"sent", "answered"} => (page[q].op \in slow' <=> page[q].op \in slow)
      BY <1>5, <2>2 DEF TypeOK
    <3> QED BY <3>1, <3>2, <3>4, <3>5 DEF PageKnows, Refusal
  <2> QED BY <2>1, <2>2
<1>9. \A k \in Requests : page[p].plan = k => Untouched(k) BY DEF Journalled
<1>10. \A k \in Requests : (Sent(k)' => Sent(k)) /\ (Out(k)' => Out(k))
  BY <1>1, <1>2, <1>5 DEF Sent, Out, WalletAssumption
<1>11. \A k \in Requests : IssuerKnows(k)' BY <1>9, <1>10 DEF IssuerKnows, Untouched
<1>12. Endings'
  <2>1. ASSUME NEW k \in Journalled \ rolled PROVE EndedIn(k, journal, list)'
    BY <1>10 DEF Endings, EndedIn, Journalled
  <2>2. ASSUME backup # None, NEW k \in backup.knows PROVE EndedIn(k, backup.journal, backup.list)'
    <3>1. k \in Requests /\ EndedIn(k, backup.journal, backup.list) BY <2>2 DEF Endings, Journalled
    <3> QED BY <1>10, <3>1 DEF EndedIn
  <2> QED BY <1>4, <2>1, <2>2 DEF Endings
<1>13. Spending' BY <1>9 DEF Spending, Unfinished, Untouched, TypeOK
<1>14. OneResultPerRequest' BY DEF OneResultPerRequest
<1> QED BY <1>6, <1>7, <1>8, <1>11, <1>12, <1>13, <1>14

LEMMA PlanningNext ==
  ASSUME WalletAssumption, WalletInv, NEW p \in Pages, AssertSettled(p) \/ JournalAndSend(p) \/ Close(p)
  PROVE  WalletInv'
<1> DEFINE k == page[p].plan
<1>1. GiveUp(p) => preds' = [j \in Requests |-> IF page[p].plan = j THEN None ELSE preds[j]]
                   /\ page' = [page EXCEPT ![p] = Rest]
  BY DEF GiveUp, WalletInv, TypeOK
<1>2. CASE Close(p) BY <1>2, Forgets DEF Close
<1>3. CASE AssertSettled(p)
  <2>1. CASE GiveUp(p) BY <1>1, <1>3, <2>1, Forgets DEF AssertSettled
  <2>2. CASE page' = [page EXCEPT ![p].at = "ready"] /\ UNCHANGED preds
    <3> DEFINE new == [page[p] EXCEPT !.at = "ready"]
    <3>1. /\ page[p] \in PageStates /\ page[p].op \in Journalled \cup {None}
          /\ page[p].queue \subseteq Journalled /\ page[p].plan \in Requests
      BY <1>3, HasEntry DEF AssertSettled, WalletInv, PageKnows
    <3>2. /\ new \in PageStates /\ new.plan = page[p].plan /\ new.op = page[p].op
          /\ new.queue = page[p].queue /\ new.at = "ready"
      BY <3>1 DEF PageStates, States
    <3>3. page' = [page EXCEPT ![p] = new]
          /\ UNCHANGED <<storage, preds, unlocked, backup, slow, issuer, asked, aged, loose, rolled>>
      BY <1>3, <2>2 DEF AssertSettled
    <3> HIDE DEF new
    <3>4. \A j \in Requests : new.op = j \/ j \in new.queue => Out(j) BY <3>2 DEF Out
    <3> QED BY <3>1, <3>2, <3>3, <3>4, PageMoves
  <2> QED BY <1>3, <2>1, <2>2 DEF AssertSettled
<1>4. CASE JournalAndSend(p)
  <2>1. CASE GiveUp(p) /\ UNCHANGED journal
    BY <1>1, <1>4, <2>1, Forgets DEF JournalAndSend, storage
  <2>2. CASE /\ journal' = [journal EXCEPT ![k] = "pending"] /\ UNCHANGED preds
             /\ page' = [page EXCEPT ![p] = [Rest EXCEPT !.at = "sent", !.mode = "fresh", !.op = k]]
    <3> USE DEF WalletInv, storage, issuer
    <3> DEFINE new == [Rest EXCEPT !.at = "sent", !.mode = "fresh", !.op = k]
    <3>1. k \in Requests /\ preds[k] # None /\ k \notin Journalled /\ Untouched(k)
      BY <1>4 DEF JournalAndSend, PageKnows, Journalled, WalletAssumption
    <3>2. UNCHANGED <<list, unlocked, backup, slow, issuer, aged, asked, loose, rolled>> BY <1>4 DEF JournalAndSend
    <3>3. /\ new \in PageStates /\ new.plan = None /\ new.op = k /\ new.queue = {}
          /\ new.at = "sent" /\ new.mode = "fresh"
      BY <3>1 DEF Rest, PageStates, States, Modes
    <3>4. \A q \in Pages : page'[q] = IF q = p THEN new ELSE page[q] BY <2>2 DEF TypeOK
    <3>5. \A q \in Pages : q # p => page[q].plan # k BY <3>1 DEF PageKnows, WalletAssumption
    <3>6. page[p].plan = k /\ UNCHANGED preds
          /\ \A j \in Requests : journal'[j] = IF j = k THEN "pending" ELSE journal[j]
      BY <2>2 DEF TypeOK
    <3>7. page' = [page EXCEPT ![p] = new] /\ journal' = [journal EXCEPT ![k] = "pending"]
      BY <2>2
    <3> HIDE DEF new, k
    <3>8. Journalled' = Journalled \cup {k}
      <4>1. \A q \in Pages : page'[q].plan = IF q = p THEN None ELSE page[q].plan BY <3>3, <3>4
      <4> QED BY <3>1, <3>5, <3>6, <4>1 DEF Journalled, WalletAssumption
    <3>9. TypeOK'
      <4>1. \A q \in Pages : q # p => page[q].op # k BY <3>1 DEF Untouched
      <4> QED BY <3>1, <3>2, <3>3, <3>4, <3>6, <3>7, <4>1 DEF TypeOK, PageStates
    <3>10. \A j \in Requests \ Journalled' : Untouched(j)'
      <4> SUFFICES ASSUME NEW j \in Requests, j \notin Journalled, j # k PROVE Untouched(j)' BY <3>8
      <4>1. Untouched(j) OBVIOUS
      <4>2. journal'[j] = journal[j] BY <3>6
      <4>3. \A q \in Pages : page'[q].op # j /\ j \notin page'[q].queue BY <3>3, <3>4, <4>1 DEF Untouched
      <4> QED BY <3>2, <4>1, <4>2, <4>3 DEF Untouched
    <3>11. \A q \in Pages : PageKnows(q)'
      <4>1. PageKnows(p)' BY <3>1, <3>2, <3>3, <3>4 DEF PageKnows, Untouched
      <4>2. ASSUME NEW q \in Pages, q # p PROVE PageKnows(q)'
        <5>1. page'[q] = page[q] /\ PageKnows(q) BY <3>4, <4>2
        <5>2. \A o \in Pages : page'[o].plan = page[o].plan \/ page'[o].plan = None BY <3>3, <3>4
        <5> QED BY <3>2, <3>6, <5>1, <5>2 DEF PageKnows, Refusal
      <4> QED BY <4>1, <4>2
    <3>12. \A j \in Requests : IssuerKnows(j)'
      <4>1. \A j \in Requests : Sent(j)' => Sent(j) \/ j = k BY <3>2, <3>3, <3>4 DEF Sent
      <4> QED BY <3>1, <3>2, <3>6, <4>1 DEF IssuerKnows, Untouched
    <3>13. Endings'
      <4>0. \A j \in Requests : Out(j)' => Out(j) \/ j = k BY <3>2, <3>3, <3>4 DEF Out
      <4>1. \A j \in Journalled' \ rolled : EndedIn(j, journal, list)'
        BY <3>2, <3>6, <3>8, <4>0 DEF Endings, EndedIn, Journalled, WalletAssumption
      <4>2. ASSUME backup # None, NEW j \in backup.knows
            PROVE  EndedIn(j, backup.journal, backup.list)' /\ (backup.journal[j] = None => journal'[j] = None)
        <5>1. /\ j \in Journalled /\ EndedIn(j, backup.journal, backup.list)
              /\ backup.journal[j] = None => journal[j] = None
          BY <4>2 DEF Endings
        <5>2. j \in Requests /\ j # k BY <3>1, <5>1 DEF Journalled
        <5> QED BY <3>2, <3>6, <4>0, <5>1, <5>2 DEF EndedIn
      <4> QED BY <3>2, <3>8, <4>1, <4>2 DEF Endings
    <3>14. Spending'
      <4>1. Unfinished' = Unfinished \cup {k} BY <3>1, <3>6 DEF Unfinished, WalletAssumption
      <4>2. \A i \in Requests, n \in 1..2 : journal'[i] # None \/ issued[i] < n =>
              journal[i] # None \/ issued[i] < n
        BY <3>1, <3>6 DEF Untouched
      <4> QED BY <3>2, <3>6, <4>1, <4>2 DEF Spending
    <3>15. OneResultPerRequest' BY <3>2 DEF OneResultPerRequest
    <3> QED BY <3>9, <3>10, <3>11, <3>12, <3>13, <3>14, <3>15
  <2> QED BY <1>4, <2>1, <2>2 DEF JournalAndSend
<1> QED BY <1>2, <1>3, <1>4

-----------------------------------------------------------------------------
(* The issuer.                                                             *)

\* What the issuer makes of a copy of k that is out: a page's, or a slow one.
LEMMA OutcomeNext ==
  ASSUME WalletAssumption, WalletInv, NEW k \in Journalled, NEW n \in 0..2, Outcome(k, <<k, n>>), Sent(k),
         UNCHANGED <<storage, preds, unlocked, backup, aged, asked, loose, rolled>>,
         slow' \subseteq slow, page' \in [Pages -> PageStates],
         \A q \in Pages :
           /\ page'[q].op = page[q].op /\ page'[q].plan = page[q].plan
           /\ page'[q].queue = page[q].queue /\ page'[q].mode = page[q].mode
           /\ \/ page'[q] = page[q]
              \/ /\ page[q].at = "sent" /\ page[q].op = k /\ page'[q].at = "answered"
                 /\ page'[q].answer = <<k, n>>,
         \/ k \in slow
         \/ \E q \in Pages : page[q].at = "sent" /\ page[q].op = k /\ page'[q].at = "answered"
  PROVE  WalletInv'
<1> USE DEF WalletInv, storage, issuer
<1>1. k \in Requests /\ issued[k] \in 0..2 /\ preds[k] \in SUBSET Credentials BY DEF TypeOK, Journalled
<1>2. \/ UNCHANGED issuer /\ k \in stored /\ n = issued[k]
      \/ /\ k \notin stored /\ preds[k] \cap revoked = {} /\ issued[k] < 2
         /\ revoked' = revoked \cup preds[k] /\ issued' = [issued EXCEPT ![k] = @ + 1]
         /\ stored' = stored \cup {k} /\ n = issued[k] + 1
      \/ UNCHANGED issuer /\ k \notin stored /\ n = 0
  BY <1>1 DEF Outcome, Refusal
<1>3. \A j \in Requests : issued'[j] \in 0..2 /\ issued[j] <= issued'[j] /\ (j # k => issued'[j] = issued[j])
  BY <1>1, <1>2 DEF TypeOK
<1>4. Journalled' = Journalled BY DEF Journalled
<1>5. \A j \in Requests : (Sent(j)' => Sent(j)) /\ (Out(j)' => Out(j)) BY DEF Sent, Out
<1>6. Out(k) BY DEF Sent, Out
<1>7. TypeOK'
  <2>1. \A p, q \in Pages : p # q /\ {page'[p].at, page'[q].at} \subseteq {"sent", "answered"} =>
          page'[p].op # page'[q].op
    BY DEF TypeOK
  <2>2. /\ revoked' \subseteq Credentials /\ stored' \subseteq Requests /\ issued' \in [Requests -> 0..2]
        /\ slow' \subseteq Requests
    BY <1>1, <1>2 DEF TypeOK
  <2> QED BY <2>1, <2>2 DEF TypeOK, PageStates
<1>8. \A j \in Requests \ Journalled' : Untouched(j)'
  BY <1>2, <1>3, <1>4 DEF Untouched
<1>9. \A q \in Pages : PageKnows(q)'
  <2> SUFFICES ASSUME NEW q \in Pages PROVE PageKnows(q)' OBVIOUS
  <2>1. \A o \in Pages : page'[o].plan = page[o].plan OBVIOUS
  <2>2. CASE page'[q] = page[q]
    <3>1. page[q].at \in {"sent", "answered"} /\ page[q].mode = "fresh" => page[q].op # k
      <4> SUFFICES ASSUME page[q].at \in {"sent", "answered"}, page[q].mode = "fresh", page[q].op = k PROVE FALSE
        OBVIOUS
      <4>1. k \notin slow BY DEF PageKnows
      <4>2. PICK o \in Pages : page[o].at = "sent" /\ page[o].op = k /\ page'[o].at = "answered" BY <4>1
      <4> QED BY <2>2, <4>2 DEF TypeOK
    <3>2. page[q].at \in {"sent", "answered"} => page[q].op \in Requests BY DEF PageKnows
    <3>3. page[q].at \in {"sent", "answered"} /\ page[q].mode = "fresh" => issued'[page[q].op] = issued[page[q].op]
      BY <1>3, <3>1, <3>2
    <3>4. page[q].at = "answered" => \E m \in 0..2 : page[q].answer = <<page[q].op, m>> /\ m <= issued'[page[q].op]
      <4> SUFFICES ASSUME page[q].at = "answered"
                   PROVE  \E m \in 0..2 : page[q].answer = <<page[q].op, m>> /\ m <= issued'[page[q].op]
        OBVIOUS
      <4>1. PICK m \in 0..2 : page[q].answer = <<page[q].op, m>> /\ m <= issued[page[q].op] BY DEF PageKnows
      <4>2. m <= issued'[page[q].op] BY <1>3, <3>2, <4>1 DEF TypeOK
      <4> QED BY <4>1, <4>2
    <3>5. PageKnows(q) OBVIOUS
    <3> HIDE DEF WalletInv
    <3> QED BY <2>1, <2>2, <3>3, <3>4, <3>5 DEF PageKnows, Refusal
  <2>3. CASE page[q].at = "sent" /\ page[q].op = k /\ page'[q].at = "answered" /\ page'[q].answer = <<k, n>>
    <3>1. n <= issued'[k] BY <1>1, <1>2 DEF TypeOK
    <3>2. n = 0 => UNCHANGED issued BY <1>1, <1>2
    <3>3. <<k, n>> = Refusal(k) => n = 0 BY DEF Refusal
    <3>4. page[q].mode = "fresh" => issued[k] = 0 BY <2>3 DEF PageKnows
    <3>5. PageKnows(q) OBVIOUS
    <3> HIDE DEF WalletInv
    <3> QED BY <1>1, <2>1, <2>3, <3>1, <3>2, <3>3, <3>4, <3>5 DEF PageKnows
  <2> QED BY <2>2, <2>3
<1>10. \A j \in Requests : IssuerKnows(j)'
  <2> SUFFICES ASSUME NEW j \in Requests PROVE IssuerKnows(j)' OBVIOUS
  <2>1. IssuerKnows(j) /\ issued[j] \in 0..2 BY DEF TypeOK
  <2>2. preds[j] # None => (Kind[j] = "replace" <=> preds[j] # {}) BY <2>1 DEF IssuerKnows
  <2>3. j \in stored' => issued'[j] > 0 BY <1>1, <1>2, <1>3, <2>1 DEF IssuerKnows, TypeOK
  <2>4. ASSUME issued'[j] > 0
        PROVE  /\ preds[j] \subseteq revoked' /\ j \in stored' \cup aged
               /\ j \notin stored' /\ Kind[j] = "item" /\ Sent(j)' => j \in asked
    <3>1. CASE issued[j] > 0 BY <1>2, <1>5, <2>1, <3>1 DEF IssuerKnows
    <3>2. CASE issued[j] = 0 BY <1>2, <1>3, <2>4, <3>2
    <3> QED BY <2>1, <3>1, <3>2
  <2> QED BY <2>2, <2>3, <2>4 DEF IssuerKnows
<1>11. ASSUME ~ UNCHANGED issued
       PROVE  /\ (issued[k] = 0 /\ issued'[k] = 1) \/ (issued[k] = 1 /\ issued'[k] = 2)
              /\ preds[k] \cap revoked = {} /\ revoked' = revoked \cup preds[k] /\ k \notin stored
  BY <1>1, <1>2, <1>11 DEF TypeOK
<1>12. revoked \subseteq revoked' /\ (UNCHANGED issued => UNCHANGED revoked) BY <1>1, <1>2 DEF TypeOK
<1>13. Endings'
  <2>1. ASSUME NEW j \in Journalled \ rolled PROVE EndedIn(j, journal, list)'
    <3>1. j \in Requests /\ EndedIn(j, journal, list) BY DEF Endings, Journalled
    <3> HIDE DEF WalletInv
    <3> QED BY <1>3, <1>5, <1>6, <1>11, <1>12, <3>1 DEF EndedIn
  <2>2. ASSUME backup # None, NEW j \in backup.knows PROVE EndedIn(j, backup.journal, backup.list)'
    <3>1. j \in Requests /\ EndedIn(j, backup.journal, backup.list) BY <2>2 DEF Endings, Journalled
    <3> HIDE DEF WalletInv
    <3> QED BY <1>3, <1>5, <1>6, <1>11, <1>12, <3>1 DEF EndedIn
  <2> QED BY <1>4, <2>1, <2>2 DEF Endings
<1>14. Spending'
  <2> SUFFICES ASSUME backup = None PROVE Spending' BY DEF Spending
  <2>1. ASSUME NEW c \in list, c \in revoked'
        PROVE  \E j \in Unfinished \cup loose : c \in preds[j] /\ issued'[j] > 0
    <3>1. CASE c \in revoked
      <4>1. PICK j \in Unfinished \cup loose : c \in preds[j] /\ issued[j] > 0 BY <2>1, <3>1 DEF Spending
      <4>2. j \in Requests /\ issued[j] \in 0..2 /\ issued'[j] \in 0..2
        BY <1>3, <4>1 DEF Unfinished, TypeOK
      <4> QED BY <1>3, <4>1, <4>2
    <3>2. CASE c \notin revoked
      <4>1. ~ UNCHANGED issued BY <1>12, <2>1, <3>2
      <4>2. c \in preds[k] /\ issued'[k] > 0 BY <1>11, <2>1, <3>2, <4>1
      <4>3. issued[k] = 0 BY <1>1, <1>11, <4>1, <4>2 DEF IssuerKnows
      <4>4. journal[k] # None \/ k \in loose
        <5>1. EndedIn(k, journal, list) BY DEF Endings
        <5> QED BY <1>6, <4>3, <5>1 DEF EndedIn
      <4> QED BY <1>1, <4>2, <4>4 DEF Unfinished
    <3> QED BY <3>1, <3>2
  <2>2. ASSUME NEW i \in Requests, NEW m \in 1..2, journal[i] # None \/ issued'[i] < m
        PROVE  <<i, m>> \notin list \cup revoked' /\ \A j \in Requests : preds[j] # None => <<i, m>> \notin preds[j]
    <3>1. issued'[i] < m => issued[i] < m BY <1>3 DEF TypeOK
    <3>2. /\ <<i, m>> \notin list \cup revoked
          /\ \A j \in Requests : preds[j] # None => <<i, m>> \notin preds[j]
      BY <2>2, <3>1 DEF Spending
    <3>3. preds[k] # None BY DEF Journalled
    <3> QED BY <1>1, <1>11, <1>12, <3>2, <3>3
  <2>3. Unfinished' = Unfinished BY DEF Unfinished
  <2> QED BY <2>1, <2>2, <2>3 DEF Spending
<1>15. OneResultPerRequest'
  <2> SUFFICES ASSUME issued'[k] > 1, ~ UNCHANGED issued
               PROVE  k \in aged /\ Kind[k] # "replace" /\ (Kind[k] = "item" => k \in asked)
    BY <1>3 DEF OneResultPerRequest, TypeOK
  <2>1. issued[k] > 0 /\ preds[k] \cap revoked = {} /\ k \notin stored BY <1>11
  <2>2. preds[k] # None BY DEF Journalled
  <2>3. IssuerKnows(k) BY <1>1
  <2> HIDE DEF WalletInv
  <2> QED BY <2>1, <2>2, <2>3 DEF IssuerKnows
<1> QED BY <1>7, <1>8, <1>9, <1>10, <1>13, <1>14, <1>15

LEMMA IssuerNext ==
  ASSUME WalletAssumption, WalletInv, NEW p \in Pages, Issuer(p) PROVE WalletInv'
<1>0. PICK k \in Requests : k = page[p].op BY DEF Issuer, WalletInv, PageKnows
<1>1. /\ page[p].at = "sent" /\ k \in Journalled /\ page \in [Pages -> PageStates] /\ page[p] \in PageStates
      /\ UNCHANGED <<storage, preds, unlocked, backup, slow, aged, asked, loose, rolled>>
  BY <1>0, HasEntry DEF Issuer, WalletInv, TypeOK, PageStates, WalletAssumption
<1>2. PICK n \in 0..2 : /\ Outcome(k, <<k, n>>)
                        /\ page' = [page EXCEPT ![p].at = "answered", ![p].answer = <<k, n>>]
  BY <1>0 DEF Issuer
<1> DEFINE a == <<k, n>>
           new == [page[p] EXCEPT !.at = "answered", !.answer = a]
<1>3. page' = [page EXCEPT ![p] = new] /\ a \in Requests \X (0..2) BY <1>1, <1>2
<1> HIDE DEF a
<1>4. /\ new \in PageStates /\ new.op = k /\ new.plan = page[p].plan /\ new.queue = page[p].queue
      /\ new.mode = page[p].mode /\ new.at = "answered" /\ new.answer = a
  BY <1>0, <1>1, <1>3 DEF PageStates, States
<1> HIDE DEF new
<1>5. \A q \in Pages : page'[q] = IF q = p THEN new ELSE page[q] BY <1>1, <1>3
<1>6. page' \in [Pages -> PageStates] BY <1>1, <1>3, <1>4
<1>7. Sent(k) BY <1>0, <1>1 DEF Sent
<1>8. \E q \in Pages : page[q].at = "sent" /\ page[q].op = k /\ page'[q].at = "answered"
  BY <1>0, <1>1, <1>4, <1>5
<1>9. \A q \in Pages :
        /\ page'[q].op = page[q].op /\ page'[q].plan = page[q].plan
        /\ page'[q].queue = page[q].queue /\ page'[q].mode = page[q].mode
        /\ \/ page'[q] = page[q]
           \/ /\ page[q].at = "sent" /\ page[q].op = k /\ page'[q].at = "answered"
              /\ page'[q].answer = <<k, n>>
  BY <1>0, <1>1, <1>4, <1>5 DEF a
<1>10. /\ slow' \subseteq slow /\ Outcome(k, <<k, n>>)
       /\ UNCHANGED <<storage, preds, unlocked, backup, aged, asked, loose, rolled>>
  BY <1>1, <1>2
<1> QED BY <1>1, <1>6, <1>7, <1>8, <1>9, <1>10, OutcomeNext

LEMMA IssuerLateNext ==
  ASSUME WalletAssumption, WalletInv, NEW k \in Requests, IssuerLate(k) PROVE WalletInv'
<1>1. /\ k \in slow /\ slow' \subseteq slow /\ k \in Journalled /\ page \in [Pages -> PageStates]
      /\ UNCHANGED <<storage, preds, unlocked, page, backup, aged, asked, loose, rolled>>
  BY HasEntry DEF IssuerLate, WalletInv, TypeOK, PageStates
<1>2. PICK n \in 0..2 : Outcome(k, <<k, n>>) BY DEF IssuerLate
<1>3. Sent(k) BY <1>1 DEF Sent
<1> QED BY <1>1, <1>2, <1>3, OutcomeNext

-----------------------------------------------------------------------------
(* The answer.                                                             *)

LEMMA ApplyNext ==
  ASSUME WalletAssumption, WalletInv, NEW p \in Pages, Apply(p), ~ UNCHANGED storage PROVE WalletInv'
<1> USE DEF WalletInv, storage, issuer
<1> DEFINE k == page[p].op
           answer == page[p].answer
<1>1. /\ page[p].at = "answered" /\ answer # Refusal(k) /\ journal[k] # None
      /\ list' = (list \ preds[k]) \cup {answer} /\ journal' = [journal EXCEPT ![k] = None]
      /\ page' = [page EXCEPT ![p] = Ended(page[p])]
      /\ UNCHANGED <<preds, unlocked, backup, slow, issuer, aged, asked, loose, rolled>>
  BY DEF Apply
<1>2. k \in Requests /\ page[p] \in PageStates /\ PageKnows(p) BY <1>1, HasEntry DEF PageKnows
<1>3. PICK n \in 0..2 : answer = <<k, n>> /\ n <= issued[k] BY <1>1, <1>2 DEF PageKnows
<1>4. n \in 1..2 /\ issued[k] \in 1..2
  <2>1. n # 0 BY <1>1, <1>3 DEF Refusal
  <2>2. issued[k] \in 0..2 BY <1>2 DEF TypeOK
  <2> QED BY <1>3, <2>1, <2>2
<1>5. k \in Journalled /\ answer \in Credentials
  <2>1. Unfinished \subseteq Journalled BY HasEntry
  <2>2. k \in Unfinished BY <1>1, <1>2 DEF Unfinished
  <2> QED BY <1>2, <1>3, <1>4, <2>1, <2>2 DEF Credentials
<1>6. preds[k] \subseteq revoked BY <1>2, <1>4 DEF IssuerKnows
<1>7. page[p].mode # "recovery" => page[p].plan = None BY <1>1, <1>2 DEF PageKnows
<1>8. /\ Ended(page[p]) \in PageStates /\ Ended(page[p]).plan = page[p].plan
      /\ Ended(page[p]).queue \in {{}, page[p].queue} /\ Ended(page[p]).op = None
      /\ Ended(page[p]).at \in {"idle", "recover"} /\ PageKnows(p)'
  BY <1>1, <1>2, <1>7, EndedPage
<1> HIDE DEF k, answer
<1>9. \A q \in Pages : page'[q] = IF q = p THEN Ended(page[p]) ELSE page[q] BY <1>1 DEF TypeOK
<1>10. \A j \in Requests : journal'[j] = IF j = k THEN None ELSE journal[j] BY <1>1 DEF TypeOK
<1>11. Journalled' = Journalled BY <1>1, <1>8, <1>9 DEF Journalled
<1>12. TypeOK'
  <2>1. list' \subseteq Credentials BY <1>1, <1>5 DEF TypeOK
  <2>2. journal' \in [Requests -> {"pending", "needs-attention", None}] BY <1>1 DEF TypeOK
  <2>3. page' \in [Pages -> PageStates] BY <1>1, <1>8 DEF TypeOK, PageStates
  <2>4. \A q, r \in Pages : q # r /\ {page'[q].at, page'[r].at} \subseteq {"sent", "answered"} =>
          page'[q].op # page'[r].op
    BY <1>8, <1>9 DEF TypeOK
  <2>5. UNCHANGED <<preds, unlocked, issuer, slow, aged, asked, loose, rolled>> BY <1>1
  <2> QED BY <2>1, <2>2, <2>3, <2>4, <2>5 DEF TypeOK, PageStates, issuer
<1>13. \A j \in Requests \ Journalled' : Untouched(j)'
  <2> SUFFICES ASSUME NEW j \in Requests, j \notin Journalled, j # k PROVE Untouched(j)' BY <1>5, <1>11
  <2>1. Untouched(j) OBVIOUS
  <2> QED BY <1>1, <1>8, <1>9, <1>10, <2>1 DEF Untouched, WalletAssumption
<1>14. \A q \in Pages : PageKnows(q)'
  <2> SUFFICES ASSUME NEW q \in Pages, q # p PROVE PageKnows(q)' BY <1>8
  <2>1. page'[q] = page[q] /\ \A o \in Pages : page'[o].plan = page[o].plan BY <1>8, <1>9
  <2> QED BY <1>1, <2>1 DEF PageKnows, Refusal
<1>15. \A j \in Requests : IssuerKnows(j)'
  <2>1. \A j \in Requests : Sent(j)' => Sent(j) BY <1>1, <1>8, <1>9 DEF Sent
  <2> QED BY <1>1, <2>1 DEF IssuerKnows
<1>16. Endings'
  <2>0. \A j \in Requests : Out(j)' => Out(j) BY <1>1, <1>8, <1>9 DEF Out, WalletAssumption
  <2>1. ASSUME NEW j \in Journalled \ rolled PROVE EndedIn(j, journal, list)'
    <3>1. CASE j = k BY <1>1, <1>3, <1>4, <2>1, <3>1 DEF EndedIn
    <3>2. CASE j # k
      <4>1. EndedIn(j, journal, list) /\ journal'[j] = journal[j] /\ j \in Requests
        BY <1>10, <3>2 DEF Endings, Journalled
      <4> QED BY <1>1, <1>6, <2>0, <4>1 DEF EndedIn
    <3> QED BY <3>1, <3>2
  <2>2. ASSUME backup # None, NEW j \in backup.knows
        PROVE  EndedIn(j, backup.journal, backup.list)' /\ (backup.journal[j] = None => journal'[j] = None)
    <3>1. /\ j \in Requests /\ EndedIn(j, backup.journal, backup.list)
          /\ backup.journal[j] = None => journal[j] = None
      BY <2>2 DEF Endings, Journalled
    <3> QED BY <1>1, <1>10, <2>0, <3>1 DEF EndedIn
  <2> QED BY <1>1, <1>11, <2>1, <2>2 DEF Endings
<1>17. Spending'
  <2> SUFFICES ASSUME backup = None PROVE Spending' BY <1>1 DEF Spending
  <2>1. <<k, n>> \notin revoked BY <1>1, <1>2, <1>4 DEF Spending, k
  <2>2. ASSUME NEW c \in list' \cap revoked PROVE \E j \in Unfinished' \cup loose : c \in preds[j] /\ issued[j] > 0
    <3>1. c \in list \ preds[k] BY <1>1, <1>3, <2>1, <2>2
    <3>2. PICK j \in Unfinished \cup loose : c \in preds[j] /\ issued[j] > 0 BY <2>2, <3>1 DEF Spending
    <3> QED BY <1>10, <3>1, <3>2 DEF Unfinished
  <2>3. ASSUME NEW i \in Requests, NEW m \in 1..2, journal'[i] # None \/ issued[i] < m
        PROVE  <<i, m>> \notin list' \cup revoked /\ \A j \in Requests : preds[j] # None => <<i, m>> \notin preds[j]
    <3>1. journal[i] # None \/ issued[i] < m BY <1>10, <2>3
    <3>2. <<i, m>> # answer BY <1>3, <1>4, <1>10, <2>3
    <3> QED BY <1>1, <2>3, <3>1, <3>2 DEF Spending
  <2> QED BY <1>1, <2>2, <2>3 DEF Spending
<1>18. OneResultPerRequest' BY <1>1 DEF OneResultPerRequest
<1> QED BY <1>12, <1>13, <1>14, <1>15, <1>16, <1>17, <1>18

-----------------------------------------------------------------------------
(* The browser.                                                            *)

Passes == Lock \/ Unlock \/ \E k \in Requests : Age(k) \/ Expire(k)

LEMMA PassesNext == ASSUME WalletAssumption, WalletInv, Passes \/ UNCHANGED vars PROVE WalletInv'
<1> USE DEF WalletInv, storage, issuer
<1>1. /\ UNCHANGED <<list, journal, preds, page, backup, slow, revoked, issued, asked, loose, rolled>>
      /\ aged \subseteq aged' /\ aged' \subseteq Journalled \cup aged /\ unlocked' \in BOOLEAN
      /\ UNCHANGED stored \/ \E k \in aged \cap stored : ~ Sent(k) /\ stored' = stored \ {k} /\ UNCHANGED aged
  BY DEF Passes, Lock, Unlock, Age, Expire, vars, TypeOK, Sent
<1>2. Journalled' = Journalled /\ Journalled \subseteq Requests BY <1>1 DEF Journalled
<1>3. TypeOK' BY <1>1, <1>2 DEF TypeOK
<1>4. \A k \in Requests \ Journalled' : Untouched(k)' BY <1>1, <1>2 DEF Untouched
<1>5. \A p \in Pages : PageKnows(p)' BY <1>1 DEF PageKnows, Refusal
<1>6. \A k \in Requests : (Sent(k)' <=> Sent(k)) /\ (Out(k)' <=> Out(k)) BY <1>1 DEF Sent, Out
<1>7. \A k \in Requests : IssuerKnows(k)' BY <1>1, <1>6 DEF IssuerKnows
<1>8. Endings'
  <2>1. \A k \in Journalled \ rolled : EndedIn(k, journal, list)' BY <1>1, <1>2, <1>6 DEF Endings, EndedIn
  <2>2. ASSUME backup # None, NEW k \in backup.knows PROVE EndedIn(k, backup.journal, backup.list)'
    <3>1. k \in Requests /\ EndedIn(k, backup.journal, backup.list) BY <1>2, <2>2 DEF Endings
    <3> QED BY <1>1, <1>6, <3>1 DEF EndedIn
  <2> QED BY <1>1, <1>2, <2>1, <2>2 DEF Endings
<1>9. Spending' BY <1>1 DEF Spending, Unfinished
<1>10. OneResultPerRequest' BY <1>1 DEF OneResultPerRequest
<1> QED BY <1>3, <1>4, <1>5, <1>7, <1>8, <1>9, <1>10

LEMMA BackUpNext == ASSUME WalletAssumption, WalletInv, BackUp PROVE WalletInv'
<1> USE DEF WalletInv, storage, issuer
<1>1. /\ UNCHANGED <<list, journal, preds, unlocked, page, slow, issuer, aged, asked, loose, rolled>>
      /\ backup = None /\ backup' = [list |-> list, journal |-> journal, knows |-> Journalled]
  BY DEF BackUp
<1>2. Journalled' = Journalled BY <1>1 DEF Journalled
<1>3. TypeOK' BY <1>1 DEF TypeOK
<1>4. \A k \in Requests \ Journalled' : Untouched(k)' BY <1>1, <1>2 DEF Untouched
<1>5. \A p \in Pages : PageKnows(p)' BY <1>1 DEF PageKnows, Refusal
<1>6. \A k \in Requests : IssuerKnows(k)' BY <1>1 DEF IssuerKnows, Sent
<1>7. Endings'
  <2>0. \A k \in Requests : Out(k)' <=> Out(k) BY <1>1 DEF Out
  <2>1. \A k \in Journalled \ rolled : EndedIn(k, journal, list)' BY <1>1, <2>0 DEF Endings, EndedIn, Journalled
  <2>2. backup'.list = list /\ backup'.journal = journal /\ backup'.knows = Journalled BY <1>1
  <2>3. \A k \in Journalled : EndedIn(k, backup.journal, backup.list)'
    BY <1>1, <2>0, <2>2 DEF Endings, EndedIn, Journalled
  <2>4. backup' \in [list : SUBSET Credentials, journal : [Requests -> {"pending", "needs-attention", None}],
                     knows : SUBSET Journalled]
    BY <1>1 DEF TypeOK
  <2> QED BY <1>1, <1>2, <2>1, <2>2, <2>3, <2>4 DEF Endings
<1>8. Spending' BY <1>1 DEF Spending, Unfinished
<1>9. OneResultPerRequest' BY <1>1 DEF OneResultPerRequest
<1> QED BY <1>3, <1>4, <1>5, <1>6, <1>7, <1>8, <1>9

LEMMA RestoreNext == ASSUME WalletAssumption, WalletInv, Restore PROVE WalletInv'
<1> USE DEF WalletInv, issuer
<1>1. PICK local \in {journal, [k \in Requests |-> None]} : RestoreOver(local) /\ UNCHANGED <<preds, page>>
  BY DEF Restore
<1>2. /\ backup # None /\ list' = backup.list
      /\ journal' = [k \in Requests |-> IF local[k] = None \/ backup.journal[k] = "needs-attention"
                                        THEN backup.journal[k] ELSE local[k]]
      /\ rolled' = {k \in Journalled \ backup.knows : local[k] = None}
      /\ UNCHANGED <<preds, page, unlocked, backup, slow, issuer, aged, asked, loose>>
  BY <1>1 DEF RestoreOver
<1>3. /\ backup.list \in SUBSET Credentials /\ backup.knows \in SUBSET Journalled
      /\ backup.journal \in [Requests -> {"pending", "needs-attention", None}]
  BY <1>2 DEF Endings
<1>4. local \in [Requests -> {"pending", "needs-attention", None}]
      /\ \A k \in Requests : journal[k] = None => local[k] = None
  BY DEF TypeOK
<1>5. \A k \in Requests : journal'[k] = None <=> local[k] = None /\ backup.journal[k] = None
  BY <1>2, <1>3, <1>4 DEF WalletAssumption
<1>6. Journalled' = Journalled /\ Journalled \subseteq Requests BY <1>2 DEF Journalled
<1>7. TypeOK' BY <1>2, <1>3, <1>4, <1>6 DEF TypeOK
<1>8. \A k \in Requests \ Journalled' : Untouched(k)'
  BY <1>2, <1>4, <1>5, <1>6 DEF Untouched
<1>9. \A p \in Pages : PageKnows(p)' BY <1>2 DEF PageKnows, Refusal
<1>10. \A k \in Requests : IssuerKnows(k)' BY <1>2 DEF IssuerKnows, Sent
<1>11. Endings'
  <2>0. \A k \in Requests : Out(k)' <=> Out(k) BY <1>2 DEF Out
  <2>1. \A k \in backup.knows :
          EndedIn(k, backup.journal, backup.list) /\ (backup.journal[k] = None => journal[k] = None)
    BY <1>2 DEF Endings
  <2>2. \A k \in Journalled \ rolled' : journal'[k] = None => k \in backup.knows BY <1>2, <1>5, <1>6
  <2>3. \A k \in Journalled \ rolled' : EndedIn(k, journal, list)'
    BY <1>2, <1>5, <1>6, <2>0, <2>1, <2>2 DEF EndedIn
  <2>4. \A k \in backup.knows : EndedIn(k, backup.journal, backup.list)'
    BY <1>2, <1>3, <1>6, <2>0, <2>1 DEF EndedIn
  <2>5. \A k \in backup.knows : backup.journal[k] = None => journal'[k] = None
    BY <1>3, <1>4, <1>5, <1>6, <2>1
  <2> QED BY <1>2, <1>3, <1>6, <2>3, <2>4, <2>5 DEF Endings
<1>12. Spending' BY <1>2 DEF Spending
<1>13. OneResultPerRequest' BY <1>2 DEF OneResultPerRequest
<1> QED BY <1>7, <1>8, <1>9, <1>10, <1>11, <1>12, <1>13

-----------------------------------------------------------------------------
(* The theorems.                                                           *)

LEMMA WalletInit == ASSUME WalletAssumption, Init PROVE WalletInv
<1>1. TypeOK BY DEF Init, TypeOK, Rest, States, Modes, Credentials
<1>2. \A k \in Requests : Untouched(k) BY DEF Init, Untouched, Rest, WalletAssumption
<1>3. \A p \in Pages : PageKnows(p) BY DEF Init, PageKnows, Rest
<1>4. \A k \in Requests : IssuerKnows(k) BY DEF Init, IssuerKnows
<1>5. Journalled = {} BY DEF Init, Journalled
<1>6. Endings BY <1>5 DEF Init, Endings
<1>7. Spending BY DEF Init, Spending, WalletAssumption
<1>8. OneResultPerRequest BY DEF Init, OneResultPerRequest
<1> QED BY <1>1, <1>2, <1>3, <1>4, <1>6, <1>7, <1>8 DEF WalletInv

LEMMA WalletNext == ASSUME WalletAssumption, WalletInv, [Next]_vars PROVE WalletInv'
<1>1. ASSUME NEW p \in Pages, RecoverAfterUnlock(p) \/ Work(p) \/ Issuer(p) \/ NoAnswer(p) \/ Close(p) PROVE WalletInv'
  <2>1. CASE Recovering(p) BY <2>1, RecoveringNext
  <2>2. CASE Retrying(p) BY <2>2, RetryingNext
  <2>3. CASE AssertSettled(p) \/ JournalAndSend(p) \/ Close(p) BY <2>3, PlanningNext
  <2>4. CASE Apply(p) /\ ~ UNCHANGED storage BY <2>4, ApplyNext
  <2>5. CASE Issuer(p) BY <2>5, IssuerNext
  <2> QED BY <1>1, <2>1, <2>2, <2>3, <2>4, <2>5 DEF Work, Recovering, Retrying
<1>2. ASSUME NEW p \in Pages, NEW k \in Requests,
             RetryPending(p, k) \/ \E chosen \in SUBSET list : Begin(p, k, chosen)
      PROVE  WalletInv'
  BY <1>2, BeginNext, RetryingNext DEF Retrying
<1>3. ASSUME NEW k \in Requests, IssuerLate(k) \/ Age(k) \/ Expire(k) PROVE WalletInv'
  BY <1>3, IssuerLateNext, PassesNext DEF Passes
<1>4. CASE Lock \/ Unlock \/ BackUp \/ Restore \/ UNCHANGED vars
  BY <1>4, PassesNext, BackUpNext, RestoreNext DEF Passes
<1> QED BY <1>1, <1>2, <1>3, <1>4 DEF Next

LEMMA WalletHolds == Spec => []WalletInv
BY WalletAssumption, WalletInit, WalletNext, PTL DEF Spec

\* What the pages, the stores and the issuer keep is well-formed, and no two
\* pages send one request: the slot (a Web Lock) of sendOperation.
THEOREM TypesHold == Spec => []TypeOK
BY WalletHolds, PTL DEF WalletInv

\* What the issuer has signed is not lost, whatever answers, pages, locks and
\* backups do: an entry ends only with its result in the list (commitOperation)
\* or with a refusal that is final, unless the request can still be carried out
\* then (a slow copy, or a page that sends the entry as it read it before).
THEOREM ResultIsKept == Spec => []CommittedIsKept
<1>1. ASSUME WalletAssumption, WalletInv PROVE CommittedIsKept
  <2> SUFFICES ASSUME NEW k \in Requests \ (rolled \cup loose), issued[k] = 1, journal[k] = None
               PROVE  <<k, 1>> \in list \cup revoked
    BY DEF CommittedIsKept, Unfinished
  <2>1. k \in Journalled BY <1>1 DEF WalletInv, Untouched
  <2> QED BY <1>1, <2>1 DEF WalletInv, Endings, EndedIn
<1> QED BY <1>1, WalletAssumption, WalletHolds, PTL

\* What is spent is in the list only while the request that spent it is held
\* back, or its entry ended too early: assertPredecessorsSettled and the one
\* write of list and journal.
THEOREM NothingSpentIsOffered == Spec => []SpentIsHeldBack
<1>1. WalletInv => SpentIsHeldBack BY DEF WalletInv, Spending, SpentIsHeldBack
<1> QED BY <1>1, WalletHolds, PTL

\* A replacement is carried out once, however often it is sent: its predecessors
\* are revoked.  A mint is carried out again only when it is old; a unique one
\* only if a person had it sent then (the age guard of sendOperation), a fungible
\* one without that guard.
THEOREM CarriedOutOnce == Spec => []OneResultPerRequest
BY WalletHolds, PTL DEF WalletInv

====
