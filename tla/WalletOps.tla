------------------------------ MODULE WalletOps ------------------------------
(***************************************************************************)
(* The wallet's requests that replace credentials (extension/wallet.js):   *)
(* each is written to a journal before it is sent, and its result goes     *)
(* into the wallet list in the same write that ends its journal entry.     *)
(* Several pages of one browser share the list and the journal; the issuer *)
(* answers a repeated request from what it stored, for a time.             *)
(*                                                                         *)
(* The credential a request results in is <<k, n>>: the n-th time the      *)
(* issuer carried out k.  An action is a stretch between two awaits; every *)
(* write re-reads what it changes under the wallet lock.                   *)
(***************************************************************************)
EXTENDS Naturals, FiniteSets

CONSTANTS
  Pages,        \* pages of the extension, and its background worker
  Requests,     \* request ids
  Kind,         \* Kind[k]: "replace", "item" (a unique mint), "mint" (a fungible one)
  Items,        \* credentials held at the start
  Scenarios,    \* which requests are made and which faults happen: see `left`
  None

Credentials == Items \cup (Requests \X (1..2))

ASSUME WalletAssumption ==
  /\ Scenarios \subseteq [requests : SUBSET Requests, loss : Nat, close : Nat, lock : Nat,
                          age : Nat, restore : Nat, manual : Nat]
  /\ Kind \in [Requests -> {"replace", "item", "mint"}]
  /\ Items \cap (Requests \X (1..2)) = {}
  /\ None \notin Pages \cup Requests \cup Credentials \cup {"pending", "needs-attention"}
  /\ \A S \in SUBSET Credentials : S # None

VARIABLES
  list,      \* the stored wallet list
  journal,   \* journal[k]: state of the entry of k, None if there is none
  preds,     \* preds[k]: the credentials k presents, None before it is made
  unlocked,  \* can the stores be read and written?
  page,      \* page[p]: what page p is doing
  backup,    \* the backup that was made, None before
  slow,      \* requests of which a copy that no page waits for any more may
             \* still be carried out
  revoked,   \* credentials the issuer has revoked
  issued,    \* issued[k]: how often the issuer has carried out k
  stored,    \* requests whose answer the issuer still keeps
  aged,      \* requests older than 0.9 of the issuer's retention
  asked,     \* of these, the ones a person had sent again
  loose,     \* requests whose entry ended with a refusal while a copy was slow
             \* or another page was about to send them again
  rolled,    \* requests that ended after the backup that was restored
  left       \* bound: the requests that may be made, and how many sends may go
             \* without a usable answer (loss), pages be closed (close), locks
             \* (lock), stored answers grow old (age), backups be
             \* restored (restore) and a person ask again (manual)

storage == <<list, journal>>
issuer  == <<revoked, issued, stored>>
vars    == <<storage, preds, unlocked, page, backup, slow, issuer, aged, asked, loose, rolled, left>>

Rest == [at |-> "idle", mode |-> None, op |-> None, plan |-> None, queue |-> {},
         answer |-> None]

Init ==
  /\ list = Items /\ journal = [k \in Requests |-> None]
  /\ preds = [k \in Requests |-> None] /\ unlocked = TRUE
  /\ page = [p \in Pages |-> Rest] /\ backup = None /\ slow = {}
  /\ revoked = {} /\ issued = [k \in Requests |-> 0] /\ stored = {}
  /\ aged = {} /\ asked = {} /\ loose = {} /\ rolled = {}
  /\ left \in Scenarios

Use(kind) == left[kind] > 0 /\ left' = [left EXCEPT ![kind] = @ - 1]

Unfinished == {k \in Requests : journal[k] # None}
Pending    == {k \in Requests : journal[k] = "pending"}
Journalled == {k \in Requests : preds[k] # None /\ \A p \in Pages : page[p].plan # k}
Held       == UNION {preds[k] : k \in Unfinished}

\* The Web Locks: one per request that is being sent, one for the recovery.
SlotFree(k)  == \A p \in Pages : page[p].at \in {"sent", "answered"} => page[p].op # k
RecoveryFree == \A p \in Pages : page[p].mode # "recovery"

\* What a page does when the send it was at has ended.
Ended(pg) ==
  IF pg.mode = "recovery" THEN [pg EXCEPT !.at = "recover", !.op = None, !.answer = None] ELSE Rest

\* journalPatch writes nothing if the entry is gone and fails if locked.
Patch(k, state) ==
  journal' = IF unlocked /\ journal[k] # None THEN [journal EXCEPT ![k] = state] ELSE journal

-----------------------------------------------------------------------------
(* Recovery.                                                               *)

\* The journal is read once; a recovery that runs elsewhere is not repeated.
Recovery(plan) ==
  IF RecoveryFree
  THEN [Rest EXCEPT !.at = "recover", !.mode = "recovery", !.plan = plan, !.queue = Pending]
  ELSE [Rest EXCEPT !.at = "check", !.plan = plan]

\* An unlock, or a page that opens on an unlocked wallet (recoverAfterUnlock,
\* reverifyAll).
RecoverAfterUnlock(p) ==
  /\ page[p].at = "idle" /\ unlocked /\ Pending # {} /\ RecoveryFree
  /\ page' = [page EXCEPT ![p] = Recovery(None)]
  /\ UNCHANGED <<storage, preds, unlocked, backup, slow, issuer, aged, asked, loose, rolled, left>>

ResendsAnyAge(p, k, pg) ==   \* (mutated: a unique mint goes out again however old)
  /\ page' = [page EXCEPT ![p] = [pg EXCEPT !.at = "sent", !.op = k]]
  /\ UNCHANGED <<journal, asked, left>>

\* sendOperation, of an entry that may have been sent before.
Resend(p, k, pg) ==
  \* only a unique mint is held back if the issuer no longer lists it, or late
  \/ /\ Kind[k] = "item" => pg.mode = "manual" \/ k \notin aged
     /\ page' = [page EXCEPT ![p] = [pg EXCEPT !.at = "sent", !.op = k]]
     /\ asked' = IF k \in aged /\ pg.mode = "manual" THEN asked \cup {k} ELSE asked
     /\ UNCHANGED <<journal, left>>
  \/ /\ Kind[k] = "item"
     /\ Patch(k, "needs-attention")
     /\ page' = [page EXCEPT ![p] = Ended(pg)]
     /\ UNCHANGED <<asked, left>>
  \/ /\ Kind[k] = "item" /\ Use("loss")
     /\ page' = [page EXCEPT ![p] = Ended(pg)]
     /\ UNCHANGED <<journal, asked>>

KeepsRecovering(p) ==   \* (mutated: the recovery slot stays taken)
  /\ page[p].at = "recover" /\ page[p].queue = {}
  /\ page' = [page EXCEPT ![p] =
                IF page[p].plan = None THEN [Rest EXCEPT !.mode = "recovery"]
                ELSE [Rest EXCEPT !.at = "check", !.plan = page[p].plan]]
  /\ UNCHANGED <<storage, preds, unlocked, backup, slow, issuer, aged, asked, loose, rolled, left>>

\* One entry of those that were read, whatever has become of it since.
RecoverNext(p) ==
  /\ page[p].at = "recover"
  /\ \E k \in page[p].queue : LET pg == [page[p] EXCEPT !.queue = @ \ {k}] IN
       \/ /\ ~ unlocked \/ ~ SlotFree(k)
          /\ page' = [page EXCEPT ![p] = pg]
          /\ UNCHANGED <<journal, asked, left>>
       \/ unlocked /\ SlotFree(k) /\ Resend(p, k, pg)
  /\ UNCHANGED <<list, preds, unlocked, backup, slow, issuer, aged, loose, rolled>>

RecoverEnd(p) ==
  /\ page[p].at = "recover" /\ page[p].queue = {}
  /\ page' = [page EXCEPT ![p] =
                IF page[p].plan = None THEN Rest ELSE [Rest EXCEPT !.at = "check", !.plan = page[p].plan]]
  /\ UNCHANGED <<storage, preds, unlocked, backup, slow, issuer, aged, asked, loose, rolled, left>>

SendsAtOnce(p) ==   \* (mutated: the slot of the request is not waited for)
  /\ page[p].at = "waiting"
  /\ Resend(p, page[p].op, page[p])
  /\ UNCHANGED <<list, preds, unlocked, backup, slow, issuer, aged, loose, rolled>>

\* retryPendingOperation: a person asks again; the entry is read before the
\* wait for its slot.
RetryPending(p, k) ==
  /\ page[p].at = "idle" /\ unlocked /\ k \in Unfinished /\ Use("manual")
  /\ page' = [page EXCEPT ![p] = [Rest EXCEPT !.at = "waiting", !.mode = "manual", !.op = k]]
  /\ UNCHANGED <<storage, preds, unlocked, backup, slow, issuer, aged, asked, loose, rolled>>

RetrySend(p) ==
  /\ page[p].at = "waiting" /\ SlotFree(page[p].op)
  /\ Resend(p, page[p].op, page[p])
  /\ UNCHANGED <<list, preds, unlocked, backup, slow, issuer, aged, loose, rolled>>

-----------------------------------------------------------------------------
(* A new request.                                                          *)

\* What the person may choose: credentials that are not shown as held back.
Begin(p, k, chosen) ==
  /\ page[p].at = "idle" /\ unlocked /\ k \in left.requests /\ preds[k] = None
  /\ chosen \subseteq list \ Held /\ (Kind[k] = "replace") = (chosen # {})
  /\ preds' = [preds EXCEPT ![k] = chosen]
  /\ page' = [page EXCEPT ![p] = Recovery(k)]
  /\ UNCHANGED <<storage, unlocked, backup, slow, issuer, aged, asked, loose, rolled, left>>

GiveUp(p) ==
  /\ preds' = [preds EXCEPT ![page[p].plan] = None]
  /\ page' = [page EXCEPT ![p] = Rest]

AssertSettled(p) ==
  /\ page[p].at = "check"
  /\ IF unlocked /\ preds[page[p].plan] \cap Held = {}
     THEN page' = [page EXCEPT ![p].at = "ready"] /\ UNCHANGED preds
     ELSE GiveUp(p)
  /\ UNCHANGED <<storage, unlocked, backup, slow, issuer, aged, asked, loose, rolled, left>>

\* journalAdd and the first send, under the slot of the request.
JournalAndSend(p) ==
  /\ page[p].at = "ready"
  /\ LET k == page[p].plan IN
       IF unlocked
       THEN /\ journal' = [journal EXCEPT ![k] = "pending"]
            /\ page' = [page EXCEPT ![p] = [Rest EXCEPT !.at = "sent", !.mode = "fresh", !.op = k]]
            /\ UNCHANGED preds
       ELSE GiveUp(p) /\ UNCHANGED journal
  /\ UNCHANGED <<list, unlocked, backup, slow, issuer, aged, asked, loose, rolled, left>>

-----------------------------------------------------------------------------
(* The issuer, and the way to it.                                          *)

\* An answer is a credential, or a refusal.
Refusal(k) == <<k, 0>>

\* It answers from what it stored; if it stored nothing it carries the request
\* out, unless a predecessor is spent, or refuses it, for reasons of its own.
Outcome(k, answer) ==
  \/ k \in stored /\ answer = <<k, issued[k]>> /\ UNCHANGED issuer
  \/ /\ k \notin stored /\ preds[k] \cap revoked = {} /\ issued[k] < 2
     /\ revoked' = revoked \cup preds[k]
     /\ issued' = [issued EXCEPT ![k] = @ + 1]
     /\ stored' = stored \cup {k}
     /\ answer = <<k, issued[k] + 1>>
  \/ k \notin stored /\ answer = Refusal(k) /\ UNCHANGED issuer

Issuer(p) ==
  /\ page[p].at = "sent"
  /\ \E n \in 0..2 : LET answer == <<page[p].op, n>> IN
       /\ Outcome(page[p].op, answer)
       /\ page' = [page EXCEPT ![p].at = "answered", ![p].answer = answer]
  /\ UNCHANGED <<storage, preds, unlocked, backup, slow, aged, asked, loose, rolled, left>>

\* The copy of a send that was given up.
IssuerLate(k) ==
  /\ k \in slow /\ slow' = slow \ {k}
  /\ \E n \in 0..2 : Outcome(k, <<k, n>>)
  /\ UNCHANGED <<storage, preds, unlocked, page, backup, aged, asked, loose, rolled, left>>

\* An aborted request may have been lost, or still be processed.
LeaveBehind(p) ==
  IF page[p].at = "sent" THEN slow' \in {slow, slow \cup {page[p].op}} ELSE UNCHANGED slow

\* A network failure, a timeout, a 5xx, "busy" or an unusable body.
NoAnswer(p) ==
  /\ page[p].at \in {"sent", "answered"} /\ Use("loss")
  /\ LeaveBehind(p)
  /\ page' = [page EXCEPT ![p] = Ended(page[p])]
  /\ UNCHANGED <<storage, preds, unlocked, backup, issuer, aged, asked, loose, rolled>>

Age(k) ==
  /\ k \in Journalled \ aged /\ Use("age")
  /\ aged' = aged \cup {k}
  /\ UNCHANGED <<storage, preds, unlocked, page, backup, slow, issuer, asked, loose, rolled>>

\* No request is on its way, and none stays slow, for a tenth of the retention.
Expire(k) ==
  /\ k \in (aged \cap stored) \ slow
  /\ \A p \in Pages : page[p].at = "sent" => page[p].op # k
  /\ stored' = stored \ {k}
  /\ UNCHANGED <<storage, preds, unlocked, page, backup, slow, revoked, issued, aged,
                 asked, loose, rolled, left>>

-----------------------------------------------------------------------------
(* The answer.                                                             *)

AppliesAgain(p) ==   \* (mutated: the answer is applied although its entry is gone)
  /\ page[p].at = "answered" /\ page[p].answer # Refusal(page[p].op)
  /\ IF unlocked
     THEN /\ list' = (list \ preds[page[p].op]) \cup {page[p].answer}
          /\ journal' = [journal EXCEPT ![page[p].op] = None]
     ELSE UNCHANGED storage
  /\ page' = [page EXCEPT ![p] = Ended(page[p])]
  /\ UNCHANGED <<preds, unlocked, backup, slow, issuer, aged, asked, loose, rolled, left>>

\* commitOperation: the list and the journal in one write, if the entry is
\* still there; if the wallet is locked the entry waits for the next recovery.
Apply(p) ==
  /\ page[p].at = "answered" /\ page[p].answer # Refusal(page[p].op)
  /\ LET k == page[p].op IN
       IF unlocked /\ journal[k] # None
       THEN /\ list' = (list \ preds[k]) \cup {page[p].answer}
            /\ journal' = [journal EXCEPT ![k] = None]
       ELSE UNCHANGED storage
  /\ page' = [page EXCEPT ![p] = Ended(page[p])]
  /\ UNCHANGED <<preds, unlocked, backup, slow, issuer, aged, asked, loose, rolled, left>>

TakesRefusal(k) == TRUE   \* (mutated: every refusal is taken as definite)

\* predecessorsProvablyUnrevoked
ProvablyUnrevoked(k) == \E c \in preds[k] : c \notin revoked

\* Can k still be sent, or be carried out, without the page p?
StillOut(p, k) ==
  k \in slow \/ \E q \in Pages \ {p} : page[q].op = k \/ k \in page[q].queue

\* A refusal ends the entry if it was the first send, or if the revocation
\* list shows that the request was not carried out.
Refused(p) ==
  /\ page[p].at = "answered" /\ page[p].answer = Refusal(page[p].op)
  /\ LET k == page[p].op
         ends == page[p].mode = "fresh" \/ ProvablyUnrevoked(k)
     IN
       /\ Patch(k, IF ends THEN None ELSE "needs-attention")
       /\ loose' = IF ends /\ unlocked /\ journal[k] # None /\ StillOut(p, k) THEN loose \cup {k} ELSE loose
  /\ page' = [page EXCEPT ![p] = Ended(page[p])]
  /\ UNCHANGED <<list, preds, unlocked, backup, slow, issuer, aged, asked, rolled, left>>

-----------------------------------------------------------------------------
(* The browser.                                                            *)

Close(p) ==
  /\ page[p].at # "idle" /\ Use("close")
  /\ LeaveBehind(p)
  /\ page' = [page EXCEPT ![p] = Rest]
  /\ preds' = [k \in Requests |-> IF page[p].plan = k THEN None ELSE preds[k]]
  /\ UNCHANGED <<storage, unlocked, backup, issuer, aged, asked, loose, rolled>>

Lock ==
  /\ unlocked /\ unlocked' = FALSE /\ Use("lock")
  /\ UNCHANGED <<storage, preds, page, backup, slow, issuer, aged, asked, loose, rolled>>

Unlock ==
  /\ ~ unlocked /\ unlocked' = TRUE
  /\ UNCHANGED <<storage, preds, page, backup, slow, issuer, aged, asked, loose, rolled, left>>

\* snapshotWalletAndJournal: one read of both.
BackUp ==
  /\ unlocked /\ backup = None /\ left.restore > 0
  /\ backup' = [list |-> list, journal |-> journal, knows |-> Journalled]
  /\ UNCHANGED <<storage, preds, unlocked, page, slow, issuer, aged, asked, loose, rolled, left>>

\* The wallet of the backup, and its journal merged with `local`, what is
\* stored where it is restored: here, or nothing on another device.
RestoreOver(local) ==
  /\ unlocked /\ backup # None /\ Use("restore")
  /\ list' = backup.list
  /\ journal' = [k \in Requests |->
                   IF local[k] = None \/ backup.journal[k] = "needs-attention"
                   THEN backup.journal[k] ELSE local[k]]
  /\ rolled' = {k \in Journalled \ backup.knows : local[k] = None}
  /\ UNCHANGED <<unlocked, backup, slow, issuer, aged, asked, loose>>

Restore ==
  \/ RestoreOver(journal) /\ UNCHANGED <<preds, page>>
  \/ /\ \A p \in Pages : page[p].at = "idle"
     /\ RestoreOver([k \in Requests |-> None]) /\ UNCHANGED <<preds, page>>

\* A page goes on with what it is at.
Work(p) ==
  \/ RecoverNext(p) \/ RecoverEnd(p) \/ RetrySend(p)
  \/ AssertSettled(p) \/ JournalAndSend(p) \/ Apply(p) \/ Refused(p)

Next ==
  \/ \E p \in Pages : RecoverAfterUnlock(p) \/ Work(p) \/ Issuer(p) \/ NoAnswer(p) \/ Close(p)
  \/ \E p \in Pages, k \in Requests :
       RetryPending(p, k) \/ \E chosen \in SUBSET list : Begin(p, k, chosen)
  \/ \E k \in Requests : IssuerLate(k) \/ Age(k) \/ Expire(k)
  \/ Lock \/ Unlock \/ BackUp \/ Restore

\* The issuer answers, a page finishes what it is at, a locked wallet is
\* unlocked again, and some page opens while entries wait for an answer.
Fairness ==
  /\ \A p \in Pages : WF_vars(Work(p)) /\ WF_vars(Issuer(p))
  /\ WF_vars(\E p \in Pages : RecoverAfterUnlock(p))
  /\ WF_vars(Unlock)

Spec == Init /\ [][Next]_vars
FairSpec == Spec /\ Fairness
-----------------------------------------------------------------------------
(* Properties.                                                             *)

States == {"idle", "recover", "waiting", "check", "ready", "sent", "answered"}
Modes  == {"fresh", "manual", "recovery", None}

\* The state is what the code keeps; a request is being sent by one page only.
TypeOK ==
  /\ \A p, q \in Pages : p # q /\ {page[p].at, page[q].at} \subseteq {"sent", "answered"} =>
       page[p].op # page[q].op
  /\ list \subseteq Credentials /\ revoked \subseteq Credentials
  /\ journal \in [Requests -> {"pending", "needs-attention", None}]
  /\ preds \in [Requests -> (SUBSET Credentials) \cup {None}]
  /\ unlocked \in BOOLEAN
  /\ page \in [Pages -> [at : States, mode : Modes, op : Requests \cup {None},
                         plan : Requests \cup {None}, queue : SUBSET Requests,
                         answer : (Requests \X (0..2)) \cup {None}]]
  /\ issued \in [Requests -> 0..2]
  /\ \A s \in {slow, stored, aged, asked, loose, rolled} : s \subseteq Requests

\* What the issuer has signed is not lost: its result is in the list, or has
\* been spent, or the request is in the journal and can be repeated.  Two things
\* forget it: restoring a backup made before the request, and an entry that ends
\* with a refusal while the request can still be carried out: because an earlier
\* copy is slow, or another page sends the entry as it read it before.
CommittedIsKept ==
  \A k \in Requests \ (rolled \cup loose) : issued[k] = 1 =>
    <<k, 1>> \in list \cup revoked \/ k \in Unfinished

\* A credential the wallet holds and does not hold back is not spent: it leaves
\* the list with the answer that spends it, and does not come back when another
\* answer is applied late.  (Except by a request whose entry ended too early; and
\* what an old backup brings back is found out when it is verified, which the
\* model leaves out.)
SpentIsHeldBack ==
  backup = None => \A c \in list \cap revoked : \E k \in Unfinished \cup loose : c \in preds[k]

\* A request is carried out once, however often and by however many pages it is
\* sent.  Only a mint can be carried out again, when the issuer may have dropped
\* its answer: a unique one if a person had it sent then, a fungible one by any
\* send, for nothing holds it back.
OneResultPerRequest ==
  \A k \in Requests : issued[k] > 1 =>
    k \in aged /\ Kind[k] # "replace" /\ (Kind[k] = "item" => k \in asked)

\* Every request comes to an end: applied, refused, or left to the person.
EntriesSettle == []<>(Pending = {})
=============================================================================
