------------------------- MODULE CallServiceProofs -------------------------
(***************************************************************************)
(* Theorems about CallService, for every set of tags, wallets, calls and   *)
(* devices and every number of restarts and failed saves.                  *)
(***************************************************************************)
EXTENDS CallService, TLAPS

\* A call that exists was placed through a tag, and so was one that an accept
\* is still hashing for: it is not forgotten before.
Placed ==
  /\ \A c \in CallIds : call[c].state # "none" => call[c].tag \in Tags
  /\ \A x \in accepting : call[x.call].state # "none"

TypeInv == TypeOK /\ Placed

\* Calls end as the code ends them: they exist, and the message that ends one
\* is counted within the limit.
Ending(C, by, counts) ==
  /\ C \subseteq CallIds /\ by \in Roles \cup {"service"} /\ counts \in {0, 1}
  /\ \A c \in C : call[c].state # "none" /\ call[c].messages + counts <= MaxSignals
  /\ EndCalls(C, by, counts)

\* The calls in C are over, and nothing else has happened to any.
OnlyEnds(C) ==
  \A c \in CallIds :
    /\ call'[c].tag = call[c].tag
    /\ call'[c].state = IF c \in C THEN "ENDED" ELSE call[c].state

\* How a call ends, whoever ends it: what becomes of the calls ...
LEMMA EndChanges ==
  ASSUME TypeInv, NEW C, NEW by, NEW counts, Ending(C, by, counts)
  PROVE  call' \in [CallIds -> CallRecord] /\ OnlyEnds(C)
<1> USE DEF TypeInv, Ending
<1>1. ASSUME NEW c \in CallIds PROVE
          /\ call'[c] \in CallRecord /\ call'[c].tag = call[c].tag
          /\ call'[c].state = IF c \in C THEN "ENDED" ELSE call[c].state
    <2>1. call[c] \in CallRecord BY DEF TypeOK
    <2>2. c \in C => call[c].messages + counts \in 0..MaxSignals
      BY <2>1, CallServiceAssumption DEF CallRecord, CallServiceAssumption
    <2>3. call'[c] = IF c \in C
            THEN [call[c] EXCEPT !.state = "ENDED", !.by = by, !.messages = @ + counts]
            ELSE call[c]
      BY DEF EndCalls
    <2>4. CASE c \in C
      <3> DEFINE m == call[c].messages + counts
      <3>1. call'[c] = [call[c] EXCEPT !.state = "ENDED", !.by = by, !.messages = m]
        BY <2>3, <2>4
      <3>2. m \in 0..MaxSignals BY <2>2, <2>4
      <3> HIDE DEF m
      <3> QED BY <2>1, <2>4, <3>1, <3>2 DEF CallRecord, States
    <2> QED BY <2>1, <2>3, <2>4
<1>2. call' = [c \in CallIds |-> call'[c]] BY DEF EndCalls
<1> QED BY <1>1, <1>2 DEF OnlyEnds

\* ... and of the mailboxes and marks.
LEMMA EndTyped ==
  ASSUME TypeInv, NEW C, NEW by, NEW counts, Ending(C, by, counts)
  PROVE  /\ told' \in [CallIds -> [Roles -> Seq(Event)]]
         /\ ringing' \in [Tags -> CallIds \cup {None}]
         /\ listener' \in [Owners -> {None} \cup SUBSET Mail]
<1> USE DEF TypeInv, Ending
<1>2. told' \in [CallIds -> [Roles -> Seq(Event)]]
  <2>1. [type |-> "ended", n |-> 0] \in Event BY DEF Event
  <2> DEFINE Heard(c) == [r \in Roles |->
               IF r # by /\ (r = "A" \/ call[c].accepted)
               THEN Append(told[c][r], [type |-> "ended", n |-> 0]) ELSE told[c][r]]
             Mailbox(c) == IF c \notin C THEN told[c] ELSE Heard(c)
  <2>2. ASSUME NEW c \in CallIds PROVE Heard(c) \in [Roles -> Seq(Event)]
    <3>1. ASSUME NEW r \in Roles
          PROVE  Append(told[c][r], [type |-> "ended", n |-> 0]) \in Seq(Event)
      BY <2>1 DEF TypeOK
    <3> QED BY <3>1 DEF TypeOK
  <2>3. told' = [c \in CallIds |-> Mailbox(c)] BY DEF EndCalls
  <2> HIDE DEF Heard
  <2>4. \A c \in CallIds : Mailbox(c) \in [Roles -> Seq(Event)] BY <2>2 DEF TypeOK
  <2> QED BY <2>3, <2>4
<1>3. ringing' \in [Tags -> CallIds \cup {None}] BY DEF EndCalls, Freed, TypeOK
<1>4. listener' \in [Owners -> {None} \cup SUBSET Mail]
  <2>1. ASSUME NEW o \in Owners, listener[o] # None
        PROVE  WithoutInvites(C, listener[o]) \cup
                 {[call |-> c, type |-> "ended"] :
                   c \in {d \in C : by # "B" /\ ~ call[d].accepted /\ OwnerOf(d) = o}}
               \in SUBSET Mail
    BY <2>1 DEF TypeOK, WithoutInvites, Mail
  <2> QED BY <2>1 DEF EndCalls
<1> QED BY <1>2, <1>3, <1>4

\* Saving the tag file, or failing to.
LEMMA SaveTyped ==
  ASSUME TypeOK, tags' \subseteq Tags, used' \in [Tags -> Nat], SaveWorks \/ SaveFails
  PROVE  disk' \in [tags : SUBSET Tags, used : [Tags -> Nat]] /\ faults' \in Nat
BY DEF TypeOK, SaveWorks, SaveFails

\* One call changes, and one message is added to one of its mailboxes.
LEMMA TellTyped ==
  ASSUME TypeOK, NEW c \in CallIds, NEW r \in Roles, NEW e \in Event,
         told' = [told EXCEPT ![c][r] = Append(@, e)]
  PROVE  told' \in [CallIds -> [Roles -> Seq(Event)]]
<1>1. told[c] \in [Roles -> Seq(Event)] /\ told[c][r] \in Seq(Event) BY DEF TypeOK
<1>2. Append(told[c][r], e) \in Seq(Event) BY <1>1
<1>3. [told[c] EXCEPT ![r] = Append(told[c][r], e)] \in [Roles -> Seq(Event)] BY <1>1, <1>2
<1> QED BY <1>3 DEF TypeOK

LEMMA EndStep ==
  ASSUME TypeInv, NEW C, NEW by, NEW counts, Ending(C, by, counts),
         UNCHANGED <<expired, creating, seen, accepting, restarts>>,
         tags' \subseteq Tags, revoked' \subseteq Tags, used' \in [Tags -> Nat],
         disk' \in [tags : SUBSET Tags, used : [Tags -> Nat]], faults' \in Nat
  PROVE  TypeInv'
<1>a. call' \in [CallIds -> CallRecord] /\ OnlyEnds(C) BY EndChanges
<1>b. /\ told' \in [CallIds -> [Roles -> Seq(Event)]]
      /\ ringing' \in [Tags -> CallIds \cup {None}]
      /\ listener' \in [Owners -> {None} \cup SUBSET Mail]
  BY EndTyped
<1>1. TypeOK' BY <1>a, <1>b DEF TypeInv, TypeOK
<1>2. \A c \in CallIds : /\ call'[c].tag = call[c].tag
                         /\ call'[c].state # "none" => call[c].state # "none"
  BY <1>a DEF OnlyEnds, Ending
<1>3. \A c \in CallIds : call[c].state # "none" => call'[c].state # "none" BY <1>a DEF OnlyEnds
<1>4. \A x \in accepting : x.call \in CallIds BY DEF TypeInv, TypeOK
<1>5. Placed' BY <1>2, <1>3, <1>4 DEF TypeInv, Placed
<1> QED BY <1>1, <1>5 DEF TypeInv

LEMMA CountTyped ==
  ASSUME TypeOK, NEW c \in CallIds, Counted(c)
  PROVE  /\ call[c] \in CallRecord /\ call[c].state # "none"
         /\ call[c].messages + 1 \in 0..MaxSignals
         /\ call[c].messages + 1 <= MaxSignals
BY CallServiceAssumption DEF TypeOK, Counted, Live, CallRecord, CallServiceAssumption

\* A step that changes one call that exists, and leaves its tag alone.
LEMMA OneCall ==
  ASSUME TypeInv, NEW c \in CallIds, NEW next \in CallRecord,
         call[c].state # "none", next.state # "none", next.tag = call[c].tag,
         call' = [call EXCEPT ![c] = next],
         told' \in [CallIds -> [Roles -> Seq(Event)]],
         ringing' \in [Tags -> CallIds \cup {None}],
         listener' \in [Owners -> {None} \cup SUBSET Mail],
         accepting' \subseteq [call : CallIds, key : Devices, step : {"invite", "transcript"}],
         \A x \in accepting' : x.call = c \/ \E y \in accepting : x.call = y.call,
         UNCHANGED <<store, seen, bounds>>
  PROVE  TypeInv'
<1>1. TypeOK' BY DEF TypeInv, TypeOK, store, bounds
<1>2. \A d \in CallIds : call'[d].state # "none" => call'[d].tag \in Tags
  BY DEF TypeInv, TypeOK, Placed
<1>3. \A d \in CallIds : call[d].state # "none" => call'[d].state # "none"
  BY DEF TypeInv, TypeOK
<1>4. \A y \in accepting : y.call \in CallIds /\ call[y.call].state # "none"
  BY DEF TypeInv, TypeOK, Placed
<1>5. \A x \in accepting' : call'[x.call].state # "none" BY <1>3, <1>4
<1> QED BY <1>1, <1>2, <1>5 DEF TypeInv, Placed

\* A call that has not been placed.
LEMMA IsRecord == NoCall \in CallRecord /\ Silence \in [Roles -> Seq(Event)]
<1>1. [r \in Roles |-> 0] \in [Roles -> Nat] OBVIOUS
<1> QED BY <1>1, CallServiceAssumption
  DEF NoCall, CallRecord, States, Roles, Silence, CallServiceAssumption

LEMMA TypeInit == Init => TypeInv
BY CallServiceAssumption, IsRecord DEF CallServiceAssumption, Init, TypeInv, TypeOK, Placed, NoCall

\* A message relayed by one side: everything Relay asks of the call it leaves.
LEMMA RelayTyped ==
  ASSUME TypeInv, NEW c \in CallIds, NEW r \in Roles, NEW n \in Seqs,
         NEW type \in {"offer", "answer", "candidates", "confirm"},
         NEW next \in CallRecord, next.tag = call[c].tag, next.state # "none",
         next.messages = call[c].messages, Relay(c, r, type, n, next)
  PROVE  TypeInv'
<1>1. call[c].messages + 1 \in 0..MaxSignals /\ call[c].state # "none"
  BY CountTyped DEF Relay, TypeInv
<1> DEFINE after == [next EXCEPT !.seq[r] = n, !.messages = @ + 1]
<1>2. n \in Nat BY CallServiceAssumption DEF Seqs, CallServiceAssumption
<1>3. after \in CallRecord /\ after.tag = call[c].tag /\ after.state # "none"
  BY <1>1, <1>2 DEF CallRecord
<1>4. Other(r) \in Roles BY DEF Other, Roles
<1>5. [type |-> type, n |-> n] \in Event BY <1>2 DEF Event
<1>6. told' \in [CallIds -> [Roles -> Seq(Event)]]
  BY <1>4, <1>5, TellTyped DEF Relay, TypeInv
<1>7. call' = [call EXCEPT ![c] = after] /\ UNCHANGED <<store, listener, ringing, seen, accepting, bounds>>
  BY DEF Relay
<1> HIDE DEF after
<1> QED BY <1>1, <1>3, <1>6, <1>7, OneCall DEF TypeInv, TypeOK

LEMMA MessageTyped == ASSUME TypeInv, NEW c \in CallIds, Message(c) PROVE TypeInv'
<1> USE DEF TypeInv
<1>0. call[c] \in CallRecord BY DEF TypeOK
<1>1. ASSUME TooMany(c) PROVE TypeInv'
  <2>1. Ending({c}, "service", 0)
    BY <1>1, <1>0, CallServiceAssumption
    DEF TooMany, EndCall, Ending, Live, CallRecord, CallServiceAssumption
  <2> QED BY <1>1, <2>1, EndStep DEF TooMany, store, bounds, TypeOK
<1>2. ASSUME Refused(c) PROVE TypeInv'
  <2> DEFINE next == [call[c] EXCEPT !.messages = @ + 1]
  <2>1. /\ next \in CallRecord /\ next.state # "none" /\ next.tag = call[c].tag
        /\ call[c].state # "none"
    BY <1>0, <1>2, CountTyped DEF Refused, CallRecord
  <2>2. call' = [call EXCEPT ![c] = next] BY <1>2 DEF Refused
  <2> HIDE DEF next
  <2> QED BY <1>2, <2>1, <2>2, OneCall DEF Refused, TypeOK
<1>3. ASSUME Decline(c) PROVE TypeInv'
  <2>1. Ending({c}, "B", 1)
    BY <1>3, CountTyped DEF Decline, EndCall, Ending, Roles
  <2> QED BY <1>3, <2>1, EndStep DEF Decline, store, bounds, TypeOK
<1>4. ASSUME NEW k \in Devices, AcceptChecks(c, k) PROVE TypeInv'
  <2> DEFINE next == [call[c] EXCEPT !.messages = @ + 1]
  <2>1. /\ next \in CallRecord /\ next.state # "none" /\ next.tag = call[c].tag
        /\ call[c].state # "none"
    BY <1>0, <1>4, CountTyped DEF AcceptChecks, CallRecord
  <2>2. call' = [call EXCEPT ![c] = next] BY <1>4 DEF AcceptChecks
  <2>3. accepting' = accepting \cup {[call |-> c, key |-> k, step |-> "invite"]}
    BY <1>4 DEF AcceptChecks
  <2>4. accepting' \subseteq [call : CallIds, key : Devices, step : {"invite", "transcript"}]
    BY <2>3 DEF TypeOK
  <2>5. \A x \in accepting' : x.call = c \/ \E y \in accepting : x.call = y.call BY <2>3
  <2>6. UNCHANGED <<store, listener, ringing, seen, told, bounds>> BY <1>4 DEF AcceptChecks
  <2>7. /\ told' \in [CallIds -> [Roles -> Seq(Event)]]
        /\ ringing' \in [Tags -> CallIds \cup {None}]
        /\ listener' \in [Owners -> {None} \cup SUBSET Mail]
    BY <2>6 DEF TypeOK
  <2> HIDE DEF next, TypeInv
  <2> QED BY <2>1, <2>2, <2>4, <2>5, <2>6, <2>7, OneCall
<1>5. ASSUME NEW n \in Seqs, Cancel(c, n) PROVE TypeInv'
  <2> DEFINE next == [call[c] EXCEPT !.state = "ENDED", !.by = "A", !.seq["A"] = n, !.messages = @ + 1]
  <2>1. n \in Nat /\ call[c].messages + 1 \in 0..MaxSignals /\ call[c].state # "none"
    BY <1>5, CountTyped, CallServiceAssumption DEF Cancel, Seqs, CallServiceAssumption
  <2>2. next \in CallRecord /\ next.state # "none" /\ next.tag = call[c].tag
    BY <1>0, <2>1 DEF CallRecord, States, Roles
  <2>3. call' = [call EXCEPT ![c] = next] BY <1>5 DEF Cancel
  <2>4. ringing' \in [Tags -> CallIds \cup {None}] BY <1>5 DEF Cancel, Freed, TypeOK
  <2>5. listener' \in [Owners -> {None} \cup SUBSET Mail]
    <3>1. OwnerOf(c) \in Owners
      BY <2>1, CallServiceAssumption DEF OwnerOf, Placed, CallServiceAssumption
    <3>2. listener[OwnerOf(c)] # None =>
            WithoutInvites({c}, listener[OwnerOf(c)]) \cup {[call |-> c, type |-> "cancel"]} \in SUBSET Mail
      BY <3>1 DEF WithoutInvites, Mail, TypeOK
    <3> QED BY <1>5, <3>1, <3>2 DEF Cancel, TypeOK
  <2> HIDE DEF next
  <2> QED BY <1>5, <2>1, <2>2, <2>3, <2>4, <2>5, OneCall DEF Cancel, TypeOK
<1>6. ASSUME NEW n \in Seqs, Offer(c, n) PROVE TypeInv'
  <2> DEFINE next == [call[c] EXCEPT !.state = "NEGOTIATING", !.sdp = @ \cup {"A"}]
  <2>1. next \in CallRecord /\ next.tag = call[c].tag /\ next.state # "none"
        /\ next.messages = call[c].messages
    BY <1>0 DEF CallRecord, States, Roles
  <2>2. Relay(c, "A", "offer", n, next) /\ "A" \in Roles BY <1>6 DEF Offer, Roles
  <2> HIDE DEF next
  <2> QED BY <2>1, <2>2, RelayTyped
<1>7. ASSUME NEW n \in Seqs, Answer(c, n) PROVE TypeInv'
  <2> DEFINE next == [call[c] EXCEPT !.state = "ESTABLISHING", !.sdp = @ \cup {"B"}]
  <2>1. next \in CallRecord /\ next.tag = call[c].tag /\ next.state # "none"
        /\ next.messages = call[c].messages
    BY <1>0 DEF CallRecord, States, Roles
  <2>2. Relay(c, "B", "answer", n, next) /\ "B" \in Roles BY <1>7 DEF Answer, Roles
  <2> HIDE DEF next
  <2> QED BY <2>1, <2>2, RelayTyped
<1>8. ASSUME NEW n \in Seqs, NEW r \in Roles, Candidates(c, r, n) PROVE TypeInv'
  <2>1. call[c].state # "none" /\ Relay(c, r, "candidates", n, call[c]) BY <1>8 DEF Candidates
  <2> QED BY <1>0, <2>1, RelayTyped
<1>9. ASSUME NEW n \in Seqs, NEW r \in Roles, Confirm(c, r, n) PROVE TypeInv'
  <2> DEFINE both == call[c].confirmed \cup {r}
             next == [call[c] EXCEPT !.confirmed = both,
                                     !.state = IF BothConfirmed(both) THEN "ACTIVE" ELSE @]
  <2>1. both \in SUBSET Roles BY <1>0 DEF CallRecord
  <2>2. Relay(c, r, "confirm", n, next) /\ call[c].state = "ESTABLISHING" BY <1>9 DEF Confirm
  <2> HIDE DEF both
  <2>3. next \in CallRecord /\ next.tag = call[c].tag /\ next.state # "none"
        /\ next.messages = call[c].messages
    BY <1>0, <2>1, <2>2 DEF CallRecord, States
  <2> HIDE DEF next
  <2> QED BY <2>2, <2>3, RelayTyped
<1>10. ASSUME NEW n \in Seqs, NEW r \in Roles, HangUp(c, r, n) PROVE TypeInv'
  <2> DEFINE next == [call[c] EXCEPT !.state = "ENDED", !.by = r, !.seq[r] = n, !.messages = @ + 1]
  <2>1. n \in Nat /\ call[c].messages + 1 \in 0..MaxSignals /\ call[c].state # "none"
    BY <1>10, CountTyped, CallServiceAssumption DEF HangUp, Seqs, CallServiceAssumption
  <2>2. next \in CallRecord /\ next.state # "none" /\ next.tag = call[c].tag
    BY <1>0, <2>1 DEF CallRecord, States
  <2>3. call' = [call EXCEPT ![c] = next] BY <1>10 DEF HangUp
  <2>4. Other(r) \in Roles BY DEF Other, Roles
  <2>5. [type |-> "end", n |-> n] \in Event BY <2>1 DEF Event
  <2>6. told' \in [CallIds -> [Roles -> Seq(Event)]] BY <1>10, <2>4, <2>5, TellTyped DEF HangUp
  <2>7. UNCHANGED <<store, listener, ringing, seen, accepting, bounds>> BY <1>10 DEF HangUp
  <2>8. /\ ringing' \in [Tags -> CallIds \cup {None}]
        /\ listener' \in [Owners -> {None} \cup SUBSET Mail]
        /\ accepting' \subseteq [call : CallIds, key : Devices, step : {"invite", "transcript"}]
        /\ \A x \in accepting' : x \in accepting
    BY <2>7 DEF TypeOK
  <2> HIDE DEF next, TypeInv
  <2> QED BY <2>1, <2>2, <2>3, <2>6, <2>7, <2>8, OneCall
<1> QED
  BY <1>1, <1>2, <1>3, <1>4, <1>5, <1>6, <1>7, <1>8, <1>9, <1>10 DEF Message

LEMMA TypeNext == TypeInv /\ [Next]_vars => TypeInv'
<1> SUFFICES ASSUME TypeInv, [Next]_vars PROVE TypeInv' OBVIOUS
<1>1. ASSUME NEW t \in Tags, CreateTag(t) PROVE TypeInv'
  BY <1>1 DEF CreateTag, TypeInv, TypeOK, Placed, life, bounds
<1>2. ASSUME NEW t \in Tags, StoreTag(t) PROVE TypeInv'
  <2>1. tags' \subseteq Tags /\ used' \in [Tags -> Nat] /\ (SaveWorks \/ SaveFails)
    BY <1>2 DEF StoreTag, TypeInv, TypeOK
  <2>2. disk' \in [tags : SUBSET Tags, used : [Tags -> Nat]] /\ faults' \in Nat
    BY <2>1, SaveTyped DEF TypeInv
  <2> QED BY <1>2, <2>1, <2>2 DEF StoreTag, TypeInv, TypeOK, Placed, life
<1>3. ASSUME NEW t \in Tags, TagExpires(t) PROVE TypeInv'
  BY <1>3 DEF TagExpires, TypeInv, TypeOK, Placed, life, bounds
<1>4. ASSUME NEW o \in Owners, NEW D \in SUBSET Tags, RevokeTags(o, D) PROVE TypeInv'
  <2>1. tags' \subseteq Tags /\ revoked' \subseteq Tags /\ used' \in [Tags -> Nat]
    BY <1>4 DEF RevokeTags, TypeInv, TypeOK
  <2>2. disk' \in [tags : SUBSET Tags, used : [Tags -> Nat]] /\ faults' \in Nat
    BY <1>4, <2>1, SaveTyped DEF RevokeTags, TypeInv
  <2>3. Ending(EndedByRevoke(D), "service", 0)
    <3>1. \A c \in EndedByRevoke(D) : c \in CallIds /\ call[c].state # "none"
      BY DEF EndedByRevoke, RingingOn, Live
    <3>2. \A c \in CallIds : call[c].messages + 0 <= MaxSignals
      BY CallServiceAssumption DEF TypeInv, TypeOK, CallRecord, CallServiceAssumption
    <3> QED BY <1>4, <3>1, <3>2 DEF RevokeTags, Ending
  <2> QED BY <1>4, <2>1, <2>2, <2>3, EndStep DEF RevokeTags
<1>5. ASSUME NEW o \in Owners, Listen(o) PROVE TypeInv'
  BY <1>5 DEF Listen, TypeInv, TypeOK, Placed, store, life, bounds
<1>6. ASSUME NEW o \in Owners, TakeEvent(o) PROVE TypeInv'
  BY <1>6 DEF TakeEvent, TypeInv, TypeOK, Placed, store, life, bounds
<1>7. ASSUME NEW o \in Owners, StopListening(o) PROVE TypeInv'
  BY <1>7 DEF StopListening, TypeInv, TypeOK, Placed, store, life, bounds
<1>8. ASSUME NEW c \in CallIds, NEW t \in Tags, Invite(c, t) PROVE TypeInv'
  <2>1. tags' \subseteq Tags /\ used' \in [Tags -> Nat]
    BY <1>8 DEF Invite, TypeInv, TypeOK
  <2>2. disk' \in [tags : SUBSET Tags, used : [Tags -> Nat]] /\ faults' \in Nat
    BY <1>8, <2>1, SaveTyped DEF Invite, TypeInv
  <2>3. [NoCall EXCEPT !.state = "RINGING", !.tag = t] \in CallRecord
    BY CallServiceAssumption, IsRecord DEF CallRecord, States
  <2>4. listener' \in [Owners -> {None} \cup SUBSET Mail]
    <3>1. [call |-> c, type |-> "invite"] \in Mail BY DEF Mail
    <3>2. TagOwner[t] \in Owners BY CallServiceAssumption DEF CallServiceAssumption
    <3>3. listener' = Hears(TagOwner[t], {[call |-> c, type |-> "invite"]})
          /\ listener[TagOwner[t]] # None
      BY <1>8 DEF Invite
    <3> QED BY <3>1, <3>2, <3>3 DEF Hears, TypeInv, TypeOK
  <2>5. [NoCall EXCEPT !.state = "RINGING", !.tag = t].tag = t BY DEF NoCall
  <2>6. [NoCall EXCEPT !.state = "RINGING", !.tag = t].state # "none" BY DEF NoCall
  <2>7. TypeOK' BY <1>8, <2>1, <2>2, <2>3, <2>4 DEF Invite, TypeInv, TypeOK
  <2>8. Placed' BY <1>8, <2>5, <2>6 DEF Invite, TypeInv, TypeOK, Placed
  <2> QED BY <2>7, <2>8 DEF TypeInv
<1>9. ASSUME NEW c \in CallIds, Message(c) PROVE TypeInv'
  BY <1>9, MessageTyped
<1>10. ASSUME NEW c \in CallIds, TimeOut(c) PROVE TypeInv'
  <2>1. call[c].messages + 0 <= MaxSignals
    BY CallServiceAssumption DEF TypeInv, TypeOK, CallRecord, CallServiceAssumption
  <2>2. Ending({c}, "service", 0) BY <1>10, <2>1 DEF TimeOut, EndCall, Ending, Live
  <2> QED BY <1>10, <2>2, EndStep DEF TimeOut, store, bounds, TypeInv, TypeOK
<1>11. ASSUME NEW c \in CallIds, Forget(c) PROVE TypeInv'
  <2>1. NoCall \in CallRecord BY IsRecord
  <2>2. Silence \in [Roles -> Seq(Event)] BY IsRecord
  <2>3. TypeOK' BY <1>11, <2>1, <2>2 DEF Forget, TypeInv, TypeOK, store, bounds
  <2>4. Placed' BY <1>11 DEF Forget, TypeInv, TypeOK, Placed, NoCall
  <2> QED BY <2>3, <2>4 DEF TypeInv
<1>12. ASSUME NEW x \in accepting, AcceptStoresKey(x) PROVE TypeInv'
  <2>1. x \in [call : CallIds, key : Devices, step : {"invite", "transcript"}]
        /\ call[x.call].state # "none"
    BY DEF TypeInv, TypeOK, Placed
  <2> DEFINE next == [call[x.call] EXCEPT !.keyB = x.key]
             y == [x EXCEPT !.step = "transcript"]
  <2>2. call[x.call] \in CallRecord BY <2>1 DEF TypeInv, TypeOK
  <2>3. next \in CallRecord /\ next.state # "none" /\ next.tag = call[x.call].tag
    BY <2>1, <2>2 DEF CallRecord
  <2>4. call' = [call EXCEPT ![x.call] = next] /\ accepting' = (accepting \ {x}) \cup {y}
    BY <1>12 DEF AcceptStoresKey
  <2>5. y \in [call : CallIds, key : Devices, step : {"invite", "transcript"}] /\ y.call = x.call
    BY <2>1
  <2> HIDE DEF next, y
  <2>6. accepting' \subseteq [call : CallIds, key : Devices, step : {"invite", "transcript"}]
    BY <2>4, <2>5 DEF TypeInv, TypeOK
  <2>7. \A z \in accepting' : z.call = x.call \/ \E w \in accepting : z.call = w.call
    BY <2>4, <2>5
  <2> QED BY <1>12, <2>1, <2>3, <2>4, <2>6, <2>7, OneCall DEF AcceptStoresKey, TypeInv, TypeOK
<1>13. ASSUME NEW x \in accepting, AcceptCompletes(x) PROVE TypeInv'
  <2>1. x \in [call : CallIds, key : Devices, step : {"invite", "transcript"}]
        /\ call[x.call].state # "none"
    BY DEF TypeInv, TypeOK, Placed
  <2> DEFINE next == [call[x.call] EXCEPT !.accepted = TRUE, !.th = x.key, !.state = "ACCEPTED"]
  <2>2. call[x.call] \in CallRecord BY <2>1 DEF TypeInv, TypeOK
  <2>3. next \in CallRecord /\ next.state # "none" /\ next.tag = call[x.call].tag
    BY <2>1, <2>2 DEF CallRecord, States
  <2>4. call' = [call EXCEPT ![x.call] = next] /\ accepting' = accepting \ {x}
    BY <1>13 DEF AcceptCompletes
  <2>5. told' \in [CallIds -> [Roles -> Seq(Event)]]
    <3>1. [type |-> "accept", n |-> 0] \in Event /\ "A" \in Roles BY DEF Event, Roles
    <3> QED BY <1>13, <2>1, <3>1, TellTyped DEF AcceptCompletes, TypeInv
  <2>6. ringing' \in [Tags -> CallIds \cup {None}]
    BY <1>13 DEF AcceptCompletes, Freed, TypeInv, TypeOK
  <2>7. listener' \in [Owners -> {None} \cup SUBSET Mail]
    BY <1>13 DEF AcceptCompletes, WithoutInvites, TypeInv, TypeOK
  <2> HIDE DEF next
  <2> QED BY <1>13, <2>1, <2>3, <2>4, <2>5, <2>6, <2>7, OneCall DEF AcceptCompletes, TypeInv, TypeOK
<1>14. ASSUME Restart PROVE TypeInv'
  <2>1. NoCall \in CallRecord BY IsRecord
  <2>2. Silence \in [Roles -> Seq(Event)] BY IsRecord
  <2> QED BY <1>14, <2>1, <2>2 DEF Restart, TypeInv, TypeOK, Placed, NoCall
<1>15. ASSUME UNCHANGED vars PROVE TypeInv'
  BY <1>15 DEF vars, store, life, bounds, TypeInv, TypeOK, Placed
<1> QED
  BY <1>1, <1>2, <1>3, <1>4, <1>5, <1>6, <1>7, <1>8, <1>9, <1>10, <1>11, <1>12, <1>13, <1>14, <1>15
  DEF Next, Sweep

\* Every variable of the call service stays in its type, and no call is sent
\* more messages than its limit.
THEOREM TypeCorrect == Spec => []TypeOK
<1>1. TypeInv => TypeOK BY DEF TypeInv
<1> QED BY TypeInit, TypeNext, <1>1, PTL DEF Spec

-----------------------------------------------------------------------------
(* Ringing.  The engaged mark and the state of the call say the same, the   *)
(* invites in a mailbox are of calls that ring for its wallet, and a tag   *)
(* that was revoked can neither be stored again nor ring.                  *)

InvitesForOwner ==
  \A o \in Owners : listener[o] # None =>
    \A e \in listener[o] : e.type = "invite" => OwnerOf(e.call) = o

RevokedIsGone ==
  tags \cap revoked = {} /\ creating \cap (tags \cup revoked) = {}

RingInv ==
  /\ TypeInv /\ RingIsUnique /\ InvitesForOwner /\ NoStaleInvite
  /\ RevokedIsGone /\ RevokedIsSilent

\* A step in which calls may stop ringing and none starts to.
StopsRinging ==
  /\ \A c \in CallIds : call'[c].state = "RINGING" =>
       call[c].state = "RINGING" /\ call'[c].tag = call[c].tag
  /\ \A t \in Tags, c \in CallIds :
       ringing'[t] = c <=> ringing[t] = c /\ call'[c].state = "RINGING"
  /\ \A o \in Owners : listener'[o] # None =>
       \A e \in listener'[o] : e.type = "invite" =>
         listener[o] # None /\ e \in listener[o] /\ call'[e.call].state = "RINGING"

LEMMA RingStep ==
  ASSUME RingInv, TypeInv', StopsRinging, RevokedIsGone',
         \A t \in revoked' : t \in revoked \/ ringing'[t] = None
  PROVE  RingInv'
<1>1. RingIsUnique' BY DEF RingInv, RingIsUnique, StopsRinging
<1>2. \A o \in Owners : listener'[o] # None => \A e \in listener'[o] : e.call \in CallIds
  BY DEF TypeInv, TypeOK, Mail
<1>3. InvitesForOwner' /\ NoStaleInvite'
  BY <1>2 DEF RingInv, InvitesForOwner, NoStaleInvite, StopsRinging, OwnerOf
<1>4. RevokedIsSilent'
  <2> SUFFICES ASSUME NEW c \in CallIds, call'[c].state = "RINGING", call'[c].tag \in revoked'
               PROVE  FALSE
    BY DEF RevokedIsSilent
  <2>1. call[c].state = "RINGING" /\ call'[c].tag = call[c].tag BY DEF StopsRinging
  <2>2. call'[c].tag \notin revoked BY <2>1 DEF RingInv, RevokedIsSilent
  <2>3. ringing'[call'[c].tag] = None BY <2>2
  <2>4. call'[c].tag \in Tags BY DEF TypeInv, TypeOK
  <2>5. ringing'[call'[c].tag] = c BY <1>1, <2>4 DEF RingIsUnique
  <2> QED BY <2>3, <2>5, CallServiceAssumption DEF CallServiceAssumption
<1> QED BY <1>1, <1>3, <1>4 DEF RingInv

\* A step that leaves marks and mailboxes alone and changes no ringing call.
LEMMA SameRings ==
  ASSUME RingInv, UNCHANGED <<ringing, listener>>, TypeInv',
         \A c \in CallIds : /\ call'[c].state = "RINGING" <=> call[c].state = "RINGING"
                            /\ call[c].state = "RINGING" => call'[c].tag = call[c].tag
  PROVE  StopsRinging
<1>1. \A o \in Owners : listener[o] # None => \A e \in listener[o] : e.call \in CallIds
  BY DEF RingInv, TypeInv, TypeOK, Mail
<1> QED BY <1>1 DEF RingInv, RingIsUnique, NoStaleInvite, StopsRinging

LEMMA EndStops ==
  ASSUME RingInv, TypeInv', NEW C, NEW by, NEW counts, Ending(C, by, counts)
  PROVE  StopsRinging /\ \A t \in Tags : ringing[t] \in C => ringing'[t] = None
<1>1. TypeInv BY DEF RingInv
<1>2. OnlyEnds(C) BY <1>1, EndChanges
<1>3. \A c \in CallIds : /\ call'[c].tag = call[c].tag
                         /\ call'[c].state = "RINGING" <=> call[c].state = "RINGING" /\ c \notin C
  BY <1>2 DEF OnlyEnds
<1>4. \A t \in Tags : ringing'[t] = IF ringing[t] \in C THEN None ELSE ringing[t]
  BY DEF Ending, EndCalls, Freed
<1>5. \A t \in Tags, c \in CallIds :
        ringing'[t] = c <=> ringing[t] = c /\ call'[c].state = "RINGING"
  BY <1>3, <1>4, CallServiceAssumption DEF RingInv, RingIsUnique, CallServiceAssumption
<1>6. ASSUME NEW o \in Owners, listener'[o] # None, NEW e \in listener'[o], e.type = "invite"
      PROVE  listener[o] # None /\ e \in listener[o] /\ call'[e.call].state = "RINGING"
  <2>1. listener[o] # None BY <1>6 DEF Ending, EndCalls
  <2>2. listener'[o] = WithoutInvites(C, listener[o]) \cup
               {[call |-> c, type |-> "ended"] :
                  c \in {d \in C : by # "B" /\ ~ call[d].accepted /\ OwnerOf(d) = o}}
    BY <2>1 DEF Ending, EndCalls
  <2>3. e \in WithoutInvites(C, listener[o]) BY <1>6, <2>2
  <2>4. e \in listener[o] /\ e.call \notin C BY <1>6, <2>1, <2>3 DEF WithoutInvites
  <2>5. e.call \in CallIds BY <1>1, <2>1, <2>4 DEF TypeInv, TypeOK, Mail
  <2>6. call[e.call].state = "RINGING" BY <1>6, <2>1, <2>4 DEF RingInv, NoStaleInvite
  <2> QED BY <1>3, <2>1, <2>4, <2>5, <2>6
<1>7. StopsRinging BY <1>3, <1>5, <1>6 DEF StopsRinging
<1> QED BY <1>4, <1>7

\* One call stops ringing by a message of one of its sides.
LEMMA OneStops ==
  ASSUME RingInv, TypeInv', NEW c \in CallIds, call[c].state # "none",
         NEW next, call' = [call EXCEPT ![c] = next],
         next.state # "RINGING", ringing' = Freed({c}),
         NEW more, \A e \in more : e.type # "invite",
         listener' = [listener EXCEPT ![OwnerOf(c)] =
                        IF @ = None THEN None ELSE WithoutInvites({c}, @) \cup more]
  PROVE  StopsRinging
<1>1. TypeInv BY DEF RingInv
<1>2. \A d \in CallIds : call'[d] = IF d = c THEN next ELSE call[d] BY <1>1 DEF TypeInv, TypeOK
<1>3. \A t \in Tags : ringing'[t] = IF ringing[t] = c THEN None ELSE ringing[t] BY DEF Freed
<1>4. \A t \in Tags, d \in CallIds :
        ringing'[t] = d <=> ringing[t] = d /\ call'[d].state = "RINGING"
  <2> SUFFICES ASSUME NEW t \in Tags, NEW d \in CallIds
               PROVE  ringing'[t] = d <=> ringing[t] = d /\ call'[d].state = "RINGING"
    OBVIOUS
  <2>1. d # None BY CallServiceAssumption DEF CallServiceAssumption
  <2>2. ringing[t] = d => call[d].state = "RINGING" BY DEF RingInv, RingIsUnique
  <2>3. CASE d = c BY <1>2, <1>3, <2>1, <2>3
  <2>4. CASE d # c BY <1>2, <1>3, <2>1, <2>2, <2>4
  <2> QED BY <2>3, <2>4
<1>5. ASSUME NEW o \in Owners, listener'[o] # None, NEW e \in listener'[o], e.type = "invite"
      PROVE  listener[o] # None /\ e \in listener[o] /\ call'[e.call].state = "RINGING"
  <2>1. listener'[o] = IF o # OwnerOf(c) THEN listener[o]
                       ELSE IF listener[o] = None THEN None
                       ELSE WithoutInvites({c}, listener[o]) \cup more
    BY <1>1 DEF TypeInv, TypeOK
  <2>2. listener[o] # None /\ e \in listener[o] /\ (o = OwnerOf(c) => e.call # c)
    BY <1>5, <2>1 DEF WithoutInvites
  <2>3. e.call \in CallIds BY <1>1, <2>2 DEF TypeInv, TypeOK, Mail
  <2>4. OwnerOf(e.call) = o /\ call[e.call].state = "RINGING"
    BY <1>5, <2>2 DEF RingInv, InvitesForOwner, NoStaleInvite
  <2> QED BY <1>2, <2>2, <2>3, <2>4
<1> QED BY <1>2, <1>4, <1>5 DEF StopsRinging

LEMMA RingInit == Init => RingInv
<1> SUFFICES ASSUME Init PROVE RingInv OBVIOUS
<1>1. TypeInv BY TypeInit
<1>2. RingIsUnique /\ RevokedIsSilent
  BY CallServiceAssumption DEF Init, RingIsUnique, RevokedIsSilent, NoCall, CallServiceAssumption
<1>3. InvitesForOwner /\ NoStaleInvite /\ RevokedIsGone
  BY DEF Init, InvitesForOwner, NoStaleInvite, RevokedIsGone
<1> QED BY <1>1, <1>2, <1>3 DEF RingInv

LEMMA RingMessage == ASSUME RingInv, TypeInv', NEW c \in CallIds, Message(c) PROVE RingInv'
<1>0. TypeInv /\ call[c] \in CallRecord BY DEF RingInv, TypeInv, TypeOK
<1>a. RevokedIsGone' /\ revoked' = revoked
  <2>1. ASSUME TooMany(c) \/ Refused(c) \/ Decline(c) \/ \E k \in Devices : AcceptChecks(c, k)
        PROVE  UNCHANGED store
    BY <2>1 DEF TooMany, Refused, Decline, AcceptChecks
  <2>2. ASSUME NEW n \in Seqs, Cancel(c, n) \/ Offer(c, n) \/ Answer(c, n) PROVE UNCHANGED store
    BY <2>2 DEF Cancel, Offer, Answer, Relay
  <2>3. ASSUME NEW n \in Seqs, NEW r \in Roles, Candidates(c, r, n) \/ Confirm(c, r, n) \/ HangUp(c, r, n)
        PROVE  UNCHANGED store
    BY <2>3 DEF Candidates, Confirm, HangUp, Relay
  <2>4. UNCHANGED store BY <2>1, <2>2, <2>3 DEF Message
  <2> QED BY <2>4 DEF store, RingInv, RevokedIsGone
<1>1. ASSUME TooMany(c) PROVE StopsRinging
  <2>1. Ending({c}, "service", 0)
    BY <1>1, <1>0, CallServiceAssumption
    DEF TooMany, EndCall, Ending, Live, CallRecord, CallServiceAssumption
  <2> QED BY <2>1, EndStops
<1>2. ASSUME Refused(c) PROVE StopsRinging
  BY <1>0, <1>2, SameRings DEF Refused, TypeInv, TypeOK
<1>3. ASSUME Decline(c) PROVE StopsRinging
  <2>1. Ending({c}, "B", 1)
    BY <1>0, <1>3, CountTyped DEF TypeInv, Decline, EndCall, Ending, Roles
  <2> QED BY <2>1, EndStops
<1>4. ASSUME NEW k \in Devices, AcceptChecks(c, k) PROVE StopsRinging
  BY <1>0, <1>4, SameRings DEF AcceptChecks, TypeInv, TypeOK
<1>5. ASSUME NEW n \in Seqs, Cancel(c, n) PROVE StopsRinging
  <2> DEFINE next == [call[c] EXCEPT !.state = "ENDED", !.by = "A", !.seq["A"] = n, !.messages = @ + 1]
             more == {[call |-> c, type |-> "cancel"]}
  <2>1. call' = [call EXCEPT ![c] = next] /\ next.state # "RINGING"
    BY <1>0, <1>5 DEF Cancel, CallRecord
  <2>2. /\ ringing' = Freed({c}) /\ call[c].state # "none"
        /\ listener' = [listener EXCEPT ![OwnerOf(c)] =
                          IF @ = None THEN None ELSE WithoutInvites({c}, @) \cup more]
    BY <1>5 DEF Cancel
  <2>3. \A e \in more : e.type # "invite" OBVIOUS
  <2> HIDE DEF next, more
  <2> QED BY <2>1, <2>2, <2>3, OneStops
<1>6. ASSUME NEW r \in Roles, NEW type, NEW n, NEW next, Relay(c, r, type, n, next),
             next.state # "RINGING", call[c].state # "RINGING", next \in CallRecord
      PROVE  StopsRinging
  <2> DEFINE after == [next EXCEPT !.seq[r] = n, !.messages = @ + 1]
  <2>1. call' = [call EXCEPT ![c] = after] BY <1>6 DEF Relay
  <2>2. after.state # "RINGING" BY <1>6 DEF CallRecord
  <2> HIDE DEF after
  <2>3. call'[c].state # "RINGING" /\ \A d \in CallIds : d # c => call'[d] = call[d]
    BY <1>0, <2>1, <2>2 DEF TypeInv, TypeOK
  <2>4. UNCHANGED <<ringing, listener>> BY <1>6 DEF Relay
  <2> QED BY <1>6, <2>3, <2>4, SameRings
<1>7. ASSUME NEW n \in Seqs, Offer(c, n) PROVE StopsRinging
  <2> DEFINE next == [call[c] EXCEPT !.state = "NEGOTIATING", !.sdp = @ \cup {"A"}]
  <2>1. Relay(c, "A", "offer", n, next) /\ call[c].state # "RINGING" /\ "A" \in Roles
    BY <1>7 DEF Offer, Roles
  <2>2. next \in CallRecord /\ next.state # "RINGING" BY <1>0 DEF CallRecord, States, Roles
  <2> HIDE DEF next
  <2> QED BY <1>6, <2>1, <2>2
<1>8. ASSUME NEW n \in Seqs, Answer(c, n) PROVE StopsRinging
  <2> DEFINE next == [call[c] EXCEPT !.state = "ESTABLISHING", !.sdp = @ \cup {"B"}]
  <2>1. Relay(c, "B", "answer", n, next) /\ call[c].state # "RINGING" /\ "B" \in Roles
    BY <1>8 DEF Answer, Roles
  <2>2. next \in CallRecord /\ next.state # "RINGING" BY <1>0 DEF CallRecord, States, Roles
  <2> HIDE DEF next
  <2> QED BY <1>6, <2>1, <2>2
<1>9. ASSUME NEW n \in Seqs, NEW r \in Roles, Candidates(c, r, n) PROVE StopsRinging
  <2>1. call[c].state # "RINGING" /\ Relay(c, r, "candidates", n, call[c])
    BY <1>9 DEF Candidates
  <2> QED BY <1>0, <1>6, <2>1
<1>10. ASSUME NEW n \in Seqs, NEW r \in Roles, Confirm(c, r, n) PROVE StopsRinging
  <2> DEFINE both == call[c].confirmed \cup {r}
             next == [call[c] EXCEPT !.confirmed = both,
                                     !.state = IF BothConfirmed(both) THEN "ACTIVE" ELSE @]
  <2>1. both \in SUBSET Roles BY <1>0 DEF CallRecord
  <2>2. Relay(c, r, "confirm", n, next) /\ call[c].state = "ESTABLISHING" BY <1>10 DEF Confirm
  <2> HIDE DEF both
  <2>3. next \in CallRecord /\ next.state # "RINGING" BY <1>0, <2>1, <2>2 DEF CallRecord, States
  <2> HIDE DEF next
  <2> QED BY <1>6, <2>2, <2>3
<1>11. ASSUME NEW n \in Seqs, NEW r \in Roles, HangUp(c, r, n) PROVE StopsRinging
  <2>1. call'[c].state # "RINGING" /\ \A d \in CallIds : d # c => call'[d] = call[d]
    BY <1>0, <1>11 DEF HangUp, CallRecord, TypeInv, TypeOK
  <2>2. call[c].state # "RINGING" /\ UNCHANGED <<ringing, listener>> BY <1>11 DEF HangUp
  <2> QED BY <2>1, <2>2, SameRings
<1>b. StopsRinging
  BY <1>1, <1>2, <1>3, <1>4, <1>5, <1>7, <1>8, <1>9, <1>10, <1>11 DEF Message
<1> QED BY <1>a, <1>b, RingStep

LEMMA RingNext == RingInv /\ [Next]_vars => RingInv'
<1> SUFFICES ASSUME RingInv, [Next]_vars PROVE RingInv' OBVIOUS
<1>0. TypeInv /\ TypeInv' BY TypeNext DEF RingInv
<1>a. ASSUME UNCHANGED <<ringing, listener, call>>, RevokedIsGone', revoked' = revoked PROVE RingInv'
  <2>1. StopsRinging BY <1>0, <1>a, SameRings
  <2> QED BY <1>0, <1>a, <2>1, RingStep
<1>1. ASSUME NEW t \in Tags, CreateTag(t) \/ StoreTag(t) \/ TagExpires(t) PROVE RingInv'
  <2>1. UNCHANGED <<ringing, listener, call>> /\ revoked' = revoked
    BY <1>1 DEF CreateTag, StoreTag, TagExpires, life
  <2>2. RevokedIsGone' BY <1>1 DEF CreateTag, StoreTag, TagExpires, RingInv, RevokedIsGone
  <2> QED BY <1>a, <2>1, <2>2
<1>2. ASSUME NEW o \in Owners, NEW D \in SUBSET Tags, RevokeTags(o, D) PROVE RingInv'
  <2>1. D \subseteq tags /\ tags' = tags \ D /\ revoked' = revoked \cup D /\ creating' = creating
    BY <1>2 DEF RevokeTags, TagsOf
  <2>2. Ending(EndedByRevoke(D), "service", 0)
    <3>1. \A c \in EndedByRevoke(D) : c \in CallIds /\ call[c].state # "none"
      BY DEF EndedByRevoke, RingingOn, Live
    <3>2. \A c \in CallIds : call[c].messages + 0 <= MaxSignals
      BY <1>0, CallServiceAssumption DEF TypeInv, TypeOK, CallRecord, CallServiceAssumption
    <3> QED BY <1>2, <3>1, <3>2 DEF RevokeTags, Ending
  <2>3. StopsRinging /\ \A t \in Tags : ringing[t] \in EndedByRevoke(D) => ringing'[t] = None
    BY <1>0, <2>2, EndStops
  <2>4. ASSUME NEW t \in D PROVE ringing'[t] = None
    <3>1. ringing[t] \in CallIds \cup {None} BY <1>0 DEF TypeInv, TypeOK
    <3>2. CASE ringing[t] \in CallIds
      <4>1. Live(ringing[t]) BY <3>2 DEF RingInv, RingIsUnique, Live
      <4> QED BY <2>3, <3>2, <4>1 DEF EndedByRevoke, RingingOn
    <3>3. CASE ringing[t] = None
      <4>1. ringing'[t] \in CallIds \cup {None} BY <1>0 DEF TypeInv, TypeOK
      <4> QED BY <2>3, <3>3, <4>1 DEF StopsRinging
    <3> QED BY <3>1, <3>2, <3>3
  <2>5. RevokedIsGone' BY <2>1 DEF RingInv, RevokedIsGone
  <2>6. \A t \in revoked' : t \in revoked \/ ringing'[t] = None BY <2>1, <2>4
  <2> QED BY <1>0, <2>3, <2>5, <2>6, RingStep
<1>3. ASSUME NEW o \in Owners, Listen(o) \/ TakeEvent(o) \/ StopListening(o) PROVE RingInv'
  <2>1. UNCHANGED <<ringing, call, store>>
    BY <1>3 DEF Listen, TakeEvent, StopListening, life
  <2>2. \A p \in Owners : listener'[p] # None =>
          \A e \in listener'[p] : listener[p] # None /\ e \in listener[p]
    BY <1>0, <1>3 DEF Listen, TakeEvent, StopListening, TypeInv, TypeOK
  <2>3. \A c \in CallIds, t \in Tags : ringing[t] = c => call[c].state = "RINGING"
    BY DEF RingInv, RingIsUnique
  <2>4. StopsRinging BY <2>1, <2>2, <2>3 DEF StopsRinging, RingInv, NoStaleInvite
  <2>5. RevokedIsGone' /\ revoked' = revoked BY <2>1 DEF store, RingInv, RevokedIsGone
  <2> QED BY <1>0, <2>4, <2>5, RingStep
<1>4. ASSUME NEW c \in CallIds, NEW t \in Tags, Invite(c, t) PROVE RingInv'
  <2> DEFINE new == [NoCall EXCEPT !.state = "RINGING", !.tag = t]
  <2>1. new.state = "RINGING" /\ new.tag = t BY DEF NoCall
  <2>2. /\ t \in tags /\ call[c] = NoCall /\ ringing[t] = None /\ listener[TagOwner[t]] # None
        /\ call' = [call EXCEPT ![c] = new] /\ ringing' = [ringing EXCEPT ![t] = c]
        /\ listener' = Hears(TagOwner[t], {[call |-> c, type |-> "invite"]})
        /\ UNCHANGED <<tags, revoked, creating>>
    BY <1>4 DEF Invite, NotRinging
  <2> HIDE DEF new
  <2>3. \A d \in CallIds : call'[d] = IF d = c THEN new ELSE call[d]
    BY <1>0, <2>2 DEF TypeInv, TypeOK
  <2>4. \A s \in Tags : ringing'[s] = IF s = t THEN c ELSE ringing[s]
    BY <1>0, <2>2 DEF TypeInv, TypeOK
  <2>5. call[c].state = "none" BY <2>2 DEF NoCall
  <2>6. RingIsUnique'
    BY <2>1, <2>2, <2>3, <2>4, <2>5, CallServiceAssumption
    DEF RingInv, RingIsUnique, CallServiceAssumption
  <2>7. ASSUME NEW o \in Owners, listener'[o] # None, NEW e \in listener'[o], e.type = "invite"
        PROVE  OwnerOf(e.call)' = o /\ call'[e.call].state = "RINGING"
    <3>1. listener'[o] = IF o = TagOwner[t] THEN listener[o] \cup {[call |-> c, type |-> "invite"]}
                         ELSE listener[o]
      BY <1>0, <2>2 DEF Hears, TypeInv, TypeOK
    <3>2. CASE e = [call |-> c, type |-> "invite"] /\ o = TagOwner[t]
      BY <2>1, <2>3, <3>2 DEF OwnerOf
    <3>3. CASE listener[o] # None /\ e \in listener[o]
      <4>1. e.call \in CallIds /\ OwnerOf(e.call) = o /\ call[e.call].state = "RINGING"
        BY <1>0, <2>7, <3>3 DEF RingInv, InvitesForOwner, NoStaleInvite, TypeInv, TypeOK, Mail
      <4> QED BY <2>3, <2>5, <4>1 DEF OwnerOf
    <3> QED BY <2>2, <2>7, <3>1, <3>2, <3>3
  <2>8. InvitesForOwner' /\ NoStaleInvite' BY <2>7 DEF InvitesForOwner, NoStaleInvite
  <2>9. RevokedIsGone' /\ t \notin revoked' BY <2>2 DEF RingInv, RevokedIsGone
  <2>10. RevokedIsSilent' BY <2>1, <2>2, <2>3, <2>9 DEF RingInv, RevokedIsSilent
  <2> QED BY <1>0, <2>6, <2>8, <2>9, <2>10 DEF RingInv
<1>5. ASSUME NEW c \in CallIds, Message(c) PROVE RingInv' BY <1>0, <1>5, RingMessage
<1>6. ASSUME NEW c \in CallIds, TimeOut(c) PROVE RingInv'
  <2>1. call[c].messages + 0 <= MaxSignals
    BY <1>0, CallServiceAssumption DEF TypeInv, TypeOK, CallRecord, CallServiceAssumption
  <2>2. Ending({c}, "service", 0) BY <1>6, <2>1 DEF TimeOut, EndCall, Ending, Live
  <2>3. StopsRinging BY <1>0, <2>2, EndStops
  <2>4. RevokedIsGone' /\ revoked' = revoked BY <1>6 DEF TimeOut, store, RingInv, RevokedIsGone
  <2> QED BY <1>0, <2>3, <2>4, RingStep
<1>7. ASSUME NEW c \in CallIds, Forget(c) PROVE RingInv'
  <2>1. /\ call'[c].state # "RINGING" /\ call[c].state # "RINGING"
        /\ \A d \in CallIds : d # c => call'[d] = call[d]
    BY <1>0, <1>7 DEF Forget, NoCall, TypeInv, TypeOK
  <2>2. UNCHANGED <<ringing, listener, store>> BY <1>7 DEF Forget
  <2>3. StopsRinging BY <1>0, <2>1, <2>2, SameRings
  <2>4. RevokedIsGone' /\ revoked' = revoked BY <2>2 DEF store, RingInv, RevokedIsGone
  <2> QED BY <1>0, <2>3, <2>4, RingStep
<1>8. ASSUME NEW x \in accepting, AcceptStoresKey(x) PROVE RingInv'
  <2>1. x.call \in CallIds /\ call[x.call] \in CallRecord BY <1>0 DEF TypeInv, TypeOK
  <2>2. /\ call'[x.call].state = call[x.call].state /\ call'[x.call].tag = call[x.call].tag
        /\ \A d \in CallIds : d # x.call => call'[d] = call[d]
    BY <1>0, <1>8, <2>1 DEF AcceptStoresKey, TypeInv, TypeOK, CallRecord
  <2>3. UNCHANGED <<ringing, listener, store>> BY <1>8 DEF AcceptStoresKey
  <2>4. StopsRinging BY <1>0, <2>2, <2>3, SameRings
  <2>5. RevokedIsGone' /\ revoked' = revoked BY <2>3 DEF store, RingInv, RevokedIsGone
  <2> QED BY <1>0, <2>4, <2>5, RingStep
<1>9. ASSUME NEW x \in accepting, AcceptCompletes(x) PROVE RingInv'
  <2>1. x.call \in CallIds /\ call[x.call].state # "none" /\ call[x.call] \in CallRecord
    BY <1>0 DEF TypeInv, TypeOK, Placed
  <2> DEFINE c == x.call
             next == [call[c] EXCEPT !.accepted = TRUE, !.th = x.key, !.state = "ACCEPTED"]
  <2>2. call' = [call EXCEPT ![c] = next] /\ ringing' = Freed({c}) /\ UNCHANGED store
    BY <1>9 DEF AcceptCompletes
  <2>3. next.state # "RINGING" BY <2>1 DEF CallRecord
  <2>4. listener' = [listener EXCEPT ![OwnerOf(c)] =
                       IF @ = None THEN None ELSE WithoutInvites({c}, @) \cup {}]
    BY <1>9 DEF AcceptCompletes, WithoutInvites
  <2> DEFINE more == {}
  <2>a. c \in CallIds /\ call[c].state # "none" BY <2>1
  <2>b. \A e \in more : e.type # "invite" OBVIOUS
  <2>c. listener' = [listener EXCEPT ![OwnerOf(c)] =
                       IF @ = None THEN None ELSE WithoutInvites({c}, @) \cup more]
    BY <2>4
  <2> HIDE DEF next, more, c
  <2>5. StopsRinging BY <1>0, <2>a, <2>b, <2>c, <2>2, <2>3, OneStops
  <2>6. RevokedIsGone' /\ revoked' = revoked BY <2>2 DEF store, RingInv, RevokedIsGone
  <2> QED BY <1>0, <2>5, <2>6, RingStep
<1>10. ASSUME Restart PROVE RingInv'
  <2>1. \A c \in CallIds : call'[c].state = "none" BY <1>10 DEF Restart, NoCall
  <2>2. \A t \in Tags : ringing'[t] = None BY <1>10 DEF Restart
  <2>3. \A o \in Owners : listener'[o] = None BY <1>10 DEF Restart
  <2>4. RevokedIsGone' BY <1>10 DEF Restart, RevokedIsGone
  <2>5. RingIsUnique' BY <2>1, <2>2, CallServiceAssumption DEF RingIsUnique, CallServiceAssumption
  <2>6. InvitesForOwner' /\ NoStaleInvite' /\ RevokedIsSilent'
    BY <2>1, <2>3 DEF InvitesForOwner, NoStaleInvite, RevokedIsSilent
  <2> QED BY <1>0, <2>4, <2>5, <2>6 DEF RingInv
<1>11. ASSUME UNCHANGED vars PROVE RingInv'
  <2>1. RevokedIsGone' BY <1>11 DEF vars, store, RingInv, RevokedIsGone
  <2> QED BY <1>a, <1>11, <2>1 DEF vars, life, store
<1> QED
  BY <1>1, <1>2, <1>3, <1>4, <1>5, <1>6, <1>7, <1>8, <1>9, <1>10, <1>11 DEF Next, Sweep

LEMMA RingAlways == Spec => []RingInv
BY RingInit, RingNext, PTL DEF Spec

\* A tag is engaged exactly while one call rings through it, whatever end,
\* accept, cancel, sweep or restart comes in between.
THEOREM EngagedWhileRinging == Spec => []RingIsUnique
<1>1. RingInv => RingIsUnique BY DEF RingInv
<1> QED BY RingAlways, <1>1, PTL

\* A listening wallet is never offered a call that has stopped ringing.
THEOREM InvitesRing == Spec => []NoStaleInvite
<1>1. RingInv => NoStaleInvite BY DEF RingInv
<1> QED BY RingAlways, <1>1, PTL

\* Once a tag has been revoked nothing rings through it, also when the tag
\* file could not be written.
THEOREM RevokeSilences == Spec => []RevokedIsSilent
<1>1. RingInv => RevokedIsSilent BY DEF RingInv
<1> QED BY RingAlways, <1>1, PTL

-----------------------------------------------------------------------------
(* Stages.  An accept that was hashing may put a call back to ACCEPTED, so  *)
(* what a call has been through is kept per stage, and not as a history.   *)

Stage(k) ==
  /\ k.state \in {"ACCEPTED", "NEGOTIATING", "ESTABLISHING", "ACTIVE"} => k.accepted
  /\ k.state = "NEGOTIATING" => "A" \in k.sdp
  /\ k.state \in {"ESTABLISHING", "ACTIVE"} => k.sdp = Roles
  /\ k.state = "ACTIVE" => k.confirmed = Roles

StageInv == TypeInv /\ \A c \in CallIds : Stage(call[c])

LEMMA RelayStage ==
  ASSUME TypeInv, NEW c \in CallIds, NEW r \in Roles, NEW type, NEW n, NEW next,
         next \in CallRecord, Stage(next), Relay(c, r, type, n, next)
  PROVE  Stage(call'[c])
<1> DEFINE after == [next EXCEPT !.seq[r] = n, !.messages = @ + 1]
<1>1. call' = [call EXCEPT ![c] = after] BY DEF Relay
<1>2. Stage(after) BY DEF Stage, CallRecord
<1> HIDE DEF after
<1> QED BY <1>1, <1>2 DEF TypeInv, TypeOK

LEMMA StageMessage ==
  ASSUME StageInv, NEW c \in CallIds, Message(c)
  PROVE  Stage(call'[c]) /\ \A d \in CallIds : d # c => call'[d] = call[d]
<1>0. TypeInv /\ call[c] \in CallRecord /\ Stage(call[c]) BY DEF StageInv, TypeInv, TypeOK
<1>1. ASSUME TooMany(c) \/ Decline(c) PROVE Stage(call'[c])
  <2>1. PICK by, counts : EndCalls({c}, by, counts)
    BY <1>1 DEF TooMany, Decline, EndCall
  <2>2. call'[c] = [call[c] EXCEPT !.state = "ENDED", !.by = by, !.messages = @ + counts]
    BY <2>1 DEF EndCalls
  <2>3. call'[c].state = "ENDED" BY <1>0, <2>2 DEF CallRecord
  <2> QED BY <2>3 DEF Stage
<1>2. ASSUME Refused(c) \/ \E k \in Devices : AcceptChecks(c, k) PROVE Stage(call'[c])
  <2> DEFINE next == [call[c] EXCEPT !.messages = @ + 1]
  <2>1. call' = [call EXCEPT ![c] = next] BY <1>2 DEF Refused, AcceptChecks
  <2>2. Stage(next) BY <1>0 DEF Stage, CallRecord
  <2> HIDE DEF next
  <2> QED BY <1>0, <2>1, <2>2 DEF TypeInv, TypeOK
<1>3. ASSUME NEW n \in Seqs, Cancel(c, n) PROVE Stage(call'[c])
  <2>1. call'[c].state = "ENDED" BY <1>0, <1>3 DEF Cancel, CallRecord, TypeInv, TypeOK
  <2> QED BY <2>1 DEF Stage
<1>4. ASSUME NEW n \in Seqs, NEW r \in Roles, HangUp(c, r, n) PROVE Stage(call'[c])
  <2>1. call'[c].state = "ENDED" BY <1>0, <1>4 DEF HangUp, CallRecord, TypeInv, TypeOK
  <2> QED BY <2>1 DEF Stage
<1>5. ASSUME NEW n \in Seqs, Offer(c, n) PROVE Stage(call'[c])
  <2> DEFINE next == [call[c] EXCEPT !.state = "NEGOTIATING", !.sdp = @ \cup {"A"}]
  <2>1. Relay(c, "A", "offer", n, next) /\ call[c].state = "ACCEPTED" /\ "A" \in Roles
    BY <1>5 DEF Offer, Roles
  <2>2. next \in CallRecord /\ Stage(next) BY <1>0, <2>1 DEF Stage, CallRecord, States
  <2> HIDE DEF next
  <2> QED BY <1>0, <2>1, <2>2, RelayStage
<1>6. ASSUME NEW n \in Seqs, Answer(c, n) PROVE Stage(call'[c])
  <2> DEFINE next == [call[c] EXCEPT !.state = "ESTABLISHING", !.sdp = @ \cup {"B"}]
  <2>1. Relay(c, "B", "answer", n, next) /\ call[c].state = "NEGOTIATING" /\ "B" \in Roles
    BY <1>6 DEF Answer, Roles
  <2>2. call[c].sdp \cup {"B"} = Roles BY <1>0, <2>1 DEF Stage, CallRecord, Roles
  <2>3. next \in CallRecord BY <1>0, <2>1 DEF CallRecord, States
  <2>4. Stage(next) BY <1>0, <2>1, <2>2 DEF Stage, CallRecord
  <2> HIDE DEF next
  <2> QED BY <1>0, <2>1, <2>3, <2>4, RelayStage
<1>7. ASSUME NEW n \in Seqs, NEW r \in Roles, Candidates(c, r, n) PROVE Stage(call'[c])
  BY <1>0, <1>7, RelayStage DEF Candidates
<1>8. ASSUME NEW n \in Seqs, NEW r \in Roles, Confirm(c, r, n) PROVE Stage(call'[c])
  <2> DEFINE both == call[c].confirmed \cup {r}
             next == [call[c] EXCEPT !.confirmed = both,
                                     !.state = IF BothConfirmed(both) THEN "ACTIVE" ELSE @]
  <2>1. both \in SUBSET Roles BY <1>0 DEF CallRecord
  <2>2. Relay(c, r, "confirm", n, next) /\ call[c].state = "ESTABLISHING" BY <1>8 DEF Confirm
  <2> HIDE DEF both
  <2>3. next \in CallRecord /\ Stage(next)
    BY <1>0, <2>1, <2>2 DEF Stage, CallRecord, States, BothConfirmed
  <2> HIDE DEF next
  <2> QED BY <1>0, <2>2, <2>3, RelayStage
<1>9. Stage(call'[c])
  BY <1>1, <1>2, <1>3, <1>4, <1>5, <1>6, <1>7, <1>8 DEF Message
<1>10. \A d \in CallIds : d # c => call'[d] = call[d]
  <2>1. ASSUME NEW next, call' = [call EXCEPT ![c] = next]
        PROVE  \A d \in CallIds : d # c => call'[d] = call[d]
    BY <1>0, <2>1 DEF TypeInv, TypeOK
  <2>2. CASE TooMany(c) \/ Decline(c)
    BY <2>2 DEF TooMany, Decline, EndCall, EndCalls
  <2>3. CASE Refused(c) \/ \E k \in Devices : AcceptChecks(c, k)
    BY <2>1, <2>3 DEF Refused, AcceptChecks
  <2>4. ASSUME NEW n \in Seqs, Cancel(c, n) PROVE \A d \in CallIds : d # c => call'[d] = call[d]
    BY <1>0, <2>4 DEF Cancel, TypeInv, TypeOK
  <2>5. ASSUME NEW n \in Seqs, NEW r \in Roles, HangUp(c, r, n)
        PROVE  \A d \in CallIds : d # c => call'[d] = call[d]
    BY <1>0, <2>5 DEF HangUp, TypeInv, TypeOK
  <2>6. ASSUME NEW n \in Seqs, NEW r \in Roles,
               Offer(c, n) \/ Answer(c, n) \/ Candidates(c, r, n) \/ Confirm(c, r, n)
        PROVE  \A d \in CallIds : d # c => call'[d] = call[d]
    <3>1. \E q, type, next : Relay(c, q, type, n, next)
      BY <2>6 DEF Offer, Answer, Candidates, Confirm
    <3> QED BY <2>1, <3>1 DEF Relay
  <2> QED BY <2>2, <2>3, <2>4, <2>5, <2>6 DEF Message, Roles
<1> QED BY <1>9, <1>10

LEMMA StageNext == StageInv /\ [Next]_vars => StageInv'
<1> SUFFICES ASSUME StageInv, [Next]_vars PROVE \A c \in CallIds : Stage(call'[c])
  BY TypeNext DEF StageInv
<1>0. TypeInv /\ \A c \in CallIds : call[c] \in CallRecord /\ Stage(call[c])
  BY DEF StageInv, TypeInv, TypeOK
<1>1. ASSUME UNCHANGED call PROVE \A c \in CallIds : Stage(call'[c]) BY <1>0, <1>1
<1>2. ASSUME NEW t \in Tags, CreateTag(t) \/ StoreTag(t) \/ TagExpires(t) PROVE UNCHANGED call
  BY <1>2 DEF CreateTag, StoreTag, TagExpires, life
<1>3. ASSUME NEW o \in Owners, Listen(o) \/ TakeEvent(o) \/ StopListening(o) PROVE UNCHANGED call
  BY <1>3 DEF Listen, TakeEvent, StopListening, life
<1>4. ASSUME NEW C, NEW by, EndCalls(C, by, 0) PROVE \A c \in CallIds : Stage(call'[c])
  <2>1. ASSUME NEW c \in CallIds PROVE Stage(call'[c])
    <3>1. CASE c \in C
      <4>1. call'[c].state = "ENDED" BY <1>0, <1>4, <3>1 DEF EndCalls, CallRecord
      <4> QED BY <4>1 DEF Stage
    <3>2. CASE c \notin C
      <4>1. call'[c] = call[c] BY <1>4, <3>2 DEF EndCalls
      <4> QED BY <1>0, <4>1
    <3> QED BY <3>1, <3>2
  <2> QED BY <2>1
<1>5. ASSUME NEW o \in Owners, NEW D \in SUBSET Tags, RevokeTags(o, D)
      PROVE  \A c \in CallIds : Stage(call'[c])
  BY <1>4, <1>5 DEF RevokeTags
<1>6. ASSUME NEW c \in CallIds, TimeOut(c) PROVE \A d \in CallIds : Stage(call'[d])
  BY <1>4, <1>6 DEF TimeOut, EndCall
<1>7. ASSUME NEW c \in CallIds, NEW t \in Tags, Invite(c, t)
      PROVE  \A d \in CallIds : Stage(call'[d])
  <2> DEFINE new == [NoCall EXCEPT !.state = "RINGING", !.tag = t]
  <2>1. call' = [call EXCEPT ![c] = new] BY <1>7 DEF Invite
  <2>2. Stage(new) BY DEF Stage, NoCall
  <2> HIDE DEF new
  <2> QED BY <1>0, <2>1, <2>2 DEF TypeInv, TypeOK
<1>8. ASSUME NEW c \in CallIds, Message(c) PROVE \A d \in CallIds : Stage(call'[d])
  BY <1>0, <1>8, StageMessage
<1>9. Stage(NoCall) BY DEF Stage, NoCall
<1>10. ASSUME NEW c \in CallIds, Forget(c) PROVE \A d \in CallIds : Stage(call'[d])
  BY <1>0, <1>9, <1>10 DEF Forget, TypeInv, TypeOK
<1>11. ASSUME NEW x \in accepting, NEW next,
              call' = [call EXCEPT ![x.call] = next], Stage(next)
       PROVE  \A d \in CallIds : Stage(call'[d])
  BY <1>0, <1>11 DEF TypeInv, TypeOK
<1>12. ASSUME NEW x \in accepting, AcceptStoresKey(x) PROVE \A d \in CallIds : Stage(call'[d])
  <2> DEFINE next == [call[x.call] EXCEPT !.keyB = x.key]
  <2>1. call[x.call] \in CallRecord /\ Stage(call[x.call]) BY <1>0 DEF TypeInv, TypeOK
  <2>2. Stage(next) BY <2>1 DEF Stage, CallRecord
  <2>3. call' = [call EXCEPT ![x.call] = next] BY <1>12 DEF AcceptStoresKey
  <2> HIDE DEF next
  <2> QED BY <1>11, <2>2, <2>3
<1>13. ASSUME NEW x \in accepting, AcceptCompletes(x) PROVE \A d \in CallIds : Stage(call'[d])
  <2> DEFINE next == [call[x.call] EXCEPT !.accepted = TRUE, !.th = x.key, !.state = "ACCEPTED"]
  <2>1. call[x.call] \in CallRecord BY <1>0 DEF TypeInv, TypeOK
  <2>2. Stage(next) BY <2>1 DEF Stage, CallRecord
  <2>3. call' = [call EXCEPT ![x.call] = next] BY <1>13 DEF AcceptCompletes
  <2> HIDE DEF next
  <2> QED BY <1>11, <2>2, <2>3
<1>14. ASSUME Restart PROVE \A c \in CallIds : Stage(call'[c])
  BY <1>9, <1>14 DEF Restart
<1>15. ASSUME UNCHANGED vars PROVE UNCHANGED call BY <1>15 DEF vars, life
<1> QED
  BY <1>1, <1>2, <1>3, <1>5, <1>6, <1>7, <1>8, <1>10, <1>12, <1>13, <1>14, <1>15
  DEF Next, Sweep

\* A call is active only after both sides have sent their description and
\* both have confirmed, also when an accept that was still hashing has put
\* the call back in between.
THEOREM ActiveWasConfirmed == Spec => []ActiveIsConfirmed
<1>1. Init => StageInv
  <2>1. Init => TypeInv BY TypeInit
  <2>2. Stage(NoCall) BY DEF Stage, NoCall
  <2> QED BY <2>1, <2>2 DEF Init, StageInv
<1>2. StageInv => ActiveIsConfirmed BY DEF StageInv, Stage, ActiveIsConfirmed
<1> QED BY <1>1, StageNext, <1>2, PTL DEF Spec
-----------------------------------------------------------------------------
(* Who is told that a call has ended.                                      *)

TellsOfEnd(box) == \E i \in DOMAIN box : box[i].type \in {"ended", "end"}

\* Of the call k with the mailboxes box: each side that has one and did not end
\* the call finds the end there.  A ringing call has not been accepted, so a
\* caller that cancels it has no callee to tell.
EndIsTold(k, box) ==
  /\ k.state = "RINGING" => ~ k.accepted
  /\ k.state = "ENDED" =>
       \A r \in Roles : k.by # r /\ (r = "A" \/ k.accepted) => TellsOfEnd(box[r])

ToldInv == TypeInv /\ \A c \in CallIds : EndIsTold(call[c], told[c])

LEMMA EndIsAppended ==
  ASSUME NEW box \in Seq(Event), NEW e \in Event, e.type \in {"ended", "end"}
  PROVE  TellsOfEnd(Append(box, e))
<1>1. Len(box) + 1 \in DOMAIN Append(box, e) /\ Append(box, e)[Len(box) + 1] = e OBVIOUS
<1> QED BY <1>1 DEF TellsOfEnd

\* However many calls the service or a callee ends at once.
LEMMA EndTells ==
  ASSUME ToldInv, NEW C, NEW by \in {"service", "B"}, NEW counts, EndCalls(C, by, counts),
         NEW c \in CallIds
  PROVE  EndIsTold(call'[c], told'[c])
<1>1. /\ call[c] \in CallRecord /\ EndIsTold(call[c], told[c])
      /\ \A r \in Roles : told[c][r] \in Seq(Event)
  BY DEF ToldInv, TypeInv, TypeOK
<1>2. CASE c \notin C
  <2>1. call'[c] = call[c] /\ told'[c] = told[c] BY <1>2 DEF EndCalls
  <2> QED BY <1>1, <2>1
<1>3. CASE c \in C
  <2>1. call'[c] = [call[c] EXCEPT !.state = "ENDED", !.by = by, !.messages = @ + counts]
    BY <1>3 DEF EndCalls
  <2>2. call'[c].state = "ENDED" /\ call'[c].by = by /\ call'[c].accepted = call[c].accepted
    BY <1>1, <2>1 DEF CallRecord
  <2>3. ASSUME NEW r \in Roles, by # r, r = "A" \/ call[c].accepted PROVE TellsOfEnd(told'[c][r])
    <3>1. told'[c][r] = Append(told[c][r], [type |-> "ended", n |-> 0])
      BY <1>3, <2>3 DEF EndCalls
    <3>2. [type |-> "ended", n |-> 0] \in Event BY DEF Event
    <3> QED BY <1>1, <3>1, <3>2, EndIsAppended
  <2> QED BY <2>2, <2>3 DEF EndIsTold
<1> QED BY <1>2, <1>3

\* Any other step changes one call and its mailboxes.
LEMMA OneTold ==
  ASSUME ToldInv, NEW c \in CallIds, NEW next, call' = [call EXCEPT ![c] = next],
         \A d \in CallIds : d # c => told'[d] = told[d],
         EndIsTold(next, told'[c])
  PROVE  \A d \in CallIds : EndIsTold(call'[d], told'[d])
BY DEF ToldInv, TypeInv, TypeOK

\* Relaying needs a call that goes on, and says nothing of an end.
LEMMA RelayTold ==
  ASSUME ToldInv, NEW c \in CallIds, NEW r \in Roles, NEW type, NEW n, NEW next \in CallRecord,
         next.state \notin {"RINGING", "ENDED"}, Relay(c, r, type, n, next)
  PROVE  \A d \in CallIds : EndIsTold(call'[d], told'[d])
<1> DEFINE after == [next EXCEPT !.seq[r] = n, !.messages = @ + 1]
<1>1. call' = [call EXCEPT ![c] = after] BY DEF Relay
<1>2. after.state \notin {"RINGING", "ENDED"} BY DEF CallRecord
<1> HIDE DEF after
<1>3. EndIsTold(after, told'[c]) BY <1>2 DEF EndIsTold
<1>4. \A d \in CallIds : d # c => told'[d] = told[d] BY DEF Relay, ToldInv, TypeInv, TypeOK
<1> QED BY <1>1, <1>3, <1>4, OneTold

LEMMA HangUpTold ==
  ASSUME ToldInv, NEW c \in CallIds, NEW r \in Roles, NEW n \in Seqs, HangUp(c, r, n)
  PROVE  \A d \in CallIds : EndIsTold(call'[d], told'[d])
<1> DEFINE next == [call[c] EXCEPT !.state = "ENDED", !.by = r, !.seq[r] = n, !.messages = @ + 1]
<1>1. /\ call[c] \in CallRecord /\ told \in [CallIds -> [Roles -> Seq(Event)]]
      /\ Other(r) \in Roles /\ \A q \in Roles : q # r => q = Other(r)
  BY DEF ToldInv, TypeInv, TypeOK, Other, Roles
<1>2. call' = [call EXCEPT ![c] = next] BY DEF HangUp
<1>3. next.state = "ENDED" /\ next.by = r BY <1>1 DEF CallRecord
<1>4. /\ told'[c][Other(r)] = Append(told[c][Other(r)], [type |-> "end", n |-> n])
      /\ \A d \in CallIds : d # c => told'[d] = told[d]
  BY <1>1 DEF HangUp
<1>5. [type |-> "end", n |-> n] \in Event BY CallServiceAssumption DEF Event, Seqs, CallServiceAssumption
<1>6. TellsOfEnd(told'[c][Other(r)]) BY <1>1, <1>4, <1>5, EndIsAppended
<1> HIDE DEF next
<1>7. EndIsTold(next, told'[c]) BY <1>1, <1>3, <1>6 DEF EndIsTold
<1> QED BY <1>2, <1>4, <1>7, OneTold

LEMMA MessageTold ==
  ASSUME ToldInv, NEW c \in CallIds, Message(c)
  PROVE  \A d \in CallIds : EndIsTold(call'[d], told'[d])
<1>1. call[c] \in CallRecord /\ EndIsTold(call[c], told[c]) BY DEF ToldInv, TypeInv, TypeOK
<1>2. CASE TooMany(c) \/ Decline(c)
  BY <1>2, EndTells DEF TooMany, Decline, EndCall
<1>3. CASE Refused(c) \/ \E k \in Devices : AcceptChecks(c, k)
  <2> DEFINE next == [call[c] EXCEPT !.messages = @ + 1]
  <2>1. call' = [call EXCEPT ![c] = next] /\ told' = told BY <1>3 DEF Refused, AcceptChecks
  <2>2. EndIsTold(next, told[c]) BY <1>1 DEF EndIsTold, CallRecord
  <2> HIDE DEF next
  <2> QED BY <2>1, <2>2, OneTold
<1>4. ASSUME NEW n \in Seqs, Cancel(c, n) PROVE \A d \in CallIds : EndIsTold(call'[d], told'[d])
  <2> DEFINE next == [call[c] EXCEPT !.state = "ENDED", !.by = "A", !.seq["A"] = n, !.messages = @ + 1]
  <2>1. call' = [call EXCEPT ![c] = next] /\ told' = told /\ call[c].state = "RINGING"
    BY <1>4 DEF Cancel
  <2>2. next.state = "ENDED" /\ next.by = "A" /\ ~ next.accepted
    BY <1>1, <2>1 DEF EndIsTold, CallRecord
  <2> HIDE DEF next
  <2>3. EndIsTold(next, told[c]) BY <2>2 DEF EndIsTold
  <2> QED BY <2>1, <2>3, OneTold
<1>5. ASSUME NEW n \in Seqs, NEW r \in Roles,
             Offer(c, n) \/ Answer(c, n) \/ Candidates(c, r, n) \/ Confirm(c, r, n)
      PROVE  \A d \in CallIds : EndIsTold(call'[d], told'[d])
  <2>1. PICK q, type, next :
          /\ q \in Roles /\ Relay(c, q, type, n, next) /\ next \in CallRecord
          /\ next.state \notin {"RINGING", "ENDED"}
    <3>1. CASE Offer(c, n)
      <4> DEFINE next == [call[c] EXCEPT !.state = "NEGOTIATING", !.sdp = @ \cup {"A"}]
      <4>1. Relay(c, "A", "offer", n, next) /\ "A" \in Roles BY <3>1 DEF Offer, Roles
      <4>2. next \in CallRecord /\ next.state = "NEGOTIATING" BY <1>1, <4>1 DEF CallRecord, States
      <4> HIDE DEF next
      <4> QED BY <4>1, <4>2
    <3>2. CASE Answer(c, n)
      <4> DEFINE next == [call[c] EXCEPT !.state = "ESTABLISHING", !.sdp = @ \cup {"B"}]
      <4>1. Relay(c, "B", "answer", n, next) /\ "B" \in Roles BY <3>2 DEF Answer, Roles
      <4>2. next \in CallRecord /\ next.state = "ESTABLISHING" BY <1>1, <4>1 DEF CallRecord, States
      <4> HIDE DEF next
      <4> QED BY <4>1, <4>2
    <3>3. CASE Candidates(c, r, n) BY <1>1, <3>3 DEF Candidates
    <3>4. CASE Confirm(c, r, n)
      <4> DEFINE both == call[c].confirmed \cup {r}
                 next == [call[c] EXCEPT !.confirmed = both,
                                         !.state = IF BothConfirmed(both) THEN "ACTIVE" ELSE @]
      <4>1. both \in SUBSET Roles BY <1>1 DEF CallRecord
      <4>2. Relay(c, r, "confirm", n, next) /\ call[c].state = "ESTABLISHING" BY <3>4 DEF Confirm
      <4> HIDE DEF both
      <4>3. next \in CallRecord /\ next.state \notin {"RINGING", "ENDED"}
        BY <1>1, <4>1, <4>2 DEF CallRecord, States
      <4> QED BY <4>2, <4>3
    <3> QED BY <1>5, <3>1, <3>2, <3>3, <3>4
  <2> QED BY <2>1, RelayTold
<1> QED BY <1>2, <1>3, <1>4, <1>5, HangUpTold DEF Message, Roles

LEMMA ToldNext == ToldInv /\ [Next]_vars => ToldInv'
<1> SUFFICES ASSUME ToldInv, [Next]_vars PROVE \A c \in CallIds : EndIsTold(call'[c], told'[c])
  BY TypeNext DEF ToldInv
<1>0. /\ \A c \in CallIds : call[c] \in CallRecord /\ EndIsTold(call[c], told[c])
      /\ accepting \subseteq [call : CallIds, key : Devices, step : {"invite", "transcript"}]
      /\ call \in [CallIds -> CallRecord] /\ told \in [CallIds -> [Roles -> Seq(Event)]]
  BY DEF ToldInv, TypeInv, TypeOK
<1>1. CASE UNCHANGED life BY <1>0, <1>1 DEF life
<1>2. ASSUME NEW t \in Tags, CreateTag(t) \/ StoreTag(t) \/ TagExpires(t) PROVE UNCHANGED life
  BY <1>2 DEF CreateTag, StoreTag, TagExpires
<1>3. ASSUME NEW o \in Owners, Listen(o) \/ TakeEvent(o) \/ StopListening(o) PROVE UNCHANGED life
  BY <1>3 DEF Listen, TakeEvent, StopListening
<1>4. ASSUME NEW o \in Owners, NEW D \in SUBSET Tags, RevokeTags(o, D)
      PROVE  \A c \in CallIds : EndIsTold(call'[c], told'[c])
  BY <1>4, EndTells DEF RevokeTags
<1>5. ASSUME NEW c \in CallIds, TimeOut(c) PROVE \A d \in CallIds : EndIsTold(call'[d], told'[d])
  BY <1>5, EndTells DEF TimeOut, EndCall
<1>6. ASSUME NEW c \in CallIds, NEW t \in Tags, Invite(c, t)
      PROVE  \A d \in CallIds : EndIsTold(call'[d], told'[d])
  <2> DEFINE new == [NoCall EXCEPT !.state = "RINGING", !.tag = t]
  <2>1. call' = [call EXCEPT ![c] = new] /\ told' = told BY <1>6 DEF Invite
  <2>2. EndIsTold(new, told[c]) BY DEF EndIsTold, NoCall
  <2> HIDE DEF new
  <2> QED BY <2>1, <2>2, OneTold
<1>7. \A box : EndIsTold(NoCall, box) BY DEF EndIsTold, NoCall
<1>8. ASSUME NEW c \in CallIds, Forget(c) PROVE \A d \in CallIds : EndIsTold(call'[d], told'[d])
  BY <1>0, <1>7, <1>8, OneTold DEF Forget
<1>9. ASSUME NEW x \in accepting, AcceptStoresKey(x)
      PROVE  \A d \in CallIds : EndIsTold(call'[d], told'[d])
  <2> DEFINE next == [call[x.call] EXCEPT !.keyB = x.key]
  <2>1. x.call \in CallIds BY <1>0
  <2>2. EndIsTold(next, told[x.call]) BY <1>0, <2>1 DEF EndIsTold, CallRecord
  <2>3. call' = [call EXCEPT ![x.call] = next] /\ told' = told BY <1>9 DEF AcceptStoresKey
  <2> HIDE DEF next
  <2> QED BY <2>1, <2>2, <2>3, OneTold
<1>10. ASSUME NEW x \in accepting, AcceptCompletes(x)
       PROVE  \A d \in CallIds : EndIsTold(call'[d], told'[d])
  <2> DEFINE next == [call[x.call] EXCEPT !.accepted = TRUE, !.th = x.key, !.state = "ACCEPTED"]
  <2>1. x.call \in CallIds BY <1>0
  <2>2. next.state = "ACCEPTED" BY <1>0, <2>1 DEF CallRecord
  <2>3. call' = [call EXCEPT ![x.call] = next] /\ \A d \in CallIds : d # x.call => told'[d] = told[d]
    BY <1>0, <1>10, <2>1 DEF AcceptCompletes
  <2> HIDE DEF next
  <2>4. EndIsTold(next, told'[x.call]) BY <2>2 DEF EndIsTold
  <2> QED BY <2>1, <2>3, <2>4, OneTold
<1>11. ASSUME Restart PROVE \A c \in CallIds : EndIsTold(call'[c], told'[c])
  BY <1>7, <1>11 DEF Restart
<1>12. ASSUME UNCHANGED vars PROVE UNCHANGED life BY <1>12 DEF vars
<1> QED
  BY <1>1, <1>2, <1>3, <1>4, <1>5, <1>6, <1>8, <1>9, <1>10, <1>11, <1>12, MessageTold
  DEF Next, Sweep

\* Whoever ends a call, and whatever accept comes too late for it: the side
\* that did not end it finds the end in its mailbox of the call.
THEOREM BothAreTold == Spec => []BothSidesTold
<1>1. Init => ToldInv
  <2>1. Init => TypeInv BY TypeInit
  <2>2. \A box : EndIsTold(NoCall, box) BY DEF EndIsTold, NoCall
  <2> QED BY <2>1, <2>2 DEF Init, ToldInv
<1>2. ToldInv => BothSidesTold BY DEF ToldInv, EndIsTold, TellsOfEnd, BothSidesTold
<1> QED BY <1>1, ToldNext, <1>2, PTL DEF Spec
=============================================================================
