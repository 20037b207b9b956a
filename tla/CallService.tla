---------------------------- MODULE CallService ----------------------------
(***************************************************************************)
(* The voice-call rendezvous service (call-server/server.js): reach tags   *)
(* and their file, the mailboxes of listening wallets, and the life of a   *)
(* call from invite to the moment it is forgotten.                         *)
(*                                                                         *)
(* An action is a stretch of a route between two awaits.  Most routes      *)
(* authenticate first and then run to their end in one stretch; accept     *)
(* and tag/create wait for a hash in between, so other requests and the    *)
(* sweep may run there.  A message that fails a check is refused: on a     *)
(* live call it is still counted (Refused).  Time is left open: whatever   *)
(* may expire may expire at any moment (TimeOut, TagExpires, TakeEvent).   *)
(***************************************************************************)
EXTENDS Naturals, FiniteSets, Sequences

CONSTANTS
  Tags,         \* reach tags (their hashes)
  Owners,       \* wallets that own tags and listen
  TagOwner,     \* TagOwner[t]: the wallet that creates tag t
  CallIds,      \* call ids; a caller draws a fresh one per call
  Devices,      \* the callee's call keys: each accept carries its own
  MaxTags,      \* live tags per wallet
  MaxCalls,     \* calls per tag
  MaxSignals,   \* messages per call (maxSignalsPerCall)
  MaxFaults,    \* bound: how many saves of the tag file may fail
  MaxRestarts,  \* bound: how often the process is restarted
  None

ASSUME CallServiceAssumption ==
  /\ TagOwner \in [Tags -> Owners]
  /\ MaxTags \in Nat /\ MaxCalls \in Nat /\ MaxSignals \in Nat
  /\ MaxFaults \in Nat /\ MaxRestarts \in Nat
  /\ None \notin Tags \cup CallIds \cup Devices

VARIABLES
  tags,       \* the tags in memory
  used,       \* used[t]: calls placed with t
  expired,    \* the tags whose time has passed
  disk,       \* the tag file: [tags, used]
  creating,   \* tag/create requests past the quota check, still hashing
  revoked,    \* the tags a revoke request removed, until a restart finds them on file
  listener,   \* listener[o]: o's mailbox, a set of events; None if absent
  ringing,    \* ringing[t]: the call tagRinging has for t
  seen,       \* call ids that may not be used again (seenCallIds)
  call,       \* call[c]: the call
  told,       \* told[c][r]: everything put into r's mailbox of the call
  accepting,  \* accepts past the state check, still hashing
  faults, restarts

store  == <<tags, used, expired, disk, creating, revoked>>
life   == <<call, told>>
bounds == <<faults, restarts>>
vars   == <<store, listener, ringing, seen, life, accepting, bounds>>

Roles == {"A", "B"}   \* caller, callee
OwnBox(r) == r   \* (mutated: into the sender's own mailbox)
Other(r) == IF r = "A" THEN "B" ELSE "A"

NoCall ==
  [state |-> "none", tag |-> None, accepted |-> FALSE, keyB |-> None, th |-> None,
   sdp |-> {}, confirmed |-> {}, seq |-> [r \in Roles |-> 0], messages |-> 0, by |-> "nobody"]
Silence == [r \in Roles |-> <<>>]

\* (mutated: the sweep leaves active calls alone)
LiveUntilActive(c) == call[c].state \notin {"none", "ACTIVE", "ENDED"}
Live(c) == call[c].state \notin {"none", "ENDED"}
OwnerOf(c) == TagOwner[call[c].tag]
TagsOf(o) == {t \in tags : TagOwner[t] = o}

Init ==
  /\ tags = {} /\ expired = {} /\ creating = {} /\ revoked = {}
  /\ used = [t \in Tags |-> 0]
  /\ disk = [tags |-> {}, used |-> used]
  /\ listener = [o \in Owners |-> None]
  /\ ringing = [t \in Tags |-> None]
  /\ seen = {} /\ accepting = {}
  /\ call = [c \in CallIds |-> NoCall]
  /\ told = [c \in CallIds |-> Silence]
  /\ faults = 0 /\ restarts = 0

-----------------------------------------------------------------------------
(* Tags.                                                                   *)

\* saveTags replaces the file by what is in memory, or throws
SaveWorks == disk' = [tags |-> tags', used |-> used'] /\ UNCHANGED faults
SaveFails == faults < MaxFaults /\ faults' = faults + 1 /\ UNCHANGED disk

\* tag/create up to the hash of the new random tag
CreateTag(t) ==
  /\ t \notin tags \cup creating \cup expired \cup revoked \cup disk.tags
  /\ Cardinality(TagsOf(TagOwner[t])) < MaxTags
  /\ creating' = creating \cup {t}
  /\ UNCHANGED <<tags, used, expired, disk, revoked, listener, ringing, seen, life, accepting, bounds>>

StoreTag(t) ==
  /\ t \in creating
  /\ creating' = creating \ {t}
  /\ used' = [used EXCEPT ![t] = 0]
  /\ \/ tags' = tags \cup {t} /\ SaveWorks
     \/ tags' = tags /\ SaveFails
  /\ UNCHANGED <<expired, revoked, listener, ringing, seen, life, accepting, restarts>>

\* the sweep drops an expired tag; the file keeps it until the next save
TagExpires(t) ==
  /\ t \in tags
  /\ expired' = expired \cup {t}
  /\ tags' = tags \ {t}
  /\ UNCHANGED <<used, disk, creating, revoked, listener, ringing, seen, life, accepting, bounds>>

-----------------------------------------------------------------------------
(* How a call ends.                                                        *)

Hears(o, events) ==
  [listener EXCEPT ![o] = IF @ = None THEN None ELSE @ \cup events]

\* removeListenerEvents for the calls in C
KeepsInvites(C, box) == box   \* (mutated: nothing is removed)
WithoutInvites(C, box) ==
  IF box = None THEN None ELSE {e \in box : e.call \in C => e.type # "invite"}

Freed(C) == [t \in Tags |-> IF ringing[t] \in C THEN None ELSE ringing[t]]

\* endCall for the calls in C, by the service or by a message of the callee
\* (which is counted): the side that did not end the call is told, through
\* the call's mailbox or, before accept, through the listening wallet's
EndCalls(C, by, counts) ==
  /\ call' = [c \in CallIds |->
       IF c \in C
       THEN [call[c] EXCEPT !.state = "ENDED", !.by = by, !.messages = @ + counts]
       ELSE call[c]]
  /\ told' = [c \in CallIds |->
       IF c \notin C THEN told[c]
       ELSE [r \in Roles |->
              IF r # by /\ (r = "A" \/ call[c].accepted)
              THEN Append(told[c][r], [type |-> "ended", n |-> 0]) ELSE told[c][r]]]
  /\ ringing' = Freed(C)
  /\ listener' = [o \in Owners |->
       IF listener[o] = None THEN None
       ELSE WithoutInvites(C, listener[o]) \cup
            {[call |-> c, type |-> "ended"] :
               c \in {d \in C : by # "B" /\ ~ call[d].accepted /\ OwnerOf(d) = o}}]

EndCall(c, by, counts) == EndCalls({c}, by, counts)

\* the doomed calls of a revoke: one tag, or every tag of the wallet
RingingOn(D) == {c \in CallIds : \E t \in D : ringing[t] = c}
RevokeLeavesRinging(D) == {}   \* (mutated: only the tag goes)
EndedByRevoke(D) == {c \in RingingOn(D) : Live(c)}

\* tag/revoke; memory is changed even if the file cannot be written
RevokeTags(o, D) ==
  /\ D # {} /\ (D = TagsOf(o) \/ \E t \in TagsOf(o) : D = {t})
  /\ tags' = tags \ D
  /\ revoked' = revoked \cup D
  /\ EndCalls(EndedByRevoke(D), "service", 0)
  /\ UNCHANGED used
  /\ SaveWorks \/ SaveFails
  /\ UNCHANGED <<expired, creating, seen, accepting, restarts>>

-----------------------------------------------------------------------------
(* The listening wallet.                                                   *)

Listen(o) ==
  /\ listener[o] = None
  /\ listener' = [listener EXCEPT ![o] = {}]
  /\ UNCHANGED <<store, ringing, seen, life, accepting, bounds>>

\* an event is acknowledged, or its time has passed
TakeEvent(o) ==
  /\ listener[o] # None
  /\ \E e \in listener[o] : listener' = [listener EXCEPT ![o] = @ \ {e}]
  /\ UNCHANGED <<store, ringing, seen, life, accepting, bounds>>

\* listen with stop, or the sweep drops an empty mailbox nobody polls
StopListening(o) ==
  /\ listener[o] # None
  /\ listener' = [listener EXCEPT ![o] = None]
  /\ UNCHANGED <<store, ringing, seen, life, accepting, bounds>>

-----------------------------------------------------------------------------
(* The call.                                                               *)

RingsAgain(t) == TRUE   \* (mutated: no engaged check)
NotRinging(t) == ringing[t] = None

Invite(c, t) ==
  /\ t \in tags
  /\ used[t] < MaxCalls
  /\ call[c] = NoCall /\ c \notin seen
  /\ NotRinging(t)
  /\ listener[TagOwner[t]] # None
  /\ call' = [call EXCEPT ![c] = [NoCall EXCEPT !.state = "RINGING", !.tag = t]]
  /\ seen' = seen \cup {c}
  /\ ringing' = [ringing EXCEPT ![t] = c]
  /\ used' = [used EXCEPT ![t] = @ + 1]
  /\ tags' = tags
  /\ SaveWorks \/ SaveFails
  /\ listener' = Hears(TagOwner[t], {[call |-> c, type |-> "invite"]})
  /\ UNCHANGED <<expired, creating, revoked, told, accepting, restarts>>

\* Every signal on a live call is counted before it is looked at; the one
\* over the limit ends the call (the count is left at the limit here).
CountedForever(c) == Live(c)   \* (mutated: no limit)
Counted(c) == Live(c) /\ call[c].messages < MaxSignals

TooMany(c) ==
  /\ Live(c) /\ call[c].messages = MaxSignals
  /\ EndCall(c, "service", 0)
  /\ UNCHANGED <<store, seen, accepting, bounds>>

Refused(c) ==
  /\ Counted(c)
  /\ call' = [call EXCEPT ![c].messages = @ + 1]
  /\ UNCHANGED <<store, listener, ringing, seen, told, accepting, bounds>>

\* accept, up to the hash of the invite ...
AcceptChecks(c, k) ==
  /\ Counted(c)
  /\ call[c].state = "RINGING"
  /\ \A x \in accepting : x.call = c => x.key # k
  /\ call' = [call EXCEPT ![c].messages = @ + 1]
  /\ accepting' = accepting \cup {[call |-> c, key |-> k, step |-> "invite"]}
  /\ UNCHANGED <<store, listener, ringing, seen, told, bounds>>

\* ... up to the hash of the transcript ...
AcceptStoresKey(x) ==
  /\ x \in accepting /\ x.step = "invite"
  /\ call' = [call EXCEPT ![x.call].keyB = x.key]
  /\ accepting' = (accepting \ {x}) \cup {[x EXCEPT !.step = "transcript"]}
  /\ UNCHANGED <<store, listener, ringing, seen, told, bounds>>

\* ... and to the end.  Neither stretch looks at the state again.
AcceptCompletes(x) ==
  /\ x \in accepting /\ x.step = "transcript"
  /\ call' = [call EXCEPT ![x.call].accepted = TRUE, ![x.call].th = x.key,
                          ![x.call].state = "ACCEPTED"]
  /\ told' = [told EXCEPT ![x.call]["A"] = Append(@, [type |-> "accept", n |-> 0])]
  /\ accepting' = accepting \ {x}
  /\ ringing' = Freed({x.call})
  /\ listener' = [listener EXCEPT ![OwnerOf(x.call)] = WithoutInvites({x.call}, @)]
  /\ UNCHANGED <<store, seen, bounds>>

\* decline or busy, by the wallet the tag belongs to
Decline(c) ==
  /\ Counted(c)
  /\ call[c].state = "RINGING"
  /\ EndCall(c, "B", 1)
  /\ UNCHANGED <<store, seen, accepting, bounds>>

InOrder(c, r, n) == n = call[c].seq[r] + 1

\* cancel, or end before accept: the listening wallet is told
Cancel(c, n) ==
  /\ Counted(c)
  /\ call[c].state = "RINGING"
  /\ InOrder(c, "A", n)
  /\ call' = [call EXCEPT ![c].state = "ENDED", ![c].by = "A", ![c].seq["A"] = n,
                          ![c].messages = @ + 1]
  /\ ringing' = Freed({c})
  /\ LET o == OwnerOf(c)
     IN listener' = [listener EXCEPT ![o] =
          IF @ = None THEN None
          ELSE WithoutInvites({c}, @) \cup {[call |-> c, type |-> "cancel"]}]
  /\ UNCHANGED <<store, seen, told, accepting, bounds>>

\* A message signed with the call key of r, relayed to the other side.  It
\* must name the transcript in force: the caller knows every accept it was
\* sent, the callee only its own.
Relay(c, r, type, n, next) ==
  /\ Counted(c)
  /\ InOrder(c, r, n)
  /\ r = "B" => call[c].keyB = call[c].th
  /\ call' = [call EXCEPT ![c] = [next EXCEPT !.seq[r] = n, !.messages = @ + 1]]
  /\ told' = [told EXCEPT ![c][Other(r)] = Append(@, [type |-> type, n |-> n])]
  /\ UNCHANGED <<store, listener, ringing, seen, accepting, bounds>>

Offer(c, n) ==
  /\ call[c].state = "ACCEPTED"
  /\ Relay(c, "A", "offer", n,
           [call[c] EXCEPT !.state = "NEGOTIATING", !.sdp = @ \cup {"A"}])

Answer(c, n) ==
  /\ call[c].state = "NEGOTIATING"
  /\ Relay(c, "B", "answer", n,
           [call[c] EXCEPT !.state = "ESTABLISHING", !.sdp = @ \cup {"B"}])

Candidates(c, r, n) ==
  /\ call[c].state \in {"NEGOTIATING", "ESTABLISHING", "ACTIVE"}
  /\ r \in call[c].sdp
  /\ Relay(c, r, "candidates", n, call[c])

OneConfirms(confirmed) == confirmed # {}   \* (mutated: one is enough)
BothConfirmed(confirmed) == confirmed = Roles

Confirm(c, r, n) ==
  /\ call[c].state = "ESTABLISHING"
  /\ r \notin call[c].confirmed
  /\ LET confirmed == call[c].confirmed \cup {r}
     IN Relay(c, r, "confirm", n,
              [call[c] EXCEPT !.confirmed = confirmed,
                              !.state = IF BothConfirmed(confirmed) THEN "ACTIVE" ELSE @])

\* end after accept; it may leave the transcript out
HangUp(c, r, n) ==
  /\ Counted(c)
  /\ call[c].state # "RINGING"
  /\ InOrder(c, r, n)
  /\ call' = [call EXCEPT ![c].state = "ENDED", ![c].by = r, ![c].seq[r] = n,
                          ![c].messages = @ + 1]
  /\ told' = [told EXCEPT ![c][Other(r)] = Append(@, [type |-> "end", n |-> n])]
  /\ UNCHANGED <<store, listener, ringing, seen, accepting, bounds>>

\* The sweep: the invite ran out, a deadline passed, both sides have been
\* silent, or the call has lasted maxCallMs.
TimeOut(c) ==
  /\ Live(c)
  /\ EndCall(c, "service", 0)
  /\ UNCHANGED <<store, seen, accepting, bounds>>

\* endedRetainMs later the sweep deletes the call and its mailboxes; by then
\* no accept is still hashing
Forget(c) ==
  /\ call[c].state = "ENDED"
  /\ \A x \in accepting : x.call # c
  /\ call' = [call EXCEPT ![c] = NoCall]
  /\ told' = [told EXCEPT ![c] = Silence]
  /\ UNCHANGED <<store, listener, ringing, seen, accepting, bounds>>

\* The process is started again with the tags of its file (loadTags); those
\* that have expired refuse every invite until the sweep drops them.
Restart ==
  /\ restarts < MaxRestarts
  /\ restarts' = restarts + 1
  /\ tags' = disk.tags \ expired
  /\ used' = disk.used
  /\ revoked' = revoked \ disk.tags
  /\ listener' = [o \in Owners |-> None]
  /\ ringing' = [t \in Tags |-> None]
  /\ seen' = {} /\ creating' = {} /\ accepting' = {}
  /\ call' = [c \in CallIds |-> NoCall]
  /\ told' = [c \in CallIds |-> Silence]
  /\ UNCHANGED <<expired, disk, faults>>

Seqs == 1..MaxSignals

Sweep(c) == TimeOut(c) \/ Forget(c)
Message(c) ==
  \/ TooMany(c) \/ Refused(c) \/ Decline(c)
  \/ \E k \in Devices : AcceptChecks(c, k)
  \/ \E n \in Seqs :
       \/ Cancel(c, n) \/ Offer(c, n) \/ Answer(c, n)
       \/ \E r \in Roles : Candidates(c, r, n) \/ Confirm(c, r, n) \/ HangUp(c, r, n)

Next ==
  \/ \E t \in Tags : CreateTag(t) \/ StoreTag(t) \/ TagExpires(t)
  \/ \E o \in Owners : \E D \in SUBSET Tags : RevokeTags(o, D)
  \/ \E o \in Owners : Listen(o) \/ TakeEvent(o) \/ StopListening(o)
  \/ \E c \in CallIds, t \in Tags : Invite(c, t)
  \/ \E c \in CallIds : Message(c) \/ Sweep(c)
  \/ \E x \in accepting : AcceptStoresKey(x) \/ AcceptCompletes(x)
  \/ Restart

\* The sweep runs every second and every call is past some deadline in the
\* end; hashing ends.
Fairness ==
  /\ \A c \in CallIds : WF_vars(Sweep(c))
  /\ WF_vars(\E x \in accepting : AcceptStoresKey(x) \/ AcceptCompletes(x))

Spec == Init /\ [][Next]_vars
FairSpec == Spec /\ Fairness

-----------------------------------------------------------------------------
States == {"none", "RINGING", "ACCEPTED", "NEGOTIATING", "ESTABLISHING", "ACTIVE", "ENDED"}
Event == [type : {"ended", "accept", "offer", "answer", "candidates", "confirm", "end"}, n : Nat]
Mail == [call : CallIds, type : {"invite", "cancel", "ended"}]
CallRecord ==
  [state : States, tag : Tags \cup {None}, accepted : BOOLEAN,
   keyB : Devices \cup {None}, th : Devices \cup {None},
   sdp : SUBSET Roles, confirmed : SUBSET Roles, seq : [Roles -> Nat],
   messages : 0..MaxSignals, by : Roles \cup {"service", "nobody"}]

\* Every variable stays in its type, the message count under its limit.
TypeOK ==
  /\ tags \subseteq Tags /\ expired \subseteq Tags
  /\ creating \subseteq Tags /\ revoked \subseteq Tags
  /\ used \in [Tags -> Nat]
  /\ disk \in [tags : SUBSET Tags, used : [Tags -> Nat]]
  /\ listener \in [Owners -> {None} \cup SUBSET Mail]
  /\ ringing \in [Tags -> CallIds \cup {None}]
  /\ seen \subseteq CallIds
  /\ call \in [CallIds -> CallRecord]
  /\ told \in [CallIds -> [Roles -> Seq(Event)]]
  /\ accepting \subseteq [call : CallIds, key : Devices, step : {"invite", "transcript"}]
  /\ faults \in Nat /\ restarts \in Nat

\* A tag rings for one call at a time, and it is engaged exactly while that
\* call rings: no end of a call leaves the tag engaged, and none frees a tag
\* that already rings for the next call (tagRinging in routeInvite, endCall,
\* accept and cancel).
RingIsUnique ==
  \A t \in Tags, c \in CallIds :
    ringing[t] = c <=> call[c].state = "RINGING" /\ call[c].tag = t

\* A listening wallet is never offered a call that has stopped ringing
\* (removeListenerEvents at every end and at accept).
NoStaleInvite ==
  \A o \in Owners : listener[o] # None =>
    \A e \in listener[o] : e.type = "invite" => call[e.call].state = "RINGING"

\* A call is active only after both sides have sent their description and
\* both have confirmed, whatever order the messages came in.
ActiveIsConfirmed ==
  \A c \in CallIds : call[c].state = "ACTIVE" =>
    /\ call[c].accepted
    /\ call[c].sdp = Roles /\ call[c].confirmed = Roles

\* When a call has ended, each side that has a mailbox in it and did not end
\* it itself has been told so (endCall, hang-up).
BothSidesTold ==
  \A c \in CallIds, r \in Roles :
    call[c].state = "ENDED" /\ call[c].by # r /\ (r = "A" \/ call[c].accepted) =>
      \E i \in DOMAIN told[c][r] : told[c][r][i].type \in {"ended", "end"}

\* Once a tag has been revoked nothing rings through it any more.
RevokedIsSilent ==
  \A c \in CallIds : call[c].state = "RINGING" => call[c].tag \notin revoked

\* Every call ends and is forgotten, whatever its two sides do or fail to do.
CallsAreForgotten ==
  \A c \in CallIds : call[c].state # "none" ~> call[c].state = "none"

=============================================================================
