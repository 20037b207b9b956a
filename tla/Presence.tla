------------------------------- MODULE Presence -------------------------------
(***************************************************************************)
(* The presence server (presence-server/server.js) for one world: who is   *)
(* in its presence room and its chat room, over WebSocket or by polling,   *)
(* what a polling chat member has been handed of the chat, and the mutes   *)
(* and kicks of moderators (lib-restrictions.js, lib-moderation.js).       *)
(*                                                                         *)
(* A session is a connection id: a WebSocket, which may join, leave and    *)
(* join again, or the token of one polling join.  The sessions of a        *)
(* visitor share a visit id; older wallets send none.                      *)
(***************************************************************************)
EXTENDS Naturals, Sequences, FiniteSets, SequencesExt

CONSTANTS
  Sockets,          \* WebSocket connections
  Tokens,           \* tokens of polling sessions
  Visits, Visit,    \* Visit[c]: the visit id session c sends, None if it sends none
  Calls, Request,   \* moderation calls, and the signed request each carries
  HistoryLimit,     \* CHAT_HISTORY_LIMIT
  MaxRestrictions,  \* MODERATION_MAX_RESTRICTIONS
  MaxTombs,         \* MODERATION_MAX_TOMBSTONES
  Scenarios,        \* bounds: see `left`
  None

Sessions == Sockets \cup Tokens
Requests == {Request[h] : h \in Calls}
Keys     == Visits \cup Sessions

ASSUME PresenceAssumption ==
  /\ Sockets \cap Tokens = {} /\ None \notin Keys \cup {"removed", "unknown"} /\ Visits \cap Sessions = {}
  /\ Visit \in [Sessions -> Visits \cup {None}]
  /\ Scenarios \subseteq [joins : Nat, sends : Nat, lapses : Nat, vanish : Nat, slow : Nat,
                          disk : Nat, calls : SUBSET Calls]
  /\ HistoryLimit \in Nat \ {0} /\ MaxTombs \in Nat \ {0} /\ MaxRestrictions \in Nat

VARIABLES
  sock,      \* "open", "closing" (a close frame was handled) or "closed"
  quiet,     \* sockets pinged and not heard of since
  joined, chatJoined,  \* sockets whose own flags say that they have joined
  used,      \* tokens given out
  stale,     \* tokens not heard of for POLL_TIMEOUT_MS
  gone,      \* sessions whose peer has vanished without a word
  room, chat,          \* members of the presence room and of the chat room
  history,   \* the chat messages kept, oldest first: [id, seq, from]
  counter,   \* the last sequence number given out, 0 if none is kept
  cursor,    \* cursor[c]: the newest message chat member c has been handed
  kicks,     \* keys kicked
  mutes,     \* mutes: [key, who], who being the participant the moderator meant
  tombs,     \* tokens of removed sessions: [token, key, from], see Graves
  call,      \* call[h]: state of moderation call h
  want,      \* want[r]: what request r asks: [op, target], None before it is made
  nonces,    \* requests whose nonce is spent
  writable,  \* can the audit log be opened?
  \* what the properties remember
  handed,    \* handed[c]: the messages given to polling chat member c
  spoke,     \* sessions that have sent a message
  removed,   \* what tombs would be if it had no limit
  buried,    \* how many polling sessions moderators have removed
  told,      \* told[c]: the answer to the first request of a token that is no member
  sent,      \* how many messages were sent
  left       \* bound: joins, sends, restrictions and messages that expire (lapses),
             \* peers that vanish, peers that are slow, changes of the disk, and the
             \* moderation calls that may still come (calls)

sockets  == <<sock, quiet, joined, chatJoined>>
tokens   == <<used, stale>>
messages == <<history, counter, cursor, handed, spoke, sent>>
bans     == <<kicks, mutes, tombs, removed, buried>>
command  == <<call, want, nonces, writable>>
rest     == <<sockets, tokens, gone, room, chat, messages, bans, told, command>>
vars     == <<rest, left>>

Uses(what) == left[what] > 0 /\ left' = [left EXCEPT ![what] = @ - 1]

Init ==
  /\ sock = [c \in Sockets |-> "open"]
  /\ quiet = {} /\ joined = {} /\ chatJoined = {}
  /\ used = {} /\ stale = {} /\ gone = {} /\ room = {} /\ chat = {}
  /\ history = <<>> /\ counter = 0 /\ cursor = [c \in Sessions |-> 0]
  /\ kicks = {} /\ mutes = {} /\ tombs = {}
  /\ call = [h \in Calls |-> "new"] /\ want = [r \in Requests |-> None]
  /\ nonces = {} /\ writable = TRUE
  /\ handed = [c \in Tokens |-> {}] /\ spoke = {} /\ removed = {} /\ buried = 0
  /\ told = [c \in Tokens |-> None]
  /\ sent = 0 /\ left \in Scenarios

-----------------------------------------------------------------------------
(* Sessions *)

\* removedAnswer: the visit is kicked, or the connection itself
Kicked(c) == kicks \cap {Visit[c], c} # {}

\* the peer of c is there and may send; after a close frame a WebSocket is
\* still read until its peer has ended its side too
Talks(c) == c \notin gone /\ (c \in Sockets => sock[c] # "closed")

\* a token is made for each polling join, a refused one is never given out
Fresh(c, flags) == IF c \in Sockets THEN c \notin flags ELSE c \notin used

IssueToken(c) == used' = used \cup ({c} \cap Tokens) /\ UNCHANGED stale

\* addMember, from a "join" or POST poll/join
Join(c) ==
  /\ Talks(c) /\ Fresh(c, joined) /\ ~ Kicked(c) /\ Uses("joins")
  /\ room' = room \cup {c} /\ joined' = joined \cup ({c} \cap Sockets)
  /\ IssueToken(c)
  /\ UNCHANGED <<sock, quiet, chatJoined, gone, chat, messages, bans, told, command>>

\* pruneChatHistory: without history and members the numbering starts again
CountedAnew(hist, members) == IF hist = <<>> THEN 0 ELSE counter \* (mutated: although there are members)
Counted(hist, members) == IF hist = <<>> /\ members = {} THEN 0 ELSE counter

Newest(hist) == IF hist = <<>> THEN 0 ELSE Last(hist).seq
Ids(hist)    == {hist[i].id : i \in DOMAIN hist}

\* joinChatRoom: the answer holds the whole history
JoinChat(c) ==
  /\ Talks(c) /\ Fresh(c, chatJoined) /\ ~ Kicked(c) /\ Uses("joins")
  /\ counter' = Counted(history, chat)
  /\ cursor' = [cursor EXCEPT ![c] = Newest(history)]
  /\ handed' = [t \in Tokens |-> IF t = c THEN Ids(history) ELSE handed[t]]
  /\ chat' = chat \cup {c} /\ chatJoined' = chatJoined \cup ({c} \cap Sockets)
  /\ IssueToken(c)
  /\ UNCHANGED <<sock, quiet, joined, gone, room, history, spoke, sent, bans, told, command>>

\* leaveRoom and leaveChat of a connection: by its own flags
LeftRoom(c) == room \ ({c} \cap joined)
LeftChat(c) == chat \ ({c} \cap chatJoined)

Leave(c) ==
  /\ Talks(c)
  /\ \/ /\ c \in joined
        /\ room' = LeftRoom(c) /\ joined' = joined \ {c} /\ UNCHANGED <<chat, chatJoined>>
     \/ /\ c \in chatJoined
        /\ chat' = LeftChat(c) /\ chatJoined' = chatJoined \ {c} /\ UNCHANGED <<room, joined>>
     \/ /\ c \in Tokens \cap (room \cup chat)
        /\ room' = room \ {c} /\ chat' = chat \ {c} /\ UNCHANGED <<joined, chatJoined>>
  /\ UNCHANGED <<sock, quiet, tokens, gone, messages, bans, told, command, left>>

LeaveBoth(c) ==
  /\ room' = LeftRoom(c) /\ chat' = LeftChat(c)
  /\ joined' = joined \ {c} /\ chatJoined' = chatJoined \ {c}
  /\ UNCHANGED <<tokens, gone, messages, bans, told, command, left>>

\* a close frame: the server leaves the rooms and ends its side
CloseFrame(c) ==
  /\ Talks(c) /\ sock[c] = "open"
  /\ sock' = [sock EXCEPT ![c] = "closing"]
  /\ LeaveBoth(c) /\ UNCHANGED quiet

\* the events "end", "error" and "close" of the socket
Closed(c) ==
  /\ Talks(c)
  /\ sock' = [sock EXCEPT ![c] = "closed"] /\ quiet' = quiet \ {c}
  /\ LeaveBoth(c)

\* nothing is heard of c for a while: its peer has vanished, or is slow
SilentFor(c) == (c \in gone /\ UNCHANGED left) \/ (c \notin gone /\ Uses("slow"))

\* the heartbeat timer: a socket that has not answered the last ping is
\* destroyed, and pinged otherwise (a ping that is answered changes nothing)
Heartbeat(c) ==
  /\ sock[c] # "closed"
  /\ \/ /\ c \in quiet
        /\ sock' = [sock EXCEPT ![c] = "closed"] /\ quiet' = quiet \ {c}
        /\ LeaveBoth(c)
     \/ /\ c \notin quiet /\ quiet' = quiet \cup {c}
        /\ SilentFor(c)
        /\ UNCHANGED <<sock, joined, chatJoined, tokens, gone, room, chat, messages, bans, told,
                       command>>

Pong(c) ==
  /\ Talks(c) /\ c \in quiet /\ quiet' = quiet \ {c}
  /\ UNCHANGED <<sock, joined, chatJoined, tokens, gone, room, chat, messages, bans, told,
                 command, left>>

\* a laptop put to sleep, a closed tab: nothing more is heard of the session
Vanish(c) ==
  /\ Talks(c) /\ c \in room \cup chat /\ gone' = gone \cup {c} /\ Uses("vanish")
  /\ UNCHANGED <<sockets, tokens, room, chat, messages, bans, told, command>>

\* POLL_TIMEOUT_MS passes without a request of a polling member
GrowStale(c) ==
  /\ c \in (room \cup chat) \ stale /\ stale' = stale \cup {c} /\ SilentFor(c)
  /\ UNCHANGED <<sockets, used, gone, room, chat, messages, bans, told, command>>

\* the sweep timer drops the stale polling members, and the numbering of a chat
\* without history and members
SweepPresence == \* (mutated: forgets the chat room)
  /\ stale \cap (room \cup chat) # {}
  /\ room' = room \ stale
  /\ UNCHANGED <<sockets, tokens, gone, chat, messages, bans, told, command, left>>

Sweep ==
  /\ stale \cap (room \cup chat) # {}
  /\ room' = room \ stale /\ chat' = chat \ stale
  /\ counter' = Counted(history, chat')
  /\ UNCHANGED <<sockets, tokens, gone, history, cursor, handed, spoke, sent, bans, told, command,
                 left>>

-----------------------------------------------------------------------------
(* Chat *)

\* restrictions.muteOf(member.visit || 'c:' + connId)
MuteKey(c) == IF Visit[c] # None THEN Visit[c] ELSE c
Muted(c)   == \E m \in mutes : m.key = MuteKey(c)

Trimmed(hist) == IF Len(hist) > HistoryLimit THEN Tail(hist) ELSE hist

\* sendChatMessage; the message is pushed to the WebSocket members
Send(c) ==
  /\ Talks(c) /\ c \in chat /\ ~ Muted(c) /\ Uses("sends")
  /\ sent' = sent + 1 /\ counter' = counter + 1
  /\ history' = Trimmed(Append(history, [id |-> sent', seq |-> counter', from |-> c]))
  /\ cursor' = [cursor EXCEPT ![c] = counter']
  /\ handed' = [t \in Tokens |-> IF t = c THEN handed[c] \cup {sent'} ELSE handed[t]]
  /\ spoke' = spoke \cup {c} /\ stale' = stale \ {c}
  /\ UNCHANGED <<sockets, used, gone, room, chat, bans, told, command>>

\* a send that is refused (muted, too soon, empty, blocked) still counts as activity
RefusedSend(c) ==
  /\ Talks(c) /\ c \in chat /\ stale' = stale \ {c}
  /\ UNCHANGED <<sockets, used, gone, room, chat, messages, bans, told, command, left>>

\* pollChatSync: what is newer than the cursor, by its place in the history
Newer(c) == {i \in DOMAIN history : history[i].seq > cursor[c]}

\* a message passes CHAT_HISTORY_TTL_MS and is dropped at the next look at the history
Forget ==
  /\ history # <<>> /\ Uses("lapses")
  /\ history' = Tail(history) /\ counter' = Counted(history', chat)
  /\ UNCHANGED <<sockets, tokens, gone, room, chat, cursor, handed, spoke, sent, bans, told,
                 command>>

\* POST poll/sync and poll/chat-sync of a member
Sync(c) ==
  /\ Talks(c) /\ c \in room \cup chat
  /\ stale' = stale \ {c}
  /\ \/ /\ c \in chat
        /\ \E last \in Newer(c) :
             /\ \A i \in Newer(c) : i <= last
             /\ cursor' = [cursor EXCEPT ![c] = history[last].seq]
        /\ handed' = [handed EXCEPT ![c] = @ \cup {history[i].id : i \in Newer(c)}]
     \/ /\ c \notin chat \/ Newer(c) = {}
        /\ UNCHANGED <<cursor, handed>>
  /\ UNCHANGED <<sockets, used, gone, room, chat, history, counter, spoke, sent, bans, told,
                 command, left>>

\* unknownSession: "removed" for the token of a removed session, for others
\* "unknown", at which the wallet joins again (viewer.js)
AskUnknown(c) ==
  /\ Talks(c) /\ c \in used \ (room \cup chat) /\ told[c] = None
  /\ told' = [told EXCEPT ![c] =
       IF \E t \in tombs : t.token = c THEN "removed" ELSE "unknown"]
  /\ UNCHANGED <<sockets, tokens, gone, room, chat, messages, bans, command, left>>

-----------------------------------------------------------------------------
(* Moderation *)

\* a participant of the roster: a visit, or a session without a visit id in one
\* of the two rooms (collectGroups)
Participants ==
  {[in |-> "both", key |-> v] : v \in Visits} \cup
  {[in |-> i, key |-> c] : i \in {"presence", "chat"}, c \in {d \in Sessions : Visit[d] = None}}

OfParticipant(p, members) ==
  {c \in members : p.key \in {Visit[c], c}}

InRoom(p) == IF p.in = "chat" THEN {} ELSE OfParticipant(p, room)
InChat(p) == IF p.in = "presence" THEN {} ELSE OfParticipant(p, chat)
Present(p) == InRoom(p) \cup InChat(p) # {}

Full(key, keys) == key \notin keys /\ Cardinality(mutes) + Cardinality(kicks) >= MaxRestrictions

\* addTomb: the oldest go when there are too many; the sessions of one command
\* are buried in any order
Kept(all) ==
  IF Cardinality(all) > MaxTombs
  THEN {keep \in SUBSET all : /\ Cardinality(keep) = MaxTombs
                             /\ \A g \in all \ keep, k \in keep : g.from <= k.from}
  ELSE {all}

\* removeGroup: every session of the visit (or the one session), in both rooms
DoomedOne(p) == \* (mutated: only the sessions the roster entry was made from)
  LET one(S) == IF S = {} THEN {} ELSE {CHOOSE c \in S : TRUE}
  IN  <<one(InRoom(p)), one(InChat(p))>>
Doomed(p) == <<InRoom(p), InChat(p)>>

\* the tombstones of the sessions removed, by the key that was kicked; `from`
\* sessions had been removed by earlier commands
GravesOfRoom(key, out) == \* (mutated: of presence only)
  {[token |-> c, key |-> key, from |-> buried] : c \in out \cap Tokens \cap room}
Graves(key, out) == {[token |-> c, key |-> key, from |-> buried] : c \in out \cap Tokens}

\* onRemoved: the connection of a removed member forgets that it had joined
KeepsFlags(flags, out) == flags \* (mutated: it believes that it still is a member)
FlagsLeft(flags, out) == flags \ out

Kick(p) ==
  LET doomed == Doomed(p)
      out    == doomed[1] \cup doomed[2]
  IN  /\ kicks' = kicks \cup {p.key}
      /\ room' = room \ doomed[1] /\ chat' = chat \ doomed[2]
      /\ joined' = FlagsLeft(joined, doomed[1]) /\ chatJoined' = FlagsLeft(chatJoined, doomed[2])
      /\ tombs' \in Kept(tombs \cup Graves(p.key, out))
      /\ buried' = buried + Cardinality(out \cap Tokens)
      /\ removed' = removed \cup {[token |-> c, key |-> p.key, from |-> buried] : c \in out \cap Tokens}
      /\ UNCHANGED mutes

\* muteKeyOf: a visit, or the chat session; None for a session only in presence
MuteKeyOfSession(p) == \* (mutated: the chat session, even of a visit)
  IF p.in = "both" /\ InChat(p) # {} THEN CHOOSE c \in InChat(p) : TRUE
  ELSE IF p.in = "presence" THEN None ELSE p.key
MuteKeyOf(p) == IF p.in = "presence" THEN None ELSE p.key

Unmuted(key) == {m \in mutes : m.key # key}

\* executeModerationCommand
CarryOut(op, p) ==
  \/ /\ op = "kick" /\ ~ Full(p.key, kicks) /\ Kick(p)
  \/ /\ op = "mute" /\ MuteKeyOf(p) # None
     /\ ~ Full(MuteKeyOf(p), {m.key : m \in mutes})
     /\ mutes' = Unmuted(MuteKeyOf(p)) \cup {[key |-> MuteKeyOf(p), who |-> p.key]}
     /\ UNCHANGED <<room, chat, joined, chatJoined, kicks, tombs, removed, buried>>
  \/ /\ op = "unmute" /\ MuteKeyOf(p) # None
     /\ mutes' = Unmuted(MuteKeyOf(p))
     /\ UNCHANGED <<room, chat, joined, chatJoined, kicks, tombs, removed, buried>>

Refusable(op, p) ==
  \/ ~ Present(p)
  \/ op = "kick" /\ Full(p.key, kicks)
  \/ op # "kick" /\ MuteKeyOf(p) = None
  \/ op = "mute" /\ Full(MuteKeyOf(p), {m.key : m \in mutes})

untouched == <<sock, quiet, tokens, gone, messages, told, left>>

\* a moderator signs a request about somebody in the roster and sends it; a
\* request sent twice is the same request
Command(h) ==
  /\ h \in left.calls /\ left' = [left EXCEPT !.calls = @ \ {h}]
  /\ call' = [call EXCEPT ![h] = "verifying"]
  /\ \/ /\ want[Request[h]] = None
        /\ \E p \in Participants, op \in {"kick", "mute", "unmute"} :
             /\ Present(p)
             /\ want' = [want EXCEPT ![Request[h]] = [op |-> op, target |-> p]]
     \/ want[Request[h]] # None /\ UNCHANGED want
  /\ UNCHANGED <<sockets, tokens, gone, room, chat, messages, bans, told, nonces, writable>>

\* authorize, after its last await: the nonce is looked up and spent at once
MayPass(h) == Request[h] \notin nonces

Authorize(h) ==
  /\ call[h] = "verifying"
  /\ \/ /\ MayPass(h)
        /\ call' = [call EXCEPT ![h] = "granted"] /\ nonces' = nonces \cup {Request[h]}
     \/ /\ ~ MayPass(h)
        /\ call' = [call EXCEPT ![h] = "refused"] /\ UNCHANGED nonces
  /\ UNCHANGED <<sockets, tokens, gone, room, chat, messages, bans, told, want, writable, left>>

\* handleModeration, the rest: no command without a log that can be opened
Execute(h) ==
  LET r == Request[h] IN
  /\ call[h] = "granted"
  /\ \/ /\ writable /\ Present(want[r].target) /\ CarryOut(want[r].op, want[r].target)
        /\ call' = [call EXCEPT ![h] = "done"]
     \/ /\ ~ writable \/ Refusable(want[r].op, want[r].target)
        /\ call' = [call EXCEPT ![h] = "refused"]
        /\ UNCHANGED <<room, chat, joined, chatJoined, bans>>
  /\ UNCHANGED <<want, nonces, writable, untouched>>

\* the audit log becomes unwritable, or writable again
DiskChanges ==
  /\ Uses("disk") /\ writable' = ~ writable
  /\ UNCHANGED <<sockets, tokens, gone, room, chat, messages, bans, told, call, want, nonces>>

\* durationSeconds pass: the kick and what its sessions left behind end together
KickLapses ==
  /\ Uses("lapses")
  /\ \E k \in kicks :
       /\ kicks' = kicks \ {k}
       /\ tombs' = {t \in tombs : t.key # k}
       /\ removed' = {t \in removed : t.key # k}
  /\ UNCHANGED <<sockets, tokens, gone, room, chat, messages, mutes, buried, told, command>>

MuteLapses ==
  /\ Uses("lapses")
  /\ \E m \in mutes : mutes' = mutes \ {m}
  /\ UNCHANGED <<sockets, tokens, gone, room, chat, messages, kicks, tombs, removed, buried, told,
                 command>>

-----------------------------------------------------------------------------
Next ==
  \/ \E c \in Sessions : Join(c) \/ JoinChat(c) \/ Leave(c) \/ Vanish(c) \/ Send(c)
  \/ \E c \in Sockets : CloseFrame(c) \/ Closed(c) \/ Heartbeat(c) \/ Pong(c)
  \/ \E c \in Tokens : GrowStale(c) \/ Sync(c) \/ RefusedSend(c) \/ AskUnknown(c)
  \/ \E h \in Calls : Command(h) \/ Authorize(h) \/ Execute(h)
  \/ Sweep \/ Forget \/ DiskChanges \/ KickLapses \/ MuteLapses

Spec == Init /\ [][Next]_vars

\* The timers of the process run, and time passes.
Fairness ==
  /\ \A c \in Sockets : WF_vars(Heartbeat(c))
  /\ \A c \in Tokens : WF_vars(GrowStale(c))
  /\ WF_vars(Sweep)

FairSpec == Spec /\ Fairness

-----------------------------------------------------------------------------
TypeOK ==
  /\ sock \in [Sockets -> {"open", "closing", "closed"}] /\ quiet \subseteq Sockets
  /\ used \subseteq Tokens /\ stale \subseteq Tokens /\ gone \subseteq Sessions
  /\ room \subseteq Sessions /\ chat \subseteq Sessions
  /\ joined = room \cap Sockets /\ chatJoined = chat \cap Sockets
  /\ \A c \in joined \cup chatJoined : sock[c] # "closed"
  /\ Len(history) <= HistoryLimit /\ counter \in 0..sent
  /\ \A i \in DOMAIN history : history[i] \in [id : 1..sent, seq : 1..counter, from : Sessions]
  /\ cursor \in [Sessions -> 0..sent]
  /\ kicks \subseteq Keys /\ mutes \subseteq [key : Keys, who : Keys]
  /\ Cardinality(kicks) + Cardinality(mutes) <= MaxRestrictions
  /\ tombs \subseteq removed /\ removed \subseteq [token : used, key : Keys, from : 0..buried]
  /\ Cardinality(tombs) <= MaxTombs
  /\ call \in [Calls -> {"new", "verifying", "granted", "done", "refused"}]
  /\ nonces \subseteq Requests

\* While a visit is kicked, none of its sessions is in presence or chat,
\* whichever transport it uses and however many it had (removeGroup, addMember,
\* joinChatRoom).
KickedStaysOut == \A c \in room \cup chat : Visit[c] \notin kicks

\* A participant who has been muted says nothing, in the session they had or
\* in another one, until the mute lapses or is lifted.
MutedIsSilent ==
  [][sent' # sent => \A m \in mutes :
       Last(history').from # m.who /\ Visit[Last(history').from] # m.who]_vars

\* A polling session that a moderator removed is told so, for as long as the
\* kick lasts and fewer than MaxTombs other sessions have been removed by the
\* same command or later ones: told that it is unknown, the wallet would join
\* again by itself.
RemovedIsTold ==
  [][\A c \in Tokens : told[c] = None /\ told'[c] = "unknown" =>
       \A t \in removed : t.token = c => buried - t.from > MaxTombs]_vars

\* `cursor`, "the seq of the newest message already delivered": no message up to
\* it that is still in the history is one the member was not given, unless it has
\* written: its own message takes its cursor past what it has not fetched yet.
Skipped(c) == {m \in Range(history) : m.seq <= cursor[c] /\ m.id \notin handed[c]}
ListenerMissesNothing == \A c \in (chat \cap Tokens) \ spoke : Skipped(c) = {}

\* The seat of a session whose peer has vanished becomes free.
SeatsAreReleased == \A c \in Sessions : c \in gone ~> c \notin room \cup chat

===============================================================================
