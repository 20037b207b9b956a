---------------------------- MODULE PresenceProofs ----------------------------
(***************************************************************************)
(* Theorems about Presence, for every set of sessions, visits and          *)
(* moderation calls, every limit, and any number of joins, messages,       *)
(* commands and lapses: `Scenarios` bounds what one behaviour does, and    *)
(* may be any set of numbers.                                              *)
(***************************************************************************)
EXTENDS Presence, FiniteSetTheorems, TLAPS

Commands == [op : {"kick", "mute", "unmute"}, target : Participants]

\* A moderation call that is under way has been made, about somebody.
Asked ==
  /\ call \in [Calls -> {"new", "verifying", "granted", "done", "refused"}]
  /\ want \in [Requests -> Commands \cup {None}]
  /\ \A h \in Calls : call[h] \in {"verifying", "granted"} => want[Request[h]] \in Commands

\* What is kicked is a visit or a session, and so is what is muted: a session
\* only if it has no visit, and under the name the sender will be looked up by.
Named ==
  /\ room \subseteq Sessions /\ chat \subseteq Sessions /\ kicks \subseteq Keys
  /\ \A m \in mutes : m.key = m.who /\ m.who \in Keys /\ (m.who \in Sessions => Visit[m.who] = None)

Message == [id : Nat, seq : Nat, from : Sessions]

\* The messages, and how far the members of the chat are.
Numbered ==
  /\ history \in Seq(Message) /\ counter \in Nat /\ sent \in Nat
  /\ \A i \in DOMAIN history : history[i].seq <= counter
  /\ cursor \in [Sessions -> Nat] /\ \A c \in chat : cursor[c] <= counter
  /\ DOMAIN handed = Tokens

PresenceInv == Asked /\ Named /\ Numbered /\ KickedStaysOut /\ ListenerMissesNothing

-----------------------------------------------------------------------------
(* What an action that does not touch a part leaves true of it.            *)

LEMMA AskedKept ==
  ASSUME Asked, UNCHANGED <<call, want>> PROVE Asked'
BY DEF Asked

\* members leave, and nobody is kicked or muted anew
LEMMA NamedKept ==
  ASSUME Named, KickedStaysOut, room' \subseteq room, chat' \subseteq chat,
         kicks' \subseteq kicks, mutes' \subseteq mutes
  PROVE  Named' /\ KickedStaysOut'
BY DEF Named, KickedStaysOut

\* members leave, and the numbering starts again only without any
LEMMA NumberedKept ==
  ASSUME Numbered, ListenerMissesNothing, UNCHANGED <<history, cursor, handed, spoke, sent>>,
         chat' \subseteq chat, counter' = counter \/ counter' = Counted(history, chat')
  PROVE  Numbered' /\ ListenerMissesNothing'
<1>1. counter' = counter \/ (counter' = 0 /\ history = <<>> /\ chat' = {}) BY DEF Counted
<1>2. Numbered' BY <1>1 DEF Numbered
<1>3. ListenerMissesNothing' BY DEF ListenerMissesNothing, Skipped
<1> QED BY <1>2, <1>3

\* A participant of the roster is a visit, or a session without one.
LEMMA ParticipantKey ==
  ASSUME NEW p \in Participants
  PROVE  \/ p.in = "both" /\ p.key \in Visits
         \/ p.in \in {"presence", "chat"} /\ p.key \in Sessions /\ Visit[p.key] = None
BY DEF Participants

LEMMA MessagesOf ==
  ASSUME NEW s \in Seq(Message)
  PROVE  /\ DOMAIN s = 1..Len(s) /\ Len(s) \in Nat
         /\ \A i \in DOMAIN s : s[i] \in Message /\ s[i].seq \in Nat
<1>1. DOMAIN s = 1..Len(s) /\ Len(s) \in Nat /\ \A i \in DOMAIN s : s[i] \in Message OBVIOUS
<1>2. \A x \in Message : x.seq \in Nat BY DEF Message
<1> QED BY <1>1, <1>2

-----------------------------------------------------------------------------
\* Nobody of a kicked visit remains, in either room and by either transport.
LEMMA KickEmpties ==
  ASSUME PresenceAssumption, Named, KickedStaysOut, NEW p \in Participants, Kick(p)
  PROVE  /\ room' \subseteq room /\ chat' \subseteq chat /\ UNCHANGED mutes
         /\ kicks' \subseteq Keys /\ KickedStaysOut'
<1>1. /\ room' = room \ InRoom(p) /\ chat' = chat \ InChat(p) /\ kicks' = kicks \cup {p.key}
      /\ UNCHANGED mutes
  BY DEF Kick, Doomed
<1>2. p.key \in Keys BY ParticipantKey DEF Keys
<1>3. ASSUME NEW c \in room' \cup chat' PROVE Visit[c] # p.key
  <2>1. CASE p.in = "both" BY <1>1, <1>3, <2>1 DEF InRoom, InChat, OfParticipant
  <2>2. CASE p.in # "both"
    <3>1. p.key \in Sessions BY <2>2, ParticipantKey
    <3>2. c \in Sessions BY <1>1, <1>3 DEF Named
    <3> QED BY <3>1, <3>2 DEF PresenceAssumption, Keys
  <2> QED BY <2>1, <2>2
<1> QED BY <1>1, <1>2, <1>3 DEF Named, KickedStaysOut

LEMMA JoinNext ==
  ASSUME PresenceAssumption, PresenceInv, NEW c \in Sessions, Join(c) \/ JoinChat(c)
  PROVE  PresenceInv'
<1> USE DEF PresenceInv
<1>1. /\ UNCHANGED <<call, want, kicks, mutes, history, sent, spoke>> /\ ~ Kicked(c)
      /\ room' \subseteq room \cup {c} /\ chat' \subseteq chat \cup {c}
  BY DEF Join, JoinChat, bans, command, messages
<1>2. Asked' BY <1>1, AskedKept
<1>3. Named' /\ KickedStaysOut' BY <1>1 DEF Named, KickedStaysOut, Kicked
<1>4. CASE Join(c)
  <2>1. UNCHANGED <<messages, chat>> BY <1>4 DEF Join
  <2>2. Numbered' /\ ListenerMissesNothing' BY <2>1, NumberedKept DEF messages
  <2> QED BY <1>2, <1>3, <2>2
<1>5. CASE JoinChat(c)
  <2>1. /\ counter' = Counted(history, chat) /\ cursor' = [cursor EXCEPT ![c] = Newest(history)]
        /\ handed' = [t \in Tokens |-> IF t = c THEN Ids(history) ELSE handed[t]]
        /\ chat' = chat \cup {c}
    BY <1>5 DEF JoinChat
  <2>2. \/ counter' = counter
        \/ history = <<>> /\ chat = {} /\ counter' = 0
    BY <2>1 DEF Counted
  <2>3. Newest(history) \in Nat /\ Newest(history) <= counter'
    <3>1. CASE history = <<>> BY <2>2, <3>1 DEF Newest, Numbered
    <3>2. CASE history # <<>>
      <4>1. Len(history) \in DOMAIN history /\ counter' = counter BY <2>2, <3>2 DEF Numbered
      <4> QED BY <3>2, <4>1, MessagesOf DEF Newest, Last, Numbered
    <3> QED BY <3>1, <3>2
  <2>4. Numbered' BY <1>1, <2>1, <2>2, <2>3 DEF Numbered
  <2>5. ListenerMissesNothing'
    <3>1. ASSUME NEW d \in chat' \cap Tokens, d \notin spoke' PROVE Skipped(d)' = {}
      <4>1. CASE d = c BY <1>1, <2>1, <4>1 DEF Skipped, Ids, Range
      <4>2. CASE d # c
        <5>1. d \in chat /\ cursor'[d] = cursor[d] /\ handed'[d] = handed[d]
          BY <2>1, <3>1, <4>2 DEF Numbered
        <5> QED BY <1>1, <3>1, <5>1 DEF Skipped, ListenerMissesNothing
      <4> QED BY <4>1, <4>2
    <3> QED BY <3>1 DEF ListenerMissesNothing
  <2> QED BY <1>2, <1>3, <2>4, <2>5
<1> QED BY <1>4, <1>5

\* Members leave by themselves, fall silent or are swept.
LEMMA LeaveNext ==
  ASSUME PresenceInv,
         \/ \E c \in Sessions : Leave(c) \/ Vanish(c)
         \/ \E c \in Sockets : CloseFrame(c) \/ Closed(c) \/ Heartbeat(c) \/ Pong(c)
         \/ \E c \in Tokens : GrowStale(c) \/ RefusedSend(c) \/ AskUnknown(c)
         \/ Sweep \/ DiskChanges \/ KickLapses \/ MuteLapses \/ UNCHANGED vars
  PROVE  PresenceInv'
<1> USE DEF PresenceInv, messages, bans, command
<1>1. /\ UNCHANGED <<call, want, history, cursor, handed, spoke, sent>>
      /\ room' \subseteq room /\ chat' \subseteq chat /\ kicks' \subseteq kicks /\ mutes' \subseteq mutes
      /\ counter' = counter \/ counter' = Counted(history, chat')
  BY DEF Leave, Vanish, CloseFrame, Closed, Heartbeat, LeaveBoth, LeftRoom, LeftChat, Pong, GrowStale,
         RefusedSend, AskUnknown, Sweep, DiskChanges, KickLapses, MuteLapses, vars, rest
<1> QED BY <1>1, AskedKept, NamedKept, NumberedKept

-----------------------------------------------------------------------------
\* A message gets a number that no member has reached.
LEMMA SendNext ==
  ASSUME PresenceAssumption, PresenceInv, NEW c \in Sessions, Send(c)
  PROVE  PresenceInv' /\ Len(history') > 0 /\ Last(history').from = c
<1> USE DEF PresenceInv
<1> DEFINE m == [id |-> sent', seq |-> counter', from |-> c]
<1>1. /\ UNCHANGED <<call, want, kicks, mutes, room, chat>> /\ c \in chat
      /\ sent' = sent + 1 /\ counter' = counter + 1 /\ history' = Trimmed(Append(history, m))
      /\ cursor' = [cursor EXCEPT ![c] = counter'] /\ spoke' = spoke \cup {c}
      /\ handed' = [t \in Tokens |-> IF t = c THEN handed[c] \cup {sent'} ELSE handed[t]]
  BY DEF Send, bans, command
<1>2. Asked' /\ Named' /\ KickedStaysOut' BY <1>1, AskedKept, NamedKept
<1>3. m \in Message /\ counter' \in Nat /\ sent' \in Nat
  BY <1>1 DEF Numbered, Message
<1>4. /\ history' \in Seq(Message) /\ Len(history') > 0
      /\ history'[Len(history')] = m
      /\ \A i \in DOMAIN history' : history'[i] = m \/ \E j \in DOMAIN history : history'[i] = history[j]
  <2> DEFINE longer == Append(history, m)
  <2>1. /\ longer \in Seq(Message) /\ Len(longer) = Len(history) + 1
        /\ longer[Len(longer)] = m /\ \A i \in 1..Len(history) : longer[i] = history[i]
    BY <1>3 DEF Numbered
  <2>2. CASE Len(longer) > HistoryLimit
    <3>1. history' = Tail(longer) BY <1>1, <2>2 DEF Trimmed
    <3>2. Len(longer) > 1 BY <2>1, <2>2 DEF PresenceAssumption
    <3> HIDE DEF longer
    <3>3. /\ Tail(longer) \in Seq(Message) /\ Len(Tail(longer)) = Len(longer) - 1
          /\ \A i \in 1..Len(Tail(longer)) : Tail(longer)[i] = longer[i + 1]
      BY <2>1, <3>2
    <3>4. ASSUME NEW i \in DOMAIN history'
          PROVE  history'[i] = m \/ \E j \in DOMAIN history : history'[i] = history[j]
      <4>1. i \in 1..Len(history) /\ history'[i] = longer[i + 1]
        BY <2>1, <3>1, <3>2, <3>3, <3>4, MessagesOf DEF Numbered
      <4>2. CASE i = Len(history) BY <2>1, <4>1, <4>2
      <4>3. CASE i # Len(history)
        <5>1. i + 1 \in DOMAIN history BY <4>1, <4>3, MessagesOf DEF Numbered
        <5> QED BY <2>1, <4>1, <5>1, MessagesOf DEF Numbered
      <4> QED BY <4>2, <4>3
    <3>5. Len(history') = Len(history) /\ Len(history') > 0 BY <2>1, <3>1, <3>2, <3>3, MessagesOf DEF Numbered
    <3>6. history'[Len(history')] = m BY <2>1, <3>1, <3>2, <3>3, <3>5, MessagesOf DEF Numbered
    <3> QED BY <3>1, <3>3, <3>4, <3>5, <3>6
  <2>3. CASE ~ (Len(longer) > HistoryLimit)
    <3>1. history' = longer BY <1>1, <2>3 DEF Trimmed
    <3> HIDE DEF longer
    <3>2. ASSUME NEW i \in DOMAIN history'
          PROVE  history'[i] = m \/ \E j \in DOMAIN history : history'[i] = history[j]
      <4>1. i \in 1..(Len(history) + 1) BY <2>1, <3>1, <3>2, MessagesOf
      <4>2. CASE i = Len(history) + 1 BY <2>1, <3>1, <4>2
      <4>3. CASE i # Len(history) + 1
        <5>1. i \in DOMAIN history BY <4>1, <4>3, MessagesOf DEF Numbered
        <5> QED BY <2>1, <3>1, <5>1, MessagesOf DEF Numbered
      <4> QED BY <4>2, <4>3
    <3>3. Len(history') > 0 BY <2>1, <3>1, MessagesOf DEF Numbered
    <3> QED BY <2>1, <3>1, <3>2, <3>3
  <2> QED BY <2>2, <2>3
<1>5. Numbered'
  <2>1. \A i \in DOMAIN history : history[i].seq <= counter' BY <1>1, MessagesOf DEF Numbered
  <2>2. \A i \in DOMAIN history' : history'[i].seq <= counter' BY <1>3, <1>4, <2>1
  <2>3. counter' \in Nat /\ \A n \in Nat : n <= counter => n <= counter' BY <1>1 DEF Numbered
  <2>4. cursor' \in [Sessions -> Nat] /\ \A d \in chat' : cursor'[d] <= counter'
    BY <1>1, <2>3 DEF Numbered, Named
  <2> QED BY <1>1, <1>3, <1>4, <2>2, <2>4 DEF Numbered
<1>6. ListenerMissesNothing'
  <2>1. ASSUME NEW d \in chat' \cap Tokens, d \notin spoke', NEW x \in Range(history'),
               x.seq <= cursor'[d]
        PROVE  x.id \in handed'[d]
    <3>1. d # c /\ d \in chat /\ d \notin spoke /\ cursor'[d] = cursor[d] /\ handed'[d] = handed[d]
      BY <1>1, <2>1 DEF Numbered
    <3>2. x # m BY <1>1, <1>3, <2>1, <3>1 DEF Numbered, Sessions
    <3>3. x \in Range(history) BY <1>4, <3>2 DEF Range
    <3> QED BY <2>1, <3>1, <3>3 DEF ListenerMissesNothing, Skipped
  <2> QED BY <2>1 DEF ListenerMissesNothing, Skipped
<1>7. Last(history').from = c BY <1>4 DEF Last
<1> QED BY <1>2, <1>4, <1>5, <1>6, <1>7

\* What a member is handed is everything up to where its cursor moves.
LEMMA SyncNext ==
  ASSUME PresenceInv, NEW c \in Tokens, Sync(c) PROVE PresenceInv'
<1> USE DEF PresenceInv
<1>1. UNCHANGED <<call, want, kicks, mutes, room, chat, history, counter, spoke, sent>>
  BY DEF Sync, bans, command
<1>2. Asked' /\ Named' /\ KickedStaysOut' BY <1>1, AskedKept, NamedKept
<1>3. CASE UNCHANGED <<cursor, handed>> BY <1>1, <1>2, <1>3, NumberedKept
<1>4. CASE ~ UNCHANGED <<cursor, handed>>
  <2>1. PICK last \in Newer(c) : cursor' = [cursor EXCEPT ![c] = history[last].seq]
    BY <1>4 DEF Sync
  <2>2. handed' = [handed EXCEPT ![c] = @ \cup {history[i].id : i \in Newer(c)}] /\ c \in Sessions
    BY <1>4 DEF Sync, Sessions
  <2>3. history[last].seq \in Nat /\ history[last].seq <= counter
    BY <2>1, MessagesOf DEF Newer, Numbered
  <2>4. Numbered' BY <1>1, <2>1, <2>2, <2>3 DEF Numbered
  <2>5. ASSUME NEW d \in chat' \cap Tokens, d \notin spoke', NEW i \in DOMAIN history,
               history[i].seq <= cursor'[d]
        PROVE  history[i].id \in handed'[d]
    <3>1. history[i].seq <= cursor[d] => history[i].id \in handed[d]
      BY <1>1, <2>5 DEF ListenerMissesNothing, Skipped, Range
    <3>2. d # c => cursor'[d] = cursor[d] /\ handed'[d] = handed[d] BY <2>1, <2>2, <2>5 DEF Numbered, Sessions
    <3>3. handed'[c] = handed[c] \cup {history[j].id : j \in Newer(c)} BY <2>2 DEF Numbered
    <3>4. i \in Newer(c) \/ history[i].seq <= cursor[c] BY <2>2, <2>5, MessagesOf DEF Newer, Numbered
    <3> QED BY <2>5, <3>1, <3>2, <3>3, <3>4
  <2>6. ListenerMissesNothing' BY <1>1, <2>5 DEF ListenerMissesNothing, Skipped, Range
  <2> QED BY <1>2, <2>4, <2>6
<1> QED BY <1>3, <1>4

LEMMA ForgetNext ==
  ASSUME PresenceInv, Forget PROVE PresenceInv'
<1> USE DEF PresenceInv
<1>1. /\ UNCHANGED <<call, want, kicks, mutes, room, chat, cursor, handed, spoke, sent>>
      /\ history # <<>> /\ history' = Tail(history) /\ counter' = Counted(history', chat)
  BY DEF Forget, bans, command
<1>2. Asked' /\ Named' /\ KickedStaysOut' BY <1>1, AskedKept, NamedKept
<1>3. /\ Tail(history) \in Seq(Message)
      /\ \A i \in DOMAIN Tail(history) : i + 1 \in DOMAIN history /\ Tail(history)[i] = history[i + 1]
  BY <1>1 DEF Numbered
<1>4. counter' = counter \/ (counter' = 0 /\ history' = <<>> /\ chat = {}) BY <1>1 DEF Counted
<1>5. Numbered' BY <1>1, <1>3, <1>4 DEF Numbered
<1>6. Range(history') \subseteq Range(history) BY <1>1, <1>3 DEF Range
<1>7. ListenerMissesNothing' BY <1>1, <1>6 DEF ListenerMissesNothing, Skipped
<1> QED BY <1>2, <1>5, <1>7

-----------------------------------------------------------------------------
(* Moderation                                                              *)

LEMMA CommandNext ==
  ASSUME PresenceInv, NEW h \in Calls, Command(h) \/ Authorize(h) PROVE PresenceInv'
<1> USE DEF PresenceInv
<1>1. UNCHANGED <<kicks, mutes, room, chat, messages>>
  BY DEF Command, Authorize, bans
<1>2. Named' /\ KickedStaysOut' /\ Numbered' /\ ListenerMissesNothing'
  BY <1>1, NamedKept, NumberedKept DEF messages
<1>3. Request[h] \in Requests BY DEF Requests
<1>4. CASE Command(h)
  <2>1. /\ call' = [call EXCEPT ![h] = "verifying"]
        /\ \/ \E cmd \in Commands : want' = [want EXCEPT ![Request[h]] = cmd]
           \/ want[Request[h]] # None /\ UNCHANGED want
    BY <1>4 DEF Command, Commands
  <2>2. CASE UNCHANGED want /\ want[Request[h]] # None
    <3>1. want[Request[h]] \in Commands BY <1>3, <2>2 DEF Asked
    <3>2. Asked' BY <2>1, <2>2, <3>1 DEF Asked
    <3> QED BY <1>2, <3>2
  <2>3. CASE \E cmd \in Commands : want' = [want EXCEPT ![Request[h]] = cmd]
    <3>1. PICK cmd \in Commands : want' = [want EXCEPT ![Request[h]] = cmd] BY <2>3
    <3>2. \A g \in Calls : want'[Request[g]] = IF Request[g] = Request[h] THEN cmd ELSE want[Request[g]]
      BY <3>1 DEF Asked, Requests
    <3>3. want' \in [Requests -> Commands \cup {None}] BY <3>1 DEF Asked
    <3>4. Asked' BY <2>1, <3>2, <3>3 DEF Asked
    <3> QED BY <1>2, <3>4
  <2> QED BY <2>1, <2>2, <2>3
<1>5. CASE Authorize(h)
  <2>1. Asked' BY <1>5 DEF Authorize, Asked
  <2> QED BY <1>2, <2>1
<1> QED BY <1>4, <1>5

LEMMA ExecuteNext ==
  ASSUME PresenceAssumption, PresenceInv, NEW h \in Calls, Execute(h) PROVE PresenceInv'
<1> USE DEF PresenceInv
<1> DEFINE cmd == want[Request[h]]
<1>1. /\ cmd \in Commands /\ UNCHANGED <<want, messages>>
      /\ call' \in {[call EXCEPT ![h] = "done"], [call EXCEPT ![h] = "refused"]}
  BY DEF Execute, Asked, untouched
<1>2. Asked' BY <1>1 DEF Asked
<1>3. room' \subseteq room /\ chat' \subseteq chat => Numbered' /\ ListenerMissesNothing'
  BY <1>1, NumberedKept DEF messages
<1>4. CASE UNCHANGED <<room, chat, kicks, mutes>> BY <1>2, <1>3, <1>4, NamedKept
<1>5. CASE CarryOut(cmd.op, cmd.target)
  <2> DEFINE p == cmd.target
  <2>1. p \in Participants BY <1>1 DEF Commands
  <2>2. CASE Kick(p)
    <3>1. /\ room' \subseteq room /\ chat' \subseteq chat /\ UNCHANGED mutes
          /\ kicks' \subseteq Keys /\ KickedStaysOut'
      BY <2>1, <2>2, KickEmpties
    <3>2. Named' BY <3>1 DEF Named
    <3> QED BY <1>2, <1>3, <3>1, <3>2
  <2>3. CASE /\ MuteKeyOf(p) # None /\ UNCHANGED <<room, chat, kicks>>
             /\ \/ mutes' = Unmuted(MuteKeyOf(p)) \cup {[key |-> MuteKeyOf(p), who |-> p.key]}
                \/ mutes' = Unmuted(MuteKeyOf(p))
    <3>1. MuteKeyOf(p) = p.key BY <2>3 DEF MuteKeyOf
    <3>2. p.key \in Keys /\ (p.key \in Sessions => Visit[p.key] = None)
      BY <2>1, ParticipantKey DEF Keys, PresenceAssumption
    <3>3. Named' BY <2>3, <3>1, <3>2 DEF Named, Unmuted
    <3>4. KickedStaysOut' BY <2>3 DEF KickedStaysOut
    <3> QED BY <1>2, <1>3, <2>3, <3>3, <3>4
  <2> QED BY <1>5, <2>2, <2>3 DEF CarryOut
<1> QED BY <1>4, <1>5 DEF Execute, bans

-----------------------------------------------------------------------------
LEMMA PresenceInit == ASSUME Init PROVE PresenceInv
<1>1. Asked /\ Named /\ KickedStaysOut BY DEF Init, Asked, Named, KickedStaysOut
<1>2. Numbered /\ ListenerMissesNothing BY DEF Init, Numbered, ListenerMissesNothing
<1> QED BY <1>1, <1>2 DEF PresenceInv

LEMMA PresenceNext ==
  ASSUME PresenceAssumption, PresenceInv, [Next]_vars PROVE PresenceInv'
BY JoinNext, LeaveNext, SendNext, SyncNext, ForgetNext, CommandNext, ExecuteNext DEF Next

\* As long as a visit is kicked, none of its sessions is in presence or chat:
\* not one that was there, not one that joins, over either transport
\* (removeGroup, addMember, joinChatRoom).
THEOREM KickedOut == Spec => []KickedStaysOut
<1>1. Init => PresenceInv BY PresenceInit
<1>2. PresenceInv /\ [Next]_vars => PresenceInv' BY PresenceNext, PresenceAssumption
<1>3. PresenceInv => KickedStaysOut BY DEF PresenceInv
<1> QED BY <1>1, <1>2, <1>3, PTL DEF Spec

\* A polling member who only listens has been handed every message up to its
\* cursor that the history still holds (pollChatSync, pruneChatHistory).
THEOREM ListenersAreServed == Spec => []ListenerMissesNothing
<1>1. Init => PresenceInv BY PresenceInit
<1>2. PresenceInv /\ [Next]_vars => PresenceInv' BY PresenceNext, PresenceAssumption
<1>3. PresenceInv => ListenerMissesNothing BY DEF PresenceInv
<1> QED BY <1>1, <1>2, <1>3, PTL DEF Spec

\* Nobody the moderator muted is the sender of a new message, in whichever
\* session (muteKeyOf, muteOf).
THEOREM MutedAreSilent == Spec => MutedIsSilent
<1> DEFINE Quiet == sent' # sent => \A m \in mutes :
                      Last(history').from # m.who /\ Visit[Last(history').from] # m.who
<1>1. Init => PresenceInv BY PresenceInit
<1>2. PresenceInv /\ [Next]_vars => PresenceInv' BY PresenceNext, PresenceAssumption
<1>3. PresenceInv /\ [Next]_vars => [Quiet]_vars
  <2> SUFFICES ASSUME PresenceInv, Next, sent' # sent, NEW m \in mutes
               PROVE  Last(history').from # m.who /\ Visit[Last(history').from] # m.who
    OBVIOUS
  <2>1. PICK c \in Sessions : Send(c)
    BY DEF Next, Join, JoinChat, Leave, CloseFrame, Closed, Heartbeat, LeaveBoth, Vanish, Pong, GrowStale,
           Sync, RefusedSend, AskUnknown, Command, Authorize, Execute, untouched, Sweep, Forget,
           DiskChanges, KickLapses, MuteLapses, messages
  <2>2. Last(history').from = c BY <2>1, SendNext, PresenceAssumption
  <2>3. m.key # MuteKey(c) BY <2>1 DEF Send, Muted
  <2>4. m.key = m.who /\ m.who \in Keys /\ (m.who \in Sessions => Visit[m.who] = None)
    BY DEF PresenceInv, Named
  <2> QED BY <2>2, <2>3, <2>4, PresenceAssumption DEF MuteKey, PresenceAssumption
<1> QED BY <1>1, <1>2, <1>3, PTL DEF Spec, MutedIsSilent

-----------------------------------------------------------------------------
(* Tombstones                                                              *)

Grave == [token : Tokens, key : Keys, from : Nat]

\* Of the sessions removed from the m-th on, at most `n` - m have a stone.
Sparse(stones, n) == \A m \in 0..n : Cardinality({t \in stones : t.from >= m}) <= n - m

\* The stones kept, and that the youngest MaxTombs removals are among them.
Graveyard ==
  /\ buried \in Nat /\ removed \subseteq [token : used, key : Keys, from : 0..buried]
  /\ tombs \subseteq removed /\ IsFiniteSet(tombs) /\ Cardinality(tombs) <= MaxTombs
  /\ Sparse(tombs, buried)
  /\ \A t \in removed : buried - t.from <= MaxTombs => t \in tombs

\* Who is a member, by the rooms and by the connection's own flags.
Seated ==
  /\ sock \in [Sockets -> {"open", "closing", "closed"}] /\ quiet \subseteq Sockets
  /\ used \subseteq Tokens /\ stale \subseteq Tokens /\ gone \subseteq Sessions
  /\ room \subseteq Sessions /\ IsFiniteSet(room) /\ chat \subseteq Sessions /\ IsFiniteSet(chat)
  /\ joined = room \cap Sockets /\ chatJoined = chat \cap Sockets
  /\ \A c \in joined \cup chatJoined : sock[c] # "closed"
  /\ (room \cup chat) \cap Tokens \subseteq used

LEMMA SparseSubset ==
  ASSUME NEW all, IsFiniteSet(all), NEW n \in Nat, Sparse(all, n), NEW keep \in SUBSET all
  PROVE  IsFiniteSet(keep) /\ Cardinality(keep) \in Nat /\ Sparse(keep, n)
<1>1. IsFiniteSet(keep) /\ Cardinality(keep) \in Nat BY FS_Subset, FS_CardinalityType
<1>2. ASSUME NEW m \in 0..n PROVE Cardinality({t \in keep : t.from >= m}) <= n - m
  <2> DEFINE A == {t \in all : t.from >= m}
             K == {t \in keep : t.from >= m}
  <2>1. IsFiniteSet(A) /\ Cardinality(A) \in Nat BY FS_Subset, FS_CardinalityType
  <2>2. K \in SUBSET A OBVIOUS
  <2> HIDE DEF K, A
  <2>3. Cardinality(K) <= Cardinality(A) /\ IsFiniteSet(K) BY <2>1, <2>2, FS_Subset
  <2>4. Cardinality(K) \in Nat BY <2>3, FS_CardinalityType
  <2>5. Cardinality(A) <= n - m BY DEF Sparse, A
  <2>6. Cardinality(K) <= n - m BY <2>1, <2>3, <2>4, <2>5
  <2> QED BY <2>6 DEF K
<1> QED BY <1>1, <1>2 DEF Sparse

\* What goes when there are too many was removed long enough ago.
LEMMA OldestGo ==
  ASSUME PresenceAssumption, NEW all \in SUBSET Grave, IsFiniteSet(all), NEW n \in Nat, Sparse(all, n),
         NEW keep \in Kept(all)
  PROVE  /\ keep \subseteq all /\ IsFiniteSet(keep) /\ Cardinality(keep) <= MaxTombs /\ Sparse(keep, n)
         /\ \A t \in all : t.from <= n /\ n - t.from <= MaxTombs => t \in keep
<1>1. keep \in SUBSET all BY DEF Kept
<1>2. IsFiniteSet(keep) /\ Cardinality(keep) \in Nat /\ Sparse(keep, n) BY <1>1, SparseSubset
<1>3. MaxTombs \in Nat /\ Cardinality(all) \in Nat BY FS_CardinalityType DEF PresenceAssumption
<1>4. Cardinality(keep) <= MaxTombs BY <1>3 DEF Kept
<1>5. ASSUME NEW t \in all, t.from <= n, n - t.from <= MaxTombs, t \notin keep PROVE FALSE
  <2>1. Cardinality(keep) = MaxTombs /\ \A k \in keep : t.from <= k.from BY <1>5 DEF Kept
  <2> DEFINE Younger == {u \in all : u.from >= t.from}
             More    == keep \cup {t}
  <2>2. t.from \in 0..n /\ t.from \in Nat BY <1>5 DEF Grave
  <2>3. More \in SUBSET Younger BY <1>1, <2>1, <2>2 DEF Grave
  <2>4. IsFiniteSet(Younger) /\ Cardinality(Younger) \in Nat BY FS_Subset, FS_CardinalityType
  <2>5. Cardinality(Younger) <= n - t.from BY <2>2 DEF Sparse
  <2>6. Cardinality(More) = MaxTombs + 1 BY <1>2, <1>5, <2>1, FS_AddElement
  <2> HIDE DEF Younger, More
  <2>7. Cardinality(More) <= Cardinality(Younger) BY <2>3, <2>4, FS_Subset
  <2> QED BY <1>3, <1>5, <2>2, <2>4, <2>5, <2>6, <2>7
<1> QED BY <1>1, <1>2, <1>4, <1>5

\* A command digs as many graves as it removes polling sessions.
LEMMA GravesDug ==
  ASSUME NEW key \in Keys, NEW out, IsFiniteSet(out), buried \in Nat
  PROVE  /\ Graves(key, out) \subseteq [token : out \cap Tokens, key : Keys, from : {buried}]
         /\ IsFiniteSet(Graves(key, out)) /\ Cardinality(out \cap Tokens) \in Nat
         /\ Cardinality(Graves(key, out)) \in Nat
         /\ Cardinality(Graves(key, out)) <= Cardinality(out \cap Tokens)
<1> DEFINE D == out \cap Tokens
           G == Graves(key, out)
           f == [c \in D |-> [token |-> c, key |-> key, from |-> buried]]
<1>1. IsFiniteSet(D) /\ Cardinality(D) \in Nat BY FS_Subset, FS_CardinalityType
<1>2. G = {f[c] : c \in D} BY DEF Graves
<1>3. f \in Surjection(D, G) BY <1>2 DEF Surjection
<1> HIDE DEF f, G, D
<1>4. IsFiniteSet(G) /\ Cardinality(G) <= Cardinality(D) BY <1>1, <1>3, FS_Surjection
<1>5. Cardinality(G) \in Nat BY <1>4, FS_CardinalityType
<1>6. Graves(key, out) \subseteq [token : out \cap Tokens, key : Keys, from : {buried}] BY DEF Graves
<1> QED BY <1>1, <1>4, <1>5, <1>6 DEF G, D

\* The graves of one command are as many as it adds to `buried`.
LEMMA SparseUnion ==
  ASSUME NEW old \in SUBSET Grave, IsFiniteSet(old), NEW n \in Nat, Sparse(old, n),
         NEW new \in SUBSET Grave, IsFiniteSet(new), \A g \in new : g.from = n,
         NEW k \in Nat, Cardinality(new) <= k
  PROVE  Sparse(old \cup new, n + k)
<1> SUFFICES ASSUME NEW m \in 0..(n + k)
             PROVE  Cardinality({t \in old \cup new : t.from >= m}) <= (n + k) - m
  BY DEF Sparse
<1> DEFINE O == {t \in old : t.from >= m}
           A == {t \in old \cup new : t.from >= m}
<1>1. IsFiniteSet(O) /\ Cardinality(O) \in Nat BY FS_Subset, FS_CardinalityType
<1>2. Cardinality(new) \in Nat BY FS_CardinalityType
<1>3. CASE m <= n
  <2>1. A \in SUBSET (O \cup new) OBVIOUS
  <2>2. Cardinality(O) <= n - m BY <1>3 DEF Sparse
  <2> HIDE DEF A, O
  <2>3. IsFiniteSet(O \cup new) /\ Cardinality(O \cup new) \in Nat /\ Cardinality(O \cup new) <= Cardinality(O) + Cardinality(new)
    <3>1. IsFiniteSet(O \cup new) /\ Cardinality(O \cup new) = Cardinality(O) + Cardinality(new) - Cardinality(O \cap new)
      BY <1>1, FS_Union
    <3>2. Cardinality(O \cap new) \in Nat BY <1>1, FS_Intersection, FS_CardinalityType
    <3>3. Cardinality(O \cup new) \in Nat BY <3>1, FS_CardinalityType
    <3> QED BY <1>1, <1>2, <3>1, <3>2, <3>3
  <2>4. IsFiniteSet(A) /\ Cardinality(A) <= Cardinality(O \cup new) BY <2>1, <2>3, FS_Subset
  <2>5. Cardinality(A) \in Nat BY <2>4, FS_CardinalityType
  <2>6. Cardinality(A) <= (n + k) - m BY <1>1, <1>2, <1>3, <2>2, <2>3, <2>4, <2>5
  <2> QED BY <2>6 DEF A
<1>4. CASE ~ (m <= n)
  <2>1. ASSUME NEW t \in old, t.from >= m PROVE FALSE
    <3>1. t \in {u \in old : u.from >= n} BY <1>4, <2>1 DEF Grave
    <3>2. Cardinality({u \in old : u.from >= n}) <= n - n BY DEF Sparse
    <3>3. IsFiniteSet({u \in old : u.from >= n}) BY FS_Subset
    <3>4. Cardinality({u \in old : u.from >= n}) = 0 BY <3>2, <3>3, FS_CardinalityType
    <3> QED BY <3>1, <3>3, <3>4, FS_EmptySet
  <2>2. A = {} BY <1>4, <2>1 DEF Grave
  <2>3. Cardinality(A) = 0 BY <2>2, FS_EmptySet
  <2> QED BY <2>3
<1> QED BY <1>3, <1>4

LEMMA KickBuries ==
  ASSUME PresenceAssumption, Seated, Graveyard, NEW p \in Participants, Kick(p), used' = used
  PROVE  Graveyard'
<1> DEFINE out == InRoom(p) \cup InChat(p)
           G   == Graves(p.key, out)
           k   == Cardinality(out \cap Tokens)
<1>1. /\ tombs' \in Kept(tombs \cup G) /\ buried' = buried + k /\ removed' = removed \cup G
  BY DEF Kick, Doomed, Graves
<1>2. p.key \in Keys BY ParticipantKey DEF Keys
<1>3. IsFiniteSet(out) /\ out \cap Tokens \subseteq used
  <2>1. out \in SUBSET (room \cup chat) BY DEF InRoom, InChat, OfParticipant
  <2>2. IsFiniteSet(room \cup chat) BY FS_Union DEF Seated
  <2> QED BY <2>1, <2>2, FS_Subset DEF Seated
<1>4. /\ G \subseteq [token : out \cap Tokens, key : Keys, from : {buried}]
      /\ IsFiniteSet(G) /\ k \in Nat /\ Cardinality(G) <= k
  BY <1>2, <1>3, GravesDug DEF Graveyard
<1> HIDE DEF G, k, out
<1>5. tombs \in SUBSET Grave /\ G \in SUBSET Grave /\ \A g \in G : g.from = buried
  <2>1. [token : used, key : Keys, from : 0..buried] \subseteq Grave BY DEF Graveyard, Grave, Seated
  <2>2. tombs \subseteq Grave BY <2>1 DEF Graveyard
  <2>3. G \subseteq Grave BY <1>4 DEF Graveyard, Grave
  <2> QED BY <1>4, <2>2, <2>3
<1>6. Sparse(tombs \cup G, buried') BY <1>1, <1>4, <1>5, SparseUnion DEF Graveyard
<1>7. IsFiniteSet(tombs \cup G) BY <1>4, FS_Union DEF Graveyard
<1>8. buried' \in Nat /\ buried <= buried' BY <1>1, <1>4 DEF Graveyard
<1>9. /\ tombs' \subseteq tombs \cup G /\ IsFiniteSet(tombs') /\ Cardinality(tombs') <= MaxTombs
      /\ Sparse(tombs', buried')
      /\ \A t \in tombs \cup G : t.from <= buried' /\ buried' - t.from <= MaxTombs => t \in tombs'
  BY <1>1, <1>5, <1>6, <1>7, <1>8, OldestGo
<1>10. removed' \subseteq [token : used', key : Keys, from : 0..buried']
  BY <1>1, <1>3, <1>4, <1>8 DEF Graveyard
<1>11. ASSUME NEW t \in removed', buried' - t.from <= MaxTombs PROVE t \in tombs'
  <2>1. t.from \in Nat /\ t.from <= buried' BY <1>8, <1>10
  <2>2. CASE t \in G BY <1>9, <1>11, <2>1, <2>2
  <2>3. CASE t \in removed
    <3>1. buried - t.from <= MaxTombs BY <1>8, <1>11, <2>1 DEF Graveyard, PresenceAssumption
    <3> QED BY <1>9, <1>11, <2>1, <2>3, <3>1 DEF Graveyard
  <2> QED BY <1>1, <2>2, <2>3
<1> QED BY <1>1, <1>8, <1>9, <1>10, <1>11 DEF Graveyard

\* Kicks end, and with them their stones.
LEMMA LapseUnburies ==
  ASSUME PresenceAssumption, Graveyard, KickLapses PROVE Graveyard'
<1>1. PICK k \in kicks : tombs' = {t \in tombs : t.key # k} /\ removed' = {t \in removed : t.key # k}
  BY DEF KickLapses
<1>2. UNCHANGED <<used, buried>> BY DEF KickLapses, tokens
<1>3. tombs' \in SUBSET tombs BY <1>1
<1>4. IsFiniteSet(tombs') /\ Cardinality(tombs') \in Nat /\ Sparse(tombs', buried)
  BY <1>3, SparseSubset DEF Graveyard
<1>5. Cardinality(tombs') <= Cardinality(tombs) /\ Cardinality(tombs) \in Nat
  BY <1>3, FS_Subset, FS_CardinalityType DEF Graveyard
<1>6. Cardinality(tombs') <= MaxTombs BY <1>4, <1>5 DEF Graveyard, PresenceAssumption
<1>7. \A t \in removed' : buried' - t.from <= MaxTombs => t \in tombs' BY <1>1, <1>2 DEF Graveyard
<1>8. removed' \subseteq [token : used', key : Keys, from : 0..buried'] /\ tombs' \subseteq removed'
  BY <1>1, <1>2 DEF Graveyard
<1> QED BY <1>2, <1>4, <1>6, <1>7, <1>8 DEF Graveyard

\* More tokens are given out, and nobody is removed.
LEMMA GraveyardKept ==
  ASSUME Graveyard, used \subseteq used', UNCHANGED <<tombs, removed, buried>> PROVE Graveyard'
BY DEF Graveyard, Sparse

\* removed from the rooms and flags at once
LEMMA SeatedShrinks ==
  ASSUME Seated, UNCHANGED <<sock, quiet, tokens, gone>>,
         room' \subseteq room, chat' \subseteq chat,
         joined' = room' \cap Sockets, chatJoined' = chat' \cap Sockets
  PROVE  Seated'
<1>1. IsFiniteSet(room') /\ IsFiniteSet(chat') BY FS_Subset DEF Seated
<1> QED BY <1>1 DEF Seated, tokens

LEMMA SeatedJoin ==
  ASSUME PresenceAssumption, Seated, NEW c \in Sessions, Join(c) \/ JoinChat(c)
  PROVE  Seated' /\ used \subseteq used'
<1>1. /\ used' = used \cup ({c} \cap Tokens) /\ UNCHANGED <<sock, quiet, stale, gone>>
      /\ c \in Sockets => sock[c] # "closed"
      /\ \/ /\ room' = room \cup {c} /\ joined' = joined \cup ({c} \cap Sockets)
            /\ UNCHANGED <<chat, chatJoined>>
         \/ /\ chat' = chat \cup {c} /\ chatJoined' = chatJoined \cup ({c} \cap Sockets)
            /\ UNCHANGED <<room, joined>>
  BY DEF Join, JoinChat, IssueToken, Talks
<1>2. IsFiniteSet(room \cup {c}) /\ IsFiniteSet(chat \cup {c}) BY FS_AddElement DEF Seated
<1>3. IsFiniteSet(room') /\ IsFiniteSet(chat') BY <1>1, <1>2 DEF Seated
<1>4. /\ room' \subseteq Sessions /\ chat' \subseteq Sessions /\ used' \subseteq Tokens
      /\ joined' = room' \cap Sockets /\ chatJoined' = chat' \cap Sockets
      /\ (room' \cup chat') \cap Tokens \subseteq used'
  BY <1>1 DEF Seated
<1>5. \A d \in joined' \cup chatJoined' : sock'[d] # "closed" BY <1>1 DEF Seated
<1> QED BY <1>1, <1>3, <1>4, <1>5 DEF Seated

\* A session leaves, or its connection ends.
LEMMA SeatedLeave ==
  ASSUME PresenceAssumption, Seated, NEW c \in Sessions,
         \/ Leave(c) \/ Vanish(c)
         \/ c \in Sockets /\ (CloseFrame(c) \/ Closed(c) \/ Heartbeat(c) \/ Pong(c))
  PROVE  Seated' /\ used' = used
<1>1. CASE Leave(c)
  <2>1. UNCHANGED <<sock, quiet, tokens, gone>> BY <1>1 DEF Leave
  <2>2. /\ room' \subseteq room /\ chat' \subseteq chat
        /\ joined' = room' \cap Sockets /\ chatJoined' = chat' \cap Sockets
    <3>1. CASE c \in joined /\ room' = LeftRoom(c) /\ joined' = joined \ {c} /\ UNCHANGED <<chat, chatJoined>>
      BY <3>1 DEF LeftRoom, Seated
    <3>2. CASE c \in chatJoined /\ chat' = LeftChat(c) /\ chatJoined' = chatJoined \ {c} /\ UNCHANGED <<room, joined>>
      BY <3>2 DEF LeftChat, Seated
    <3>3. CASE /\ c \in Tokens /\ room' = room \ {c} /\ chat' = chat \ {c} /\ UNCHANGED <<joined, chatJoined>>
      BY <3>3 DEF Seated, PresenceAssumption
    <3> QED BY <1>1, <3>1, <3>2, <3>3 DEF Leave
  <2> QED BY <2>1, <2>2, SeatedShrinks DEF tokens
<1>2. CASE Vanish(c)
  <2>1. UNCHANGED <<sockets, tokens, room, chat>> /\ gone' = gone \cup {c} BY <1>2 DEF Vanish
  <2> QED BY <2>1 DEF Seated, sockets, tokens
<1>3. CASE c \in Sockets /\ sock'[c] \in {"closing", "closed"} /\ LeaveBoth(c) /\ quiet' \subseteq quiet
           /\ \E s \in {"closing", "closed"} : sock' = [sock EXCEPT ![c] = s]
  <2>1. /\ room' = LeftRoom(c) /\ chat' = LeftChat(c) /\ UNCHANGED <<tokens, gone>>
        /\ joined' = joined \ {c} /\ chatJoined' = chatJoined \ {c}
    BY <1>3 DEF LeaveBoth
  <2>2. IsFiniteSet(room') /\ IsFiniteSet(chat') BY <2>1, FS_Subset DEF Seated, LeftRoom, LeftChat
  <2>3. joined' = room' \cap Sockets /\ chatJoined' = chat' \cap Sockets
    BY <1>3, <2>1 DEF Seated, LeftRoom, LeftChat
  <2>4. sock' \in [Sockets -> {"open", "closing", "closed"}] BY <1>3 DEF Seated
  <2>5. \A d \in joined' \cup chatJoined' : sock'[d] # "closed" BY <1>3, <2>1 DEF Seated
  <2>6. room' \subseteq room /\ chat' \subseteq chat BY <2>1 DEF LeftRoom, LeftChat
  <2> QED BY <1>3, <2>1, <2>2, <2>3, <2>4, <2>5, <2>6 DEF Seated, tokens
<1>4. CASE c \in Sockets /\ UNCHANGED <<sock, joined, chatJoined, tokens, gone, room, chat>>
           /\ quiet' \in {quiet \cup {c}, quiet \ {c}}
  BY <1>4 DEF Seated, tokens
<1>5. CASE c \in Sockets /\ (CloseFrame(c) \/ Closed(c))
  <2>1. /\ LeaveBoth(c) /\ quiet' \subseteq quiet
        /\ \E s \in {"closing", "closed"} : sock' = [sock EXCEPT ![c] = s]
    BY <1>5 DEF CloseFrame, Closed
  <2>2. sock'[c] \in {"closing", "closed"} BY <1>5, <2>1 DEF Seated
  <2> QED BY <1>3, <1>5, <2>1, <2>2
<1>6. CASE c \in Sockets /\ Pong(c)
  <2>1. /\ UNCHANGED <<sock, joined, chatJoined, tokens, gone, room, chat>> /\ quiet' = quiet \ {c}
    BY <1>6 DEF Pong
  <2> QED BY <1>4, <1>6, <2>1
<1>7. CASE c \in Sockets /\ Heartbeat(c)
  <2>1. CASE /\ sock' = [sock EXCEPT ![c] = "closed"] /\ quiet' = quiet \ {c} /\ LeaveBoth(c)
    <3>1. sock'[c] = "closed" BY <1>7, <2>1 DEF Seated
    <3> QED BY <1>3, <1>7, <2>1, <3>1
  <2>2. CASE /\ quiet' = quiet \cup {c}
             /\ UNCHANGED <<sock, joined, chatJoined, tokens, gone, room, chat>>
    BY <1>4, <1>7, <2>2
  <2> QED BY <1>7, <2>1, <2>2 DEF Heartbeat
<1> QED BY <1>1, <1>2, <1>5, <1>6, <1>7

LEMMA SeatedSweep ==
  ASSUME PresenceAssumption, Seated, Sweep PROVE Seated' /\ used' = used
<1>1. /\ room' = room \ stale /\ chat' = chat \ stale /\ UNCHANGED <<sockets, tokens, gone>>
  BY DEF Sweep
<1>2. stale \cap Sockets = {} BY DEF Seated, PresenceAssumption
<1> QED BY <1>1, <1>2, SeatedShrinks DEF Seated, sockets, tokens

LEMMA SeatedKick ==
  ASSUME Seated, NEW p \in Participants, Kick(p), UNCHANGED <<sock, quiet, tokens, gone>> PROVE Seated'
<1>1. /\ room' = room \ InRoom(p) /\ joined' = joined \ InRoom(p)
      /\ chat' = chat \ InChat(p) /\ chatJoined' = chatJoined \ InChat(p)
  BY DEF Kick, Doomed, FlagsLeft
<1> QED BY <1>1, SeatedShrinks DEF Seated

\* the rest touch the rooms as little as the flags
LEMMA SeatedKept ==
  ASSUME Seated, UNCHANGED <<sockets, gone, room, chat, used>>,
         stale' = stale \/ \E c \in Sessions : stale' = stale \ {c} \/ (c \in Tokens /\ stale' = stale \cup {c})
  PROVE  Seated'
BY DEF Seated, sockets

Plot == Seated /\ Graveyard

LEMMA PlotNext ==
  ASSUME PresenceAssumption, PresenceInv, Plot, [Next]_vars PROVE Plot'
<1> USE DEF Plot
<1>1. CASE \E c \in Sessions : Join(c) \/ JoinChat(c)
  <2>1. UNCHANGED <<tombs, removed, buried>> BY <1>1 DEF Join, JoinChat, bans
  <2> QED BY <1>1, <2>1, SeatedJoin, GraveyardKept
<1>2. CASE \/ \E c \in Sessions : Leave(c) \/ Vanish(c)
           \/ \E c \in Sockets : CloseFrame(c) \/ Closed(c) \/ Heartbeat(c) \/ Pong(c)
  <2>1. UNCHANGED <<tombs, removed, buried>>
    BY <1>2 DEF Leave, Vanish, CloseFrame, Closed, Heartbeat, LeaveBoth, Pong, bans
  <2>2. Seated' /\ used' = used BY <1>2, SeatedLeave DEF Sessions
  <2> QED BY <2>1, <2>2, GraveyardKept
<1>3. CASE Sweep
  <2>1. UNCHANGED <<tombs, removed, buried>> BY <1>3 DEF Sweep, bans
  <2> QED BY <1>3, <2>1, SeatedSweep, GraveyardKept
<1>4. CASE KickLapses
  <2>1. UNCHANGED <<sockets, tokens, gone, room, chat>> BY <1>4 DEF KickLapses
  <2> QED BY <1>4, <2>1, SeatedKept, LapseUnburies DEF tokens
<1>5. CASE \E h \in Calls : Execute(h)
  <2>1. PICK h \in Calls : Execute(h) BY <1>5
  <2> DEFINE cmd == want[Request[h]]
  <2>2. cmd \in Commands /\ UNCHANGED <<sock, quiet, tokens, gone>>
    BY <2>1 DEF Execute, untouched, PresenceInv, Asked
  <2>3. CASE UNCHANGED <<room, chat, joined, chatJoined, tombs, removed, buried>>
    <3>1. Seated' BY <2>2, <2>3, SeatedKept DEF sockets, tokens
    <3> QED BY <2>2, <2>3, <3>1, GraveyardKept DEF tokens
  <2>4. CASE Kick(cmd.target)
    <3>1. cmd.target \in Participants BY <2>2 DEF Commands
    <3> QED BY <2>2, <2>4, <3>1, SeatedKick, KickBuries DEF tokens
  <2> QED BY <2>1, <2>3, <2>4 DEF Execute, CarryOut, bans
<1>6. CASE \/ \E c \in Sessions : Send(c)
           \/ \E c \in Tokens : GrowStale(c) \/ Sync(c) \/ RefusedSend(c) \/ AskUnknown(c)
           \/ \E h \in Calls : Command(h) \/ Authorize(h)
           \/ Forget \/ DiskChanges \/ MuteLapses \/ UNCHANGED vars
  <2>1. UNCHANGED <<sockets, gone, room, chat, used, tombs, removed, buried>>
    BY <1>6 DEF Send, GrowStale, Sync, RefusedSend, AskUnknown, Command, Authorize, Forget, DiskChanges,
           MuteLapses, bans, tokens, vars, rest
  <2>2. stale' = stale \/ \E c \in Sessions : stale' = stale \ {c} \/ (c \in Tokens /\ stale' = stale \cup {c})
    BY <1>6 DEF Send, GrowStale, Sync, RefusedSend, AskUnknown, Command, Authorize, Forget, DiskChanges,
           MuteLapses, tokens, vars, rest, Sessions
  <2> QED BY <2>1, <2>2, SeatedKept, GraveyardKept
<1> QED BY <1>1, <1>2, <1>3, <1>4, <1>5, <1>6 DEF Next

-----------------------------------------------------------------------------
(* The limits of the chat and of the restrictions                          *)

\* Every message kept and every cursor is one of the messages sent.
Counting ==
  /\ Len(history) <= HistoryLimit /\ counter <= sent
  /\ \A i \in DOMAIN history : history[i].id \in 1..sent /\ history[i].seq \in 1..counter
  /\ \A c \in Sessions : cursor[c] <= sent

\* The restrictions together are no more than the limit.
Limited ==
  /\ IsFiniteSet(kicks) /\ IsFiniteSet(mutes) /\ mutes \subseteq [key : Keys, who : Keys]
  /\ Cardinality(kicks) + Cardinality(mutes) <= MaxRestrictions
  /\ nonces \subseteq Requests

LEMMA CountingKept ==
  ASSUME PresenceInv, Counting, UNCHANGED <<history, sent, cursor>>,
         counter' = counter \/ \E members : counter' = Counted(history, members)
  PROVE  Counting'
<1>1. counter' = counter \/ (counter' = 0 /\ history = <<>>) BY DEF Counted
<1>2. CASE counter' = counter BY <1>2 DEF Counting
<1>3. CASE counter' = 0 /\ history = <<>>
  <2>1. DOMAIN history = {} BY <1>3
  <2>2. counter' <= sent' BY <1>3 DEF PresenceInv, Numbered
  <2> QED BY <2>1, <2>2 DEF Counting
<1> QED BY <1>1, <1>2, <1>3

LEMMA CountingJoin ==
  ASSUME PresenceAssumption, PresenceInv, Counting, NEW c \in Sessions, JoinChat(c) PROVE Counting'
<1>1. /\ counter' = Counted(history, chat) /\ cursor' = [cursor EXCEPT ![c] = Newest(history)]
      /\ UNCHANGED <<history, sent>>
  BY DEF JoinChat
<1>2. counter' = counter \/ (counter' = 0 /\ history = <<>>) BY <1>1 DEF Counted
<1>3. Newest(history) <= sent
  <2>1. CASE history = <<>> BY <2>1 DEF Newest, PresenceInv, Numbered
  <2>2. CASE history # <<>>
    <3>1. Len(history) \in DOMAIN history BY <2>2 DEF PresenceInv, Numbered
    <3>2. history[Len(history)].seq \in 1..counter BY <3>1 DEF Counting
    <3> QED BY <2>2, <3>2 DEF Newest, Last, Counting, PresenceInv, Numbered
  <2> QED BY <2>1, <2>2
<1>4. \A d \in Sessions : cursor'[d] <= sent' BY <1>1, <1>3 DEF Counting, PresenceInv, Numbered
<1>5. /\ counter' <= sent'
      /\ \A i \in DOMAIN history : history[i].id \in 1..sent' /\ history[i].seq \in 1..counter'
  BY <1>1, <1>2 DEF Counting, PresenceInv, Numbered
<1> QED BY <1>1, <1>4, <1>5 DEF Counting

LEMMA CountingSend ==
  ASSUME PresenceAssumption, PresenceInv, Counting, NEW c \in Sessions, Send(c) PROVE Counting'
<1> DEFINE m      == [id |-> sent', seq |-> counter', from |-> c]
           longer == Append(history, m)
<1>1. /\ sent' = sent + 1 /\ counter' = counter + 1 /\ history' = Trimmed(longer)
      /\ cursor' = [cursor EXCEPT ![c] = counter']
  BY DEF Send
<1>2. /\ sent \in Nat /\ counter \in Nat /\ history \in Seq(Message) /\ cursor \in [Sessions -> Nat]
      /\ counter <= sent
  BY DEF PresenceInv, Numbered, Counting
<1>3. \A d \in Sessions : cursor'[d] <= sent' BY <1>1, <1>2 DEF Counting
<1>4. m \in Message BY <1>1, <1>2 DEF Message
<1>5. /\ longer \in Seq(Message) /\ Len(longer) = Len(history) + 1 /\ longer[Len(longer)] = m
      /\ \A i \in 1..Len(history) : longer[i] = history[i]
  BY <1>2, <1>4
<1>6. ASSUME NEW i \in 1..Len(longer)
      PROVE  longer[i].id \in 1..sent' /\ longer[i].seq \in 1..counter'
  <2>1. CASE i = Len(longer) BY <1>1, <1>2, <1>5, <2>1
  <2>2. CASE i # Len(longer)
    <3>1. i \in DOMAIN history /\ longer[i] = history[i] BY <1>2, <1>5, <2>2, MessagesOf
    <3> QED BY <1>1, <1>2, <3>1 DEF Counting
  <2> QED BY <2>1, <2>2
<1> HIDE DEF longer, m
<1>7. /\ Len(history') <= HistoryLimit
      /\ \A i \in DOMAIN history' : history'[i].id \in 1..sent' /\ history'[i].seq \in 1..counter'
  <2>1. CASE Len(longer) > HistoryLimit
    <3>1. history' = Tail(longer) BY <1>1, <2>1 DEF Trimmed
    <3>2. longer # <<>> BY <1>2, <1>5
    <3>3. /\ Len(Tail(longer)) = Len(longer) - 1
          /\ \A i \in DOMAIN Tail(longer) : i + 1 \in 1..Len(longer) /\ Tail(longer)[i] = longer[i + 1]
      BY <1>5, <3>2
    <3>4. Len(history') = Len(history) BY <1>2, <1>5, <3>1, <3>3
    <3> QED BY <1>6, <3>1, <3>3, <3>4 DEF Counting
  <2>2. CASE ~ (Len(longer) > HistoryLimit)
    <3>1. history' = longer /\ DOMAIN longer = 1..Len(longer) BY <1>1, <1>5, <2>2 DEF Trimmed
    <3> QED BY <1>5, <1>6, <2>2, <3>1 DEF PresenceAssumption
  <2> QED BY <2>1, <2>2
<1>8. counter' <= sent' BY <1>1, <1>2
<1> QED BY <1>3, <1>7, <1>8 DEF Counting

LEMMA CountingSync ==
  ASSUME PresenceInv, Counting, NEW c \in Tokens, Sync(c) PROVE Counting'
<1>1. UNCHANGED <<history, counter, sent>> BY DEF Sync
<1>2. CASE UNCHANGED cursor BY <1>1, <1>2 DEF Counting
<1>3. CASE ~ UNCHANGED cursor
  <2>1. PICK last \in Newer(c) : cursor' = [cursor EXCEPT ![c] = history[last].seq] BY <1>3 DEF Sync
  <2>2. history[last].seq \in 1..counter /\ counter <= sent BY <2>1 DEF Newer, Counting
  <2>3. history[last].seq <= sent BY <2>2 DEF PresenceInv, Numbered
  <2>4. \A d \in Sessions : cursor'[d] <= sent BY <2>1, <2>3 DEF Counting, PresenceInv, Numbered
  <2> QED BY <1>1, <2>4 DEF Counting
<1> QED BY <1>2, <1>3

LEMMA CountingForget ==
  ASSUME PresenceAssumption, PresenceInv, Counting, Forget PROVE Counting'
<1>1. /\ history # <<>> /\ history' = Tail(history) /\ counter' = Counted(history', chat)
      /\ UNCHANGED <<cursor, sent>>
  BY DEF Forget
<1>2. /\ Len(Tail(history)) = Len(history) - 1 /\ Len(history) \in Nat
      /\ \A i \in DOMAIN Tail(history) : i + 1 \in DOMAIN history /\ Tail(history)[i] = history[i + 1]
  BY <1>1 DEF PresenceInv, Numbered
<1>3. counter' = counter \/ (counter' = 0 /\ history' = <<>>) BY <1>1 DEF Counted
<1>4. Len(history') <= HistoryLimit BY <1>1, <1>2 DEF Counting, PresenceAssumption
<1>5. \A i \in DOMAIN history' : history'[i].id \in 1..sent /\ history'[i].seq \in 1..counter
  BY <1>1, <1>2 DEF Counting
<1>6. CASE counter' = counter BY <1>1, <1>4, <1>5, <1>6 DEF Counting
<1>7. CASE counter' = 0 /\ history' = <<>>
  <2>1. DOMAIN history' = {} BY <1>7
  <2>2. counter' <= sent' BY <1>1, <1>7 DEF PresenceInv, Numbered
  <2> QED BY <1>1, <1>4, <2>1, <2>2 DEF Counting
<1> QED BY <1>3, <1>6, <1>7

LEMMA CountingNext ==
  ASSUME PresenceAssumption, PresenceInv, Counting, [Next]_vars PROVE Counting'
<1>1. CASE \E c \in Sessions : JoinChat(c) BY <1>1, CountingJoin
<1>2. CASE \E c \in Sessions : Send(c) BY <1>2, CountingSend
<1>3. CASE \E c \in Tokens : Sync(c) BY <1>3, CountingSync
<1>4. CASE Forget BY <1>4, CountingForget
<1>5. CASE \/ \E c \in Sessions : Join(c) \/ Leave(c) \/ Vanish(c)
           \/ \E c \in Sockets : CloseFrame(c) \/ Closed(c) \/ Heartbeat(c) \/ Pong(c)
           \/ \E c \in Tokens : GrowStale(c) \/ RefusedSend(c) \/ AskUnknown(c)
           \/ \E h \in Calls : Command(h) \/ Authorize(h) \/ Execute(h)
           \/ Sweep \/ DiskChanges \/ KickLapses \/ MuteLapses \/ UNCHANGED vars
  <2>1. /\ UNCHANGED <<history, sent, cursor>>
        /\ counter' = counter \/ \E members : counter' = Counted(history, members)
    BY <1>5 DEF Join, Leave, Vanish, CloseFrame, Closed, Heartbeat, LeaveBoth, Pong, GrowStale,
           RefusedSend, AskUnknown, Command, Authorize, Execute, untouched, Sweep, DiskChanges,
           KickLapses, MuteLapses, messages, vars, rest
  <2> QED BY <2>1, CountingKept
<1> QED BY <1>1, <1>2, <1>3, <1>4, <1>5 DEF Next

\* One restriction more, of a key that had none, or one less.
LEMMA LimitedKick ==
  ASSUME PresenceAssumption, PresenceInv, Limited, NEW p \in Participants, ~ Full(p.key, kicks), Kick(p),
         UNCHANGED nonces
  PROVE  Limited'
<1>1. kicks' = kicks \cup {p.key} /\ UNCHANGED mutes BY DEF Kick
<1>2. Cardinality(kicks) \in Nat /\ Cardinality(mutes) \in Nat BY FS_CardinalityType DEF Limited
<1>3. IsFiniteSet(kicks') BY <1>1, FS_AddElement DEF Limited
<1>4. CASE p.key \in kicks
  <2>1. kicks' = kicks BY <1>1, <1>4
  <2> QED BY <1>1, <2>1 DEF Limited
<1>5. CASE p.key \notin kicks
  <2>1. Cardinality(kicks') = Cardinality(kicks) + 1 BY <1>1, <1>5, FS_AddElement DEF Limited
  <2>2. Cardinality(mutes) + Cardinality(kicks) < MaxRestrictions
    BY <1>2, <1>5 DEF Full, PresenceAssumption
  <2>3. Cardinality(kicks') + Cardinality(mutes) <= MaxRestrictions
    BY <1>2, <2>1, <2>2 DEF PresenceAssumption
  <2> QED BY <1>1, <1>3, <2>3 DEF Limited
<1> QED BY <1>4, <1>5

LEMMA LimitedLess ==
  ASSUME PresenceAssumption, Limited, UNCHANGED nonces, kicks' \subseteq kicks, mutes' \subseteq mutes
  PROVE  Limited'
<1>1. Cardinality(kicks) \in Nat /\ Cardinality(mutes) \in Nat BY FS_CardinalityType DEF Limited
<1>2. /\ IsFiniteSet(kicks') /\ IsFiniteSet(mutes')
      /\ Cardinality(kicks') <= Cardinality(kicks) /\ Cardinality(mutes') <= Cardinality(mutes)
  BY FS_Subset DEF Limited
<1>3. Cardinality(kicks') \in Nat /\ Cardinality(mutes') \in Nat BY <1>2, FS_CardinalityType
<1>4. Cardinality(kicks') + Cardinality(mutes') <= MaxRestrictions
  BY <1>1, <1>2, <1>3 DEF Limited, PresenceAssumption
<1> QED BY <1>2, <1>4 DEF Limited

LEMMA LimitedMute ==
  ASSUME PresenceAssumption, PresenceInv, Limited, NEW key \in Keys,
         ~ Full(key, {m.key : m \in mutes}),
         mutes' = Unmuted(key) \cup {[key |-> key, who |-> key]}, UNCHANGED <<kicks, nonces>>
  PROVE  Limited'
<1> DEFINE new  == [key |-> key, who |-> key]
           rest1 == Unmuted(key)
<1>1. Cardinality(kicks) \in Nat /\ Cardinality(mutes) \in Nat BY FS_CardinalityType DEF Limited
<1>2. rest1 \in SUBSET mutes BY DEF Unmuted
<1>3. IsFiniteSet(rest1) /\ Cardinality(rest1) \in Nat /\ Cardinality(rest1) <= Cardinality(mutes)
  BY <1>2, FS_Subset, FS_CardinalityType DEF Limited
<1>4. new \notin rest1 BY DEF Unmuted
<1>5. IsFiniteSet(mutes') /\ Cardinality(mutes') = Cardinality(rest1) + 1
  BY <1>3, <1>4, FS_AddElement
<1>6. mutes' \subseteq [key : Keys, who : Keys] BY <1>2 DEF Limited
<1>7. Cardinality(kicks) + Cardinality(mutes') <= MaxRestrictions
  <2>1. CASE key \in {m.key : m \in mutes}
    <3>1. PICK m \in mutes : m.key = key BY <2>1
    <3>2. rest1 # mutes BY <3>1 DEF Unmuted
    <3> HIDE DEF rest1
    <3>3. Cardinality(rest1) # Cardinality(mutes) BY <1>2, <3>2, FS_Subset DEF Limited
    <3> QED BY <1>1, <1>3, <1>5, <3>3 DEF Limited, PresenceAssumption
  <2>2. CASE key \notin {m.key : m \in mutes}
    <3>1. Cardinality(mutes) + Cardinality(kicks) < MaxRestrictions
      BY <1>1, <2>2 DEF Full, PresenceAssumption
    <3> QED BY <1>1, <1>3, <1>5, <3>1 DEF PresenceAssumption
  <2> QED BY <2>1, <2>2
<1> QED BY <1>5, <1>6, <1>7 DEF Limited

LEMMA LimitedNext ==
  ASSUME PresenceAssumption, PresenceInv, Limited, [Next]_vars PROVE Limited'
<1>1. CASE \E h \in Calls : Execute(h)
  <2>1. PICK h \in Calls : Execute(h) BY <1>1
  <2> DEFINE cmd == want[Request[h]]
             p   == cmd.target
  <2>2. cmd \in Commands /\ UNCHANGED nonces BY <2>1 DEF Execute, PresenceInv, Asked
  <2>3. p \in Participants BY <2>2 DEF Commands
  <2>4. CASE UNCHANGED <<kicks, mutes>> BY <2>2, <2>4, LimitedLess
  <2>5. CASE ~ Full(p.key, kicks) /\ Kick(p) BY <2>2, <2>3, <2>5, LimitedKick
  <2>6. CASE /\ MuteKeyOf(p) # None /\ UNCHANGED kicks
             /\ ~ Full(MuteKeyOf(p), {m.key : m \in mutes})
             /\ mutes' = Unmuted(MuteKeyOf(p)) \cup {[key |-> MuteKeyOf(p), who |-> p.key]}
    <3>1. MuteKeyOf(p) = p.key BY <2>6 DEF MuteKeyOf
    <3>2. p.key \in Keys BY <2>3, ParticipantKey DEF Keys
    <3> HIDE DEF p
    <3> QED BY <2>2, <2>6, <3>1, <3>2, LimitedMute
  <2>7. CASE UNCHANGED kicks /\ mutes' = Unmuted(MuteKeyOf(p))
    <3>1. mutes' \subseteq mutes BY <2>7 DEF Unmuted
    <3> QED BY <2>2, <2>7, <3>1, LimitedLess
  <2> QED BY <2>1, <2>4, <2>5, <2>6, <2>7 DEF Execute, CarryOut, bans
<1>2. CASE \E h \in Calls : Authorize(h)
  <2>1. UNCHANGED <<kicks, mutes>> BY <1>2 DEF Authorize, bans
  <2>2. nonces' \subseteq Requests BY <1>2 DEF Authorize, Limited, Requests
  <2> QED BY <2>1, <2>2 DEF Limited
<1>3. CASE KickLapses \/ MuteLapses
  <2>1. kicks' \subseteq kicks /\ mutes' \subseteq mutes /\ UNCHANGED nonces
    BY <1>3 DEF KickLapses, MuteLapses, command
  <2> QED BY <2>1, LimitedLess
<1>4. CASE \/ \E c \in Sessions : Join(c) \/ JoinChat(c) \/ Leave(c) \/ Vanish(c) \/ Send(c)
           \/ \E c \in Sockets : CloseFrame(c) \/ Closed(c) \/ Heartbeat(c) \/ Pong(c)
           \/ \E c \in Tokens : GrowStale(c) \/ Sync(c) \/ RefusedSend(c) \/ AskUnknown(c)
           \/ \E h \in Calls : Command(h)
           \/ Sweep \/ Forget \/ DiskChanges \/ UNCHANGED vars
  <2>1. UNCHANGED <<kicks, mutes, nonces>>
    BY <1>4 DEF Join, JoinChat, Leave, Vanish, Send, CloseFrame, Closed, Heartbeat, LeaveBoth, Pong,
           GrowStale, Sync, RefusedSend, AskUnknown, Command, Sweep, Forget, DiskChanges, bans, command,
           vars, rest
  <2> QED BY <2>1, LimitedLess
<1> QED BY <1>1, <1>2, <1>3, <1>4 DEF Next

-----------------------------------------------------------------------------
FullInv == PresenceInv /\ Seated /\ Graveyard /\ Counting /\ Limited

LEMMA FullInit == ASSUME PresenceAssumption, Init PROVE FullInv
<1>1. PresenceInv BY PresenceInit
<1>2. IsFiniteSet({}) /\ Cardinality({}) = 0 BY FS_EmptySet
<1>3. Seated BY <1>2 DEF Init, Seated
<1>4. Graveyard
  <2>1. tombs = {} /\ removed = {} /\ buried = 0 BY DEF Init
  <2>2. ASSUME NEW m \in 0..0 PROVE Cardinality({t \in {} : t.from >= m}) <= 0 - m
    <3>1. {t \in {} : t.from >= m} = {} /\ m = 0 OBVIOUS
    <3> QED BY ONLY <1>2, <3>1
  <2>3. Sparse(tombs, buried) BY <2>1, <2>2 DEF Sparse
  <2> QED BY <1>2, <2>1, <2>3 DEF Graveyard, PresenceAssumption
<1>5. Counting BY DEF Init, Counting, PresenceAssumption
<1>6. Limited BY <1>2 DEF Init, Limited, PresenceAssumption
<1> QED BY <1>1, <1>3, <1>4, <1>5, <1>6 DEF FullInv

LEMMA FullNext == ASSUME PresenceAssumption, FullInv, [Next]_vars PROVE FullInv'
BY PresenceNext, PlotNext, CountingNext, LimitedNext DEF FullInv, Plot

LEMMA FullInvIsTyped == ASSUME PresenceAssumption, FullInv PROVE TypeOK
<1> USE DEF FullInv
<1>1. /\ counter \in 0..sent /\ cursor \in [Sessions -> 0..sent]
      /\ \A i \in DOMAIN history : history[i] \in [id : 1..sent, seq : 1..counter, from : Sessions]
  <2>1. counter \in 0..sent /\ cursor \in [Sessions -> 0..sent] BY DEF PresenceInv, Numbered, Counting
  <2>2. ASSUME NEW i \in DOMAIN history
        PROVE  history[i] \in [id : 1..sent, seq : 1..counter, from : Sessions]
    <3>1. history[i] \in Message BY MessagesOf DEF PresenceInv, Numbered
    <3>2. history[i].id \in 1..sent /\ history[i].seq \in 1..counter BY DEF Counting
    <3> QED BY <3>1, <3>2 DEF Message
  <2> QED BY <2>1, <2>2
<1>2. /\ kicks \subseteq Keys /\ call \in [Calls -> {"new", "verifying", "granted", "done", "refused"}]
  BY DEF PresenceInv, Named, Asked
<1>3. /\ mutes \subseteq [key : Keys, who : Keys] /\ nonces \subseteq Requests
      /\ Cardinality(kicks) + Cardinality(mutes) <= MaxRestrictions
  BY DEF Limited
<1>4. Len(history) <= HistoryLimit BY DEF Counting
<1> QED BY <1>1, <1>2, <1>3, <1>4 DEF TypeOK, Seated, Graveyard

\* Every variable keeps its type, the flags of a connection agree with the
\* rooms, and no limit is passed: of the history, of the restrictions, of the
\* tombstones.
THEOREM TypesHold == Spec => []TypeOK
<1>1. Init => FullInv BY FullInit, PresenceAssumption
<1>2. FullInv /\ [Next]_vars => FullInv' BY FullNext, PresenceAssumption
<1>3. FullInv => TypeOK BY FullInvIsTyped, PresenceAssumption
<1> QED BY <1>1, <1>2, <1>3, PTL DEF Spec


\* A polling session that was removed is told so while the kick lasts and it is
\* among the last MaxTombs removed (removeGroup, addTomb, unknownSession).
THEOREM RemovedAreTold == Spec => RemovedIsTold
<1> DEFINE Told == \A c \in Tokens : told[c] = None /\ told'[c] = "unknown" =>
                     \A t \in removed : t.token = c => buried - t.from > MaxTombs
<1>1. Init => FullInv BY FullInit, PresenceAssumption
<1>2. FullInv /\ [Next]_vars => FullInv' BY FullNext, PresenceAssumption
<1>3. FullInv /\ [Next]_vars => [Told]_vars
  <2> SUFFICES ASSUME FullInv, Next, NEW c \in Tokens, told[c] = None, told'[c] = "unknown",
                      NEW t \in removed, t.token = c
               PROVE  buried - t.from > MaxTombs
    OBVIOUS
  <2>1. \E d \in Tokens : AskUnknown(d)
    <3>1. told' # told BY PresenceAssumption DEF PresenceAssumption
    <3> QED BY <3>1, PresenceAssumption
         DEF Next, Join, JoinChat, Leave, Vanish, Send, CloseFrame, Closed, Heartbeat, LeaveBoth, Pong,
             GrowStale, Sync, RefusedSend, Command, Authorize, Execute, untouched, Sweep, Forget,
             DiskChanges, KickLapses, MuteLapses
  <2>2. PICK d \in Tokens : AskUnknown(d) BY <2>1
  <2>3. told' = [told EXCEPT ![d] = IF \E g \in tombs : g.token = d THEN "removed" ELSE "unknown"]
    BY <2>2 DEF AskUnknown
  <2>4. d = c BY <2>3, PresenceAssumption DEF PresenceAssumption
  <2>5. ~ \E g \in tombs : g.token = c BY <2>3, <2>4, PresenceAssumption DEF PresenceAssumption
  <2>6. t \notin tombs BY <2>5
  <2>7. buried \in Nat /\ t.from \in 0..buried /\ ~ (buried - t.from <= MaxTombs)
    BY <2>6 DEF FullInv, Graveyard
  <2> QED BY <2>7, PresenceAssumption DEF PresenceAssumption
<1> QED BY <1>1, <1>2, <1>3, PTL DEF Spec, RemovedIsTold

================================================================================
