------------------------------- MODULE Relay --------------------------------
(***************************************************************************)
(* What a message that reaches a channel makes the channel send: answers,  *)
(* relayed messages, notices and disappearing-message timers               *)
(* (src/app/dispatcher/index.js, messenger.js, resend.js and execute.js).  *)
(*                                                                         *)
(* A handler reads the channel and the sender, decides on what it READ,    *)
(* and sends with awaits in between; handlers interleave.  What a command  *)
(* does to the tables is one step here (ChannelMembership splits it into   *)
(* its statements).  A write to signald's socket, or a statement, may      *)
(* fail; `faults` counts it.                                               *)
(***************************************************************************)
EXTENDS Commands, Sequences, SequencesExt

CONSTANTS
  Handler,       \* messages that are handled at the same time
  Inboxes,       \* what reaches the channel: [kind, messages]
  FirstMembers,  \* type of membership, by person
  Invited,       \* invites there are: <<inviter, invitee>>
  Maintainers,   \* admins of the diagnostics channel
  Slow,          \* the recipient whose messages Signal drops for their rate
  MaxInterval,   \* longest interval between resends, in units of the shortest
  MaxDrops,      \* bound: messages dropped
  MaxFaults      \* bound: writes and statements that fail

\* An inbound message: a number of its own for its timestamp, who sent it, its
\* text, and (for a message that only changes it) the disappearing-message timer.
\* One of the keywords that a text begins with is the longest.
IsMessage(m) ==
  /\ m.n \in Nat /\ m.from \in Person /\ m.timer \in 0..2
  /\ m.text.hits \subseteq Keyword /\ m.text.payload \in Payload
  /\ m.text.hits # {} => PickLongestMatch(m.text.hits) \in m.text.hits

ASSUME InboxAssumption ==
  \A x \in Inboxes :
    x.kind \in {"user", "support", "diagnostics"} /\ \A m \in x.messages : IsMessage(m)
ASSUME MemberAssumption ==
  /\ FirstMembers \in [Person -> {"ADMIN", "SUBSCRIBER", "NONE"}]
  /\ Invited \subseteq Person \X Person /\ Maintainers \subseteq Person
ASSUME FiniteAssumption == IsFiniteSet(Person) /\ IsFiniteSet(Handler)
ASSUME LimitAssumption == MaxInterval \in Nat /\ MaxVouchLevel \in Nat \ {0}

VARIABLES
  kind,       \* what the channel is for
  members,    \* memberships: "ADMIN", "SUBSCRIBER" or "NONE"
  settings,   \* channels: hotlineOn, vouchMode, vouchLevel, expiry
  banned, invites, waitlist,
  hotline,    \* hotlineMessages: [id, who]
  lastId,     \* of hotlineMessages, the sequence of its ids
  counts,     \* messageCounts: what went out
  inbox,      \* messages still to come
  handler,
  timers,     \* disappearing-message timer in each person's client
  air,        \* copies of a broadcast on their way to Slow
  resend,     \* lastResendInterval of their entry in the queue (0: none), and waiting
  \* history
  out,        \* relayed and hotline messages sent, broadcasts and resends to Slow
  announced,  \* hotline ids that admins were told, with their authors
  neglected,  \* messages that nothing answers
  raced, faults, drops

tables == <<members, settings, banned, invites, waitlist, hotline, lastId>>
resending == <<air, resend, drops>>
history == <<announced, neglected, raced, faults>>
vars == <<kind, tables, counts, inbox, handler, timers, resending, out, history>>

Note == [to: Person, about: {"notice", "copy", "hotline", "reply"}, id: Nat]
Status == {"SUCCESS", "ERROR", "UNAUTHORIZED"}
Result == [command: Command, status: Status, notes: Seq(Note)]
NoResult == [command |-> "NONE", status |-> "ERROR", notes |-> << >>]
NoMessage == [n |-> 0]
FirstSettings == [hotlineOn |-> TRUE, vouchMode |-> "OFF", vouchLevel |-> 1, expiry |-> 1]
Idle == [pc |-> "idle", msg |-> NoMessage, needs |-> {},
         chan |-> [members |-> FirstMembers, set |-> FirstSettings],
         sender |-> "NONE", result |-> NoResult, told |-> FALSE]

Vouching == {"OFF", "ON", "ADMIN"}
Expiry == 1..2
MessageCount == [broadcast: Nat, hotline: Nat, command: Nat]   \* what went out
ChannelRequest == Nat   \* the message that asked for the channel

TypeOK ==
  /\ members \in [Person -> {"ADMIN", "SUBSCRIBER", "NONE"}]
  /\ settings \in [hotlineOn: BOOLEAN, vouchMode: Vouching, vouchLevel: 1..MaxVouchLevel, expiry: Expiry]
  /\ banned \subseteq Person /\ invites \subseteq Person \X Person /\ waitlist \subseteq ChannelRequest
  /\ \A x, y \in hotline : x.id <= lastId /\ (x.id = y.id \/ x.who = y.who => x = y)
  /\ counts \in MessageCount
  /\ timers \in [Person -> Expiry]
  /\ \A h \in Handler : handler[h].result \in Result
  /\ air \in Nat /\ resend.interval \in 0..MaxInterval /\ resend.waiting \in Nat

Init ==
  /\ \E x \in Inboxes : kind = x.kind /\ inbox = x.messages
  /\ members = FirstMembers
  /\ settings = FirstSettings
  /\ banned = {} /\ invites = Invited /\ waitlist = {}
  /\ hotline = {} /\ lastId = 0
  /\ counts = [broadcast |-> 0, hotline |-> 0, command |-> 0]
  /\ handler = [h \in Handler |-> Idle]
  /\ timers = [p \in Person |-> 1]
  /\ air = 0 /\ resend = [interval |-> 0, waiting |-> 0] /\ drops = 0
  /\ out = [copies |-> 0, hotline |-> 0, command |-> 0, originals |-> 0, resends |-> 0]
  /\ announced = {} /\ neglected = {}
  /\ raced = FALSE /\ faults = 0

-----------------------------------------------------------------------------
(* Handlers.                                                               *)

At(h, pc) == handler[h].pc = pc
Msg(h) == handler[h].msg
From(h) == Msg(h).from
Chan(h) == handler[h].chan
Step(h, pc) == handler' = [handler EXCEPT ![h].pc = pc]
Fault == faults < MaxFaults /\ faults' = faults + 1

\* The handler ends.  It owed its sender a word unless it says otherwise.
Finish(h, excused) ==
  /\ handler' = [handler EXCEPT ![h] = Idle]
  /\ neglected' = IF excused \/ handler[h].told THEN neglected ELSE neglected \cup {Msg(h).n}

AdminsOf(ms) == {p \in Person : ms[p] = "ADMIN"}
MembersOf(ms) == {p \in Person : ms[p] # "NONE"}
Bystanders(h, others) == AdminsOf(Chan(h).members) \ ({From(h)} \cup others)

NoteTo(p, about, id) == [to |-> p, about |-> about, id |-> id]
ToEach(people, about, id) == SetToSeq({NoteTo(p, about, id) : p \in people})
Notices(people) == ToEach(people, "notice", 0)
Notified(notes) == {notes[i].to : i \in DOMAIN notes}

\* Messages that change the timer overlap no other message unless `raced`.
Receive(h) ==
  /\ At(h, "idle")
  /\ \E m \in inbox :
       /\ inbox' = inbox \ {m}
       /\ handler' = [handler EXCEPT ![h] =
            [Idle EXCEPT !.pc = "read", !.msg = m, !.needs = {"channel", "sender"}]]
       /\ timers' = IF m.timer > 0 THEN [timers EXCEPT ![m.from] = m.timer] ELSE timers
       /\ raced' = (raced \/ \E g \in Handler :
            ~At(g, "idle") /\ (m.timer > 0 \/ Msg(g).timer > 0))
  /\ UNCHANGED <<kind, tables, counts, resending, out, announced, neglected, faults>>

Read(h, what, chan, sender) ==
  /\ At(h, "read") /\ what \in handler[h].needs
  /\ handler' = [handler EXCEPT ![h].needs = @ \ {what}, ![h].chan = chan, ![h].sender = sender,
                                ![h].pc = IF handler[h].needs = {what} THEN "banned" ELSE "read"]
  /\ UNCHANGED <<kind, tables, counts, inbox, timers, resending, out, history>>

FetchChannel(h) ==
  Read(h, "channel", [members |-> members, set |-> settings], handler[h].sender)
ClassifyPhoneNumber(h) == Read(h, "sender", Chan(h), members[From(h)])

DetectBanned(h) ==
  /\ At(h, "banned")
  /\ IF From(h) \in banned
     THEN Finish(h, TRUE)
     ELSE Step(h, IF Msg(h).timer > 0 THEN "timer" ELSE "execute") /\ UNCHANGED neglected
  /\ UNCHANGED <<kind, tables, counts, inbox, timers, resending, out, announced, raced, faults>>

\* Requests to set the timer of each of `people`; a write that fails is one of
\* several that were begun.
SetExpiration(people, t) ==
  \/ /\ timers' = [p \in Person |-> IF p \in people THEN t ELSE timers[p]]
     /\ UNCHANGED faults
  \/ /\ people # {} /\ Fault
     /\ \E some \in SUBSET people :
          timers' = [p \in Person |-> IF p \in some THEN t ELSE timers[p]]

\* A message without text that carries another timer than the channel's: an
\* admin's counts for everybody, a subscriber's is taken back.
UpdateExpiryTime(h) ==
  /\ At(h, "timer")
  /\ IF Msg(h).timer = Chan(h).set.expiry \/ handler[h].sender = "NONE"
     THEN Finish(h, TRUE) /\ UNCHANGED <<settings, timers, faults>>
     ELSE IF handler[h].sender = "SUBSCRIBER"
     THEN SetExpiration({From(h)}, Chan(h).set.expiry) /\ Finish(h, TRUE) /\ UNCHANGED settings
     ELSE /\ settings' = [settings EXCEPT !.expiry = Msg(h).timer]
          /\ Step(h, "others")
          /\ UNCHANGED <<timers, faults, neglected>>
  /\ UNCHANGED <<kind, members, banned, invites, waitlist, hotline, lastId, counts, inbox,
                 resending, out, announced, raced>>

EnforceExpiryTime(h) ==
  /\ At(h, "others")
  /\ SetExpiration(MembersOf(Chan(h).members) \ {From(h)}, Msg(h).timer)
  /\ Finish(h, TRUE)
  /\ UNCHANGED <<kind, tables, counts, inbox, resending, out, announced, raced>>
-----------------------------------------------------------------------------
(* Commands.                                                               *)

Exec(h) == ParseExecutable(Msg(h).text)
Payload1(h) == CHOOSE p \in Msg(h).text.payload.phones : TRUE
VerdictOn(h) == Verdict(Exec(h), handler[h].sender, kind = "support")

\* mutant: whatever became of it, a relayed message is not answered
RelayedAtAll(result) == result.command \in {"REPLY", "PRIVATE", "BROADCAST"}

\* Successful REPLYs, PRIVATEs and BROADCASTs are not answered: their sender
\* gets a copy.
RelayedOnly(result) ==
  result.status = "SUCCESS" /\ result.command \in {"REPLY", "PRIVATE", "BROADCAST"}

Concluded(h, result) ==
  handler' = [handler EXCEPT ![h].result = result,
                             ![h].pc = IF RelayedOnly(result) THEN "notify" ELSE "respond"]

Conclude(h, status, notes) ==
  Concluded(h, [command |-> Exec(h).command, status |-> status, notes |-> notes])

KeepsRest == UNCHANGED <<kind, counts, inbox, timers, resending, out, announced, raced>>
KeepsTables == UNCHANGED tables

Refuse(h) ==
  /\ At(h, "execute") /\ VerdictOn(h) = "refuse"
  /\ Conclude(h, "ERROR", << >>)
  /\ KeepsTables /\ KeepsRest /\ UNCHANGED <<neglected, faults>>

HotlineIsOff(h) ==
  /\ At(h, "execute") /\ VerdictOn(h) = "hotline" /\ ~Chan(h).set.hotlineOn
  /\ Concluded(h, NoResult)
  /\ KeepsTables /\ KeepsRest /\ UNCHANGED <<neglected, faults>>

\* mutant: ids are taken from the rows that are left
GetMessageIdFromRows(who) ==
  IF \E x \in hotline : x.who = who THEN UNCHANGED <<hotline, lastId>>
  ELSE /\ lastId' = Max({x.id : x \in hotline} \cup {0}) + 1
       /\ hotline' = hotline \cup {[id |-> lastId', who |-> who]}

\* The row of the sender's messages is found or created.
GetMessageId(who) ==
  IF \E x \in hotline : x.who = who THEN UNCHANGED <<hotline, lastId>>
  ELSE /\ lastId' = lastId + 1
       /\ hotline' = hotline \cup {[id |-> lastId', who |-> who]}

\* A statement that fails here is caught by nobody who answers.
HandleHotline(h) ==
  /\ At(h, "execute") /\ VerdictOn(h) = "hotline" /\ Chan(h).set.hotlineOn
  /\ \/ /\ GetMessageId(From(h))
        /\ LET row == CHOOSE x \in hotline' : x.who = From(h) IN
           Concluded(h, [command |-> "NONE", status |-> "SUCCESS",
                         notes |-> ToEach(AdminsOf(Chan(h).members), "hotline", row.id)])
        /\ UNCHANGED <<neglected, faults>>
     \/ Fault /\ Finish(h, TRUE) /\ UNCHANGED <<hotline, lastId>>
  /\ UNCHANGED <<members, settings, banned, invites, waitlist>> /\ KeepsRest

Runs(h, command) ==
  At(h, "execute") /\ VerdictOn(h) = "run" /\ Exec(h).command = command

\* Commands whose first statement may fail and which say so.
Reports == {"ACCEPT", "ADD", "BAN", "CHANNEL", "DECLINE", "HOTLINE_ON", "HOTLINE_OFF", "JOIN",
            "LEAVE", "REPLY", "RESTART", "SET_LANGUAGE", "VOUCHING_ON", "VOUCHING_OFF",
            "VOUCHING_ADMIN", "VOUCH_LEVEL"}

DbError(h) ==
  /\ \E command \in Reports : Runs(h, command)
  /\ Fault
  /\ Conclude(h, "ERROR", << >>)
  /\ KeepsTables /\ KeepsRest /\ UNCHANGED neglected

\* Those that read before they catch anything: nobody answers.
DbErrorThrown(h) ==
  /\ Runs(h, "INVITE") \/ Runs(h, "REMOVE")
  /\ Fault
  /\ Finish(h, TRUE)
  /\ KeepsTables /\ KeepsRest

\* A command that changes a membership logs that as an event, which may fail
\* when the change is made.
ConcludeLogged(h, notes) ==
  \/ Conclude(h, "SUCCESS", notes) /\ UNCHANGED faults
  \/ Fault /\ Conclude(h, "ERROR", << >>)

SetMember(p, type) == members' = [members EXCEPT ![p] = type]

Join(h) ==
  /\ Runs(h, "JOIN")
  /\ IF handler[h].sender # "NONE" \/ Chan(h).set.vouchMode # "OFF"
     THEN Conclude(h, "ERROR", << >>) /\ UNCHANGED <<members, faults>>
     ELSE /\ members' = [members EXCEPT ![From(h)] = IF @ = "NONE" THEN "SUBSCRIBER" ELSE @]
          /\ ConcludeLogged(h, << >>)
  /\ UNCHANGED <<settings, banned, invites, waitlist, hotline, lastId, neglected>> /\ KeepsRest

\* The inviter is told.  Without an invite to be found there is nothing to accept.
Accept(h) ==
  /\ Runs(h, "ACCEPT")
  /\ LET p == From(h)
         received == {i \in invites : i[2] = p}
     IN IF \/ members[p] # "NONE" \/ received = {}
           \/ Chan(h).set.vouchMode # "OFF" /\ Cardinality(received) < Chan(h).set.vouchLevel
        THEN Conclude(h, "ERROR", << >>) /\ UNCHANGED <<members, invites, faults>>
        ELSE /\ SetMember(p, "SUBSCRIBER")
             /\ invites' = invites \ received
             /\ \E i \in received :
                  ConcludeLogged(h, Notices(IF members[i[1]] = "NONE" THEN {} ELSE {i[1]}))
  /\ UNCHANGED <<settings, banned, waitlist, hotline, lastId, neglected>> /\ KeepsRest

Decline(h) ==
  /\ Runs(h, "DECLINE")
  /\ invites' = {i \in invites : i[2] # From(h)}
  /\ Conclude(h, "SUCCESS", << >>)
  /\ UNCHANGED <<members, settings, banned, waitlist, hotline, lastId, neglected, faults>>
  /\ KeepsRest

\* Of the invites some may fail: then the command has failed, and no invitee is
\* told of the others.
Invite(h) ==
  /\ Runs(h, "INVITE")
  /\ LET to == Exec(h).payload.phones
         new == {p \in to : members[p] = "NONE" /\ <<From(h), p>> \notin invites}
     IN \/ /\ \/ handler[h].sender = "NONE"
              \/ handler[h].sender # "ADMIN" /\ Chan(h).set.vouchMode = "ADMIN"
           /\ Conclude(h, "UNAUTHORIZED", << >>) /\ UNCHANGED <<invites, faults>>
        \/ /\ handler[h].sender = "ADMIN" \/
              (handler[h].sender = "SUBSCRIBER" /\ Chan(h).set.vouchMode # "ADMIN")
           /\ \/ /\ to \cap banned # {}
                 /\ Conclude(h, "ERROR", << >>) /\ UNCHANGED <<invites, faults>>
              \/ /\ to \cap banned = {}
                 /\ invites' = invites \cup {<<From(h), p>> : p \in new}
                 /\ Conclude(h, "SUCCESS", Notices(new)) /\ UNCHANGED faults
              \/ /\ to \cap banned = {} /\ Fault
                 /\ \E failed \in SUBSET new \ {{}} :
                      /\ invites' = invites \cup {<<From(h), p>> : p \in new \ failed}
                      /\ Conclude(h, "ERROR", Notices(new \ failed))
  /\ UNCHANGED <<members, settings, banned, waitlist, hotline, lastId, neglected>> /\ KeepsRest

Leave(h) ==
  /\ Runs(h, "LEAVE")
  /\ IF handler[h].sender = "NONE"
     THEN Conclude(h, "UNAUTHORIZED", << >>) /\ UNCHANGED <<members, faults>>
     ELSE /\ SetMember(From(h), "NONE")
          /\ ConcludeLogged(h, Notices(IF handler[h].sender = "ADMIN" THEN Bystanders(h, {}) ELSE {}))
  /\ UNCHANGED <<settings, banned, invites, waitlist, hotline, lastId, neglected>> /\ KeepsRest

Add(h) ==
  /\ Runs(h, "ADD")
  /\ LET p == Payload1(h) IN
     IF p \in banned
     THEN Conclude(h, "ERROR", << >>) /\ UNCHANGED <<members, faults>>
     ELSE /\ SetMember(p, "ADMIN")
          /\ ConcludeLogged(h, Notices({p}) \o Notices(Bystanders(h, {})))
  /\ UNCHANGED <<settings, banned, invites, waitlist, hotline, lastId, neglected>> /\ KeepsRest

\* A member that the channel read does not know yet ends the handler with an
\* exception before anything is removed.
RemoveMember(h) ==
  /\ Runs(h, "REMOVE")
  /\ LET p == Payload1(h) IN
     \/ /\ members[p] = "NONE"
        /\ Conclude(h, "ERROR", << >>) /\ UNCHANGED <<members, neglected, faults>>
     \/ /\ members[p] # "NONE" /\ Chan(h).members[p] = "NONE"
        /\ Finish(h, TRUE) /\ UNCHANGED <<members, faults>>
     \/ /\ members[p] # "NONE" /\ Chan(h).members[p] # "NONE"
        /\ \/ /\ SetMember(p, "NONE")
              /\ ConcludeLogged(h, Notices({p}) \o Notices(Bystanders(h, {p})))
           \/ Fault /\ Conclude(h, "ERROR", << >>) /\ UNCHANGED members
        /\ UNCHANGED neglected
  /\ UNCHANGED <<settings, banned, invites, waitlist, hotline, lastId>> /\ KeepsRest

RowOf(id) == {x \in hotline : x.id = id}

Ban(h) ==
  /\ Runs(h, "BAN")
  /\ LET id == Exec(h).payload.number IN
     \/ /\ \A x \in RowOf(id) : x.who \in banned
        /\ Conclude(h, "ERROR", << >>) /\ UNCHANGED <<members, banned>>
     \/ \E x \in RowOf(id) :
          /\ x.who \notin banned
          /\ banned' = banned \cup {x.who} /\ SetMember(x.who, "NONE")
          /\ Conclude(h, "SUCCESS", Notices({x.who}) \o Notices(Bystanders(h, {})))
  /\ UNCHANGED <<settings, invites, waitlist, hotline, lastId, neglected, faults>> /\ KeepsRest

Reply(h) ==
  /\ Runs(h, "REPLY")
  /\ LET id == Exec(h).payload.number IN
     \/ RowOf(id) = {} /\ Conclude(h, "ERROR", << >>)
     \/ \E x \in RowOf(id) :
          Conclude(h, "SUCCESS", <<NoteTo(x.who, "reply", id)>>
                                   \o ToEach(AdminsOf(Chan(h).members), "copy", 0))
  /\ KeepsTables /\ KeepsRest /\ UNCHANGED <<neglected, faults>>

\* Settings: the other admins are told.
ChangeSetting(h, changed) ==
  /\ settings' = changed
  /\ Conclude(h, "SUCCESS", Notices(Bystanders(h, {})))
  /\ UNCHANGED <<members, banned, invites, waitlist, hotline, lastId, neglected, faults>>
  /\ KeepsRest

ToggleSetting(h, command, isOn) ==
  Runs(h, command) /\ ChangeSetting(h, [settings EXCEPT !.hotlineOn = isOn])

SetVouchMode(h, command, mode) ==
  Runs(h, command) /\ ChangeSetting(h, [settings EXCEPT !.vouchMode = mode])

SetVouchLevel(h) ==
  /\ Runs(h, "VOUCH_LEVEL")
  /\ ChangeSetting(h, [settings EXCEPT !.vouchLevel = Exec(h).payload.number])

\* What is answered without a change that this module keeps: languages are
\* wording, and DESTROY only asks for confirmation.
Tell(h, command) ==
  /\ Runs(h, command)
  /\ Conclude(h, "SUCCESS", << >>)
  /\ KeepsTables /\ KeepsRest /\ UNCHANGED <<neglected, faults>>

Help(h) == Tell(h, "HELP")
Info(h) == Tell(h, "INFO")
Request(h) == Tell(h, "REQUEST")
SetLanguage(h) == Tell(h, "SET_LANGUAGE")
ConfirmDestroy(h) == Tell(h, "DESTROY")

CopiesTo(h, people) ==
  /\ Conclude(h, "SUCCESS", ToEach(people, "copy", 0))
  /\ KeepsTables /\ KeepsRest /\ UNCHANGED <<neglected, faults>>

Broadcast(h) == Runs(h, "BROADCAST") /\ CopiesTo(h, MembersOf(Chan(h).members))
Private(h) == Runs(h, "PRIVATE") /\ CopiesTo(h, AdminsOf(Chan(h).members))

\* Channels are given out by registrar.create; without a number to spare the
\* request goes to the waiting list.
CreateChannel(h) ==
  /\ Runs(h, "CHANNEL")
  /\ \/ \E status \in {"SUCCESS", "ERROR"} : Conclude(h, status, << >>) /\ UNCHANGED waitlist
     \/ waitlist' = waitlist \cup {Msg(h).n} /\ Conclude(h, "ERROR", << >>)
  /\ UNCHANGED <<members, settings, banned, invites, hotline, lastId, neglected, faults>>
  /\ KeepsRest

MaintainersNow == IF kind = "diagnostics" THEN AdminsOf(members) ELSE Maintainers

\* Only a maintainer, on the diagnostics channel, with the passphrase.
Restart(h) ==
  /\ Runs(h, "RESTART")
  /\ IF From(h) \in MaintainersNow /\ kind = "diagnostics" /\ Exec(h).payload.is = "words"
     THEN \/ Conclude(h, "ERROR", << >>)
          \/ Conclude(h, "SUCCESS", Notices(MaintainersNow \ {From(h)}))
     ELSE Conclude(h, "UNAUTHORIZED", << >>)
  /\ KeepsTables /\ KeepsRest /\ UNCHANGED <<neglected, faults>>

ProcessCommand(h) ==
  \/ Refuse(h) \/ HotlineIsOff(h) \/ HandleHotline(h)
  \/ DbError(h) \/ DbErrorThrown(h)
  \/ Join(h) \/ Accept(h) \/ Decline(h) \/ Invite(h) \/ Leave(h)
  \/ Add(h) \/ RemoveMember(h) \/ Ban(h) \/ Reply(h)
  \/ ToggleSetting(h, "HOTLINE_ON", TRUE) \/ ToggleSetting(h, "HOTLINE_OFF", FALSE)
  \/ SetVouchMode(h, "VOUCHING_ON", "ON") \/ SetVouchMode(h, "VOUCHING_OFF", "OFF")
  \/ SetVouchMode(h, "VOUCHING_ADMIN", "ADMIN") \/ SetVouchLevel(h)
  \/ Help(h) \/ Info(h) \/ Request(h) \/ SetLanguage(h) \/ ConfirmDestroy(h)
  \/ Broadcast(h) \/ Private(h) \/ CreateChannel(h) \/ Restart(h)

-----------------------------------------------------------------------------
(* Messenger.                                                              *)

Command1(h) == handler[h].result.command
Succeeded(h) == handler[h].result.status = "SUCCESS"
Notes(h) == handler[h].result.notes

\* An answer, which counts unless a maintainer asks how the channel is.
Respond(h) ==
  /\ At(h, "respond")
  /\ \/ /\ handler' = [handler EXCEPT ![h].told = TRUE,
                                     ![h].pc = IF Succeeded(h) THEN "notify" ELSE "end"]
        /\ IF Command1(h) = "INFO" /\ From(h) \in MaintainersNow
           THEN UNCHANGED counts ELSE counts' = [counts EXCEPT !.command = @ + 1]
        /\ out' = [out EXCEPT !.command = @ + 1]
        /\ UNCHANGED <<neglected, faults>>
     \/ /\ Fault /\ Finish(h, TRUE) /\ UNCHANGED counts
        /\ \/ UNCHANGED out
           \/ out' = [out EXCEPT !.command = @ + 1]   \* sent, not counted
  /\ UNCHANGED <<kind, tables, inbox, timers, resending, announced, raced>>

\* mutant: nobody thinks of those who accept an invite
NewUsersButInvitees(h) ==
  CASE Command1(h) = "ADD" -> {Payload1(h)}
    [] Command1(h) = "JOIN" -> {From(h)}
    [] OTHER -> {}

NewUsers(h) ==
  CASE Command1(h) = "ADD" -> {Payload1(h)}
    [] Command1(h) = "INVITE" -> Exec(h).payload.phones
    [] Command1(h) \in {"JOIN", "ACCEPT"} -> {From(h)}
    [] OTHER -> {}

Sent(h, notes) ==
  /\ out' = [out EXCEPT
       !.copies = @ + IF Command1(h) = "BROADCAST" THEN Len(notes) ELSE 0,
       !.hotline = @ + IF Command1(h) = "NONE" THEN Len(notes) ELSE 0,
       !.originals = @ + IF Command1(h) = "BROADCAST" /\ Slow \in Notified(notes) THEN 1 ELSE 0]
  /\ air' = air + (out'.originals - out.originals)
  /\ announced' = announced \cup
       {[id |-> notes[i].id, who |-> From(h)] : i \in {j \in DOMAIN notes : notes[j].about = "hotline"}}

\* One after the other: with the first write that fails the rest is not sent.
SendNotifications(h) ==
  /\ At(h, "notify")
  /\ \/ /\ Sent(h, Notes(h))
        /\ handler' = [handler EXCEPT ![h].told = @ \/ From(h) \in Notified(Notes(h)),
             ![h].pc = CASE NewUsers(h) # {} -> "expire"
                         [] Command1(h) \in {"NONE", "BROADCAST"} -> "count"
                         [] OTHER -> "end"]
        /\ UNCHANGED <<neglected, faults>>
     \/ /\ Fault
        /\ \E k \in 0..(Len(Notes(h)) - 1) : Sent(h, SubSeq(Notes(h), 1, k))
        /\ Finish(h, TRUE)
  /\ UNCHANGED <<kind, tables, counts, inbox, timers, resend, drops, raced>>

SetExpiryTimeForNewUsers(h) ==
  /\ At(h, "expire")
  /\ SetExpiration(NewUsers(h), Chan(h).set.expiry)
  /\ IF faults' = faults THEN Step(h, "end") /\ UNCHANGED neglected ELSE Finish(h, TRUE)
  /\ UNCHANGED <<kind, tables, counts, inbox, resending, out, announced, raced>>

\* mutant: broadcasts are counted by whom the channel has now
CountNow(h) ==
  /\ At(h, "count")
  /\ \/ /\ counts' = IF Command1(h) = "BROADCAST"
                     THEN [counts EXCEPT !.broadcast = @ + Cardinality(MembersOf(members))]
                     ELSE [counts EXCEPT !.hotline = @ + Cardinality(AdminsOf(Chan(h).members))]
        /\ Finish(h, Chan(h).members[From(h)] # handler[h].sender)
        /\ UNCHANGED faults
     \/ Fault /\ Finish(h, TRUE) /\ UNCHANGED counts
  /\ UNCHANGED <<kind, tables, inbox, timers, resending, out, announced, raced>>

\* countBroadcast, countHotline.
Count(h) ==
  /\ At(h, "count")
  /\ \/ /\ LET to == Chan(h).members IN
           counts' = IF Command1(h) = "BROADCAST"
                     THEN [counts EXCEPT !.broadcast = @ + Cardinality(MembersOf(to))]
                     ELSE [counts EXCEPT !.hotline = @ + Cardinality(AdminsOf(to))]
        /\ Finish(h, Chan(h).members[From(h)] # handler[h].sender)
        /\ UNCHANGED faults
     \/ Fault /\ Finish(h, TRUE) /\ UNCHANGED counts
  /\ UNCHANGED <<kind, tables, inbox, timers, resending, out, announced, raced>>

\* Channel and sender are read by two statements at once: a sender whom only one
\* of them knows as a member may hear nothing.
End(h) ==
  /\ At(h, "end")
  /\ Finish(h, Chan(h).members[From(h)] # handler[h].sender)
  /\ UNCHANGED <<kind, tables, counts, inbox, timers, resending, out, announced, raced, faults>>

-----------------------------------------------------------------------------
(* Expiry of hotline messages, and rate limits.                            *)

DeleteExpired ==
  /\ \E k \in 0..lastId : hotline' = {x \in hotline : x.id > k}
  /\ UNCHANGED <<kind, members, settings, banned, invites, waitlist, lastId, counts, inbox,
                 handler, timers, resending, out, history>>

\* mutant: every resend waits the shortest interval
EnqueueAlike == resend' = [interval |-> 1, waiting |-> resend.waiting + 1]

\* A copy is given up when its interval would be too long, and with it the entry
\* that all copies of a text to one recipient share; nothing else removes it.
EnqueueResend ==
  LET interval == IF resend.interval > 0 THEN 2 * resend.interval ELSE 1 IN
  resend' = IF interval > MaxInterval
            THEN [resend EXCEPT !.interval = 0]
            ELSE [interval |-> interval, waiting |-> resend.waiting + 1]

\* signalc reports that a copy was dropped.
Drop ==
  /\ air > 0 /\ drops < MaxDrops
  /\ drops' = drops + 1 /\ air' = air - 1
  /\ EnqueueResend
  /\ UNCHANGED <<kind, tables, counts, inbox, handler, timers, out, history>>

ResendAfter ==
  /\ resend.waiting > 0
  /\ resend' = [resend EXCEPT !.waiting = @ - 1]
  /\ air' = air + 1
  /\ out' = [out EXCEPT !.resends = @ + 1]
  /\ UNCHANGED <<kind, tables, counts, inbox, handler, timers, drops, history>>

Arrive ==
  /\ air > 0 /\ air' = air - 1
  /\ UNCHANGED <<kind, tables, counts, inbox, handler, timers, resend, drops, out, history>>

Handle(h) ==
  \/ Receive(h) \/ FetchChannel(h) \/ ClassifyPhoneNumber(h) \/ DetectBanned(h)
  \/ UpdateExpiryTime(h) \/ EnforceExpiryTime(h)
  \/ ProcessCommand(h)
  \/ Respond(h) \/ SendNotifications(h) \/ SetExpiryTimeForNewUsers(h) \/ Count(h) \/ End(h)

Next == (\E h \in Handler : Handle(h)) \/ DeleteExpired \/ Drop \/ ResendAfter \/ Arrive

Spec == Init /\ [][Next]_vars

-----------------------------------------------------------------------------
(* Properties.                                                             *)

Quiet == \A h \in Handler : At(h, "idle")

\* The tallies never run ahead of what was sent, and without a failure they
\* reach it, however broadcasts, hotline messages and changes of the membership
\* interleave (messenger.js 76, 106; messageCount.js).
CountsMatchSent ==
  /\ counts.broadcast <= out.copies /\ counts.hotline <= out.hotline
  /\ counts.command <= out.command
  /\ Quiet /\ faults = 0 => counts.broadcast = out.copies /\ counts.hotline = out.hotline

\* Everybody whose message is handled to its end hears of it: an answer, or a
\* copy of what was relayed (messenger.js 78-92).
Answered == neglected = {}

\* When nothing failed and no message overlapped a change of the timer, then all
\* members' timers agree with the channel's, whatever members and others set in
\* their clients, and whoever was added, invited or joined meanwhile.  Those who
\* joined while they were being banned are members whose messages are dropped,
\* and their timers stay as they set them (index.js 197-225, messenger.js 163-207).
TimersAgree ==
  Quiet /\ ~raced /\ faults = 0 =>
    \A p \in MembersOf(members) \ banned : timers[p] = settings.expiry

\* A reply goes to the person whom the admins know by its number, although rows
\* expire and are created anew while admins answer (hotlineMessage.js 16-39).
ReplyReachesAuthor ==
  \A h \in Handler : \A i \in DOMAIN Notes(h) :
    Notes(h)[i].about = "reply" =>
      \A a \in announced : a.id = Notes(h)[i].id => a.who = Notes(h)[i].to

\* The resends of all broadcasts of one text to one recipient are limited by
\* the tries that a broadcast has, although their copies share an entry
\* (resend.js 15-40).
Intervals ==   \* what doubling reaches from the shortest: 1, 2, 4, ...
  {i \in 1..MaxInterval : \A S \in SUBSET (1..MaxInterval) :
     1 \in S /\ (\A j \in S : 2 * j <= MaxInterval => 2 * j \in S) => i \in S}
Tries == Cardinality(Intervals)
ResendsBounded == out.resends + resend.waiting <= Tries * out.originals
=============================================================================
