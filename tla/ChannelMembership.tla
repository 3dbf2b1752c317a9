------------------------- MODULE ChannelMembership -------------------------
(***************************************************************************)
(* Who belongs to one channel, and how the commands that change it         *)
(* interleave (src/app/dispatcher/index.js,                                *)
(* src/app/dispatcher/commands/execute.js and the repositories they call). *)
(*                                                                         *)
(* node runs one event loop, so a handler runs alone between two awaits,   *)
(* and every await of a database statement is a point where another        *)
(* handler may run.  A Task is one inbound message being handled.  It      *)
(* first reads the channel and the sender, then decides on what it READ    *)
(* (snap), while its statements act on what the tables hold by then.       *)
(* Each action below is one database statement with the straight-line code *)
(* after it.                                                               *)
(***************************************************************************)
EXTENDS Integers, Sequences, FiniteSets

CONSTANTS
  Phone,             \* phone numbers that may write to the channel
  NoPhone,           \* stands for "no number" in an idle task
  Task,              \* handlers that may be in flight at the same time
  Founders,          \* sequence of the admins the channel was created with
  SubscriberLimit,   \* channels.subscriberLimit
  VouchLevels,       \* levels the parser accepts (1..maxVouchLevel)
  InvitedElsewhere,  \* numbers that hold an invite to some other channel
  Command,           \* the commands users send in this instance
  MaxMessages        \* bound: messages received in a behaviour

AllCommands ==
  {"ACCEPT", "ADD", "BAN", "DECLINE", "INVITE", "JOIN", "LEAVE", "REMOVE",
   "VOUCHING", "VOUCH_LEVEL"}

ASSUME PhoneAssumption == NoPhone \notin Phone
ASSUME FoundersAssumption ==
  /\ Founders \in Seq(Phone)
  /\ \A i, j \in DOMAIN Founders : Founders[i] = Founders[j] => i = j
ASSUME LimitAssumption == SubscriberLimit \in Nat \ {0}
ASSUME VouchAssumption == VouchLevels \subseteq Nat \ {0} /\ 1 \in VouchLevels
ASSUME CommandAssumption == Command \subseteq AllCommands \cup {"REKEY", "API_ADD"}
ASSUME BoundAssumption == MaxMessages \in Nat
ASSUME TaskAssumption == IsFiniteSet(Task) /\ IsFiniteSet(Phone)

VARIABLES
  memberType,   \* memberships.type, "NONE" where there is no row
  adminId,      \* memberships.adminId, 0 for whoever is no admin
  nextAdminId,  \* channels.nextAdminId
  vouchMode,    \* channels.vouchMode
  vouchLevel,   \* channels.vouchLevel
  invites,      \* rows of invites: <<inviter, invitee>>
  bans,         \* rows of bans
  deauths,      \* rows of deauthorizations
  pc,           \* the next statement of each task
  job,          \* the message each task handles
  snap,         \* what each task read when it started
  pending,      \* statements of a Promise.all a task still awaits, or the
                \* uncommitted write of its transaction
  readId,       \* the nextAdminId an ADD read
  received,     \* messages received so far
  settledBans,  \* history: bans carried out while nothing cleared was in flight
  settledDeauths, \* history: the same of deauthorizations
  everInvited   \* history: every invite ever issued

tables == <<memberType, adminId, nextAdminId, vouchMode, vouchLevel,
            invites, bans, deauths>>
handlers == <<pc, job, snap, pending, readId>>
history == <<settledBans, settledDeauths, everInvited>>
vars == <<tables, handlers, received, history>>

MemberType == {"ADMIN", "SUBSCRIBER", "NONE"}
VouchMode == {"ON", "OFF", "ADMIN"}
Pc == {"idle", "fetch", "execute",
       "countInvites", "findInviter", "acceptWrites",
       "clearDeauth", "addBanCheck", "addRead", "addFind", "addPromote",
       "addAdvance", "addCommit",
       "banCreate", "banDestroy",
       "inviteMember", "inviteIssue",
       "removeWrite",
       "rekeyResolve", "rekeyRemove", "rekeyDeauth"}

Job == [cmd : AllCommands \cup {"REKEY", "API_ADD", "NONE"},
        sender : Phone \cup {NoPhone},
        target : Phone \cup {NoPhone}]
NoJob == [cmd |-> "NONE", sender |-> NoPhone, target |-> NoPhone]

Snap == [senderType : MemberType, room : BOOLEAN, mode : VouchMode,
         level : Nat, deauthed : BOOLEAN, listed : BOOLEAN]
NoSnap == [senderType |-> "NONE", room |-> FALSE, mode |-> "OFF",
           level |-> 1, deauthed |-> FALSE, listed |-> FALSE]

\* Rows of the other tables, of one channel.
Invite == Phone \X Phone
Ban == Phone
Deauthorization == Phone

Subscribers == {p \in Phone : memberType[p] = "SUBSCRIBER"}
Inviters(p) == {i \in Phone : <<i, p>> \in invites}

-----------------------------------------------------------------------------
(* The state right after the channel was created (channelRepository.create). *)

IsFounder(p) == \E i \in DOMAIN Founders : Founders[i] = p
FounderId(p) == CHOOSE i \in DOMAIN Founders : Founders[i] = p

Init ==
  /\ memberType = [p \in Phone |-> IF IsFounder(p) THEN "ADMIN" ELSE "NONE"]
  /\ adminId = [p \in Phone |-> IF IsFounder(p) THEN FounderId(p) ELSE 0]
  /\ nextAdminId = Len(Founders) + 1
  /\ vouchMode = "OFF"
  /\ vouchLevel = 1
  /\ invites = {}
  /\ bans = {}
  /\ deauths = {}
  /\ pc = [t \in Task |-> "idle"]
  /\ job = [t \in Task |-> NoJob]
  /\ snap = [t \in Task |-> NoSnap]
  /\ pending = [t \in Task |-> {}]
  /\ readId = [t \in Task |-> 0]
  /\ received = 0
  /\ settledBans = {}
  /\ settledDeauths = {}
  /\ everInvited = {}

-----------------------------------------------------------------------------
(* Steps shared by the handlers. *)

\* The handler returns: its task is free for another message.
Finish(t) ==
  /\ pc' = [pc EXCEPT ![t] = "idle"]
  /\ job' = [job EXCEPT ![t] = NoJob]
  /\ snap' = [snap EXCEPT ![t] = NoSnap]
  /\ pending' = [pending EXCEPT ![t] = {}]
  /\ readId' = [readId EXCEPT ![t] = 0]

Goto(t, label) ==
  /\ pc' = [pc EXCEPT ![t] = label]
  /\ UNCHANGED <<job, snap, pending, readId>>

\* The handler awaited a read: it goes on if the answer allows, else returns.
Proceed(t, allowed, label) == IF allowed THEN Goto(t, label) ELSE Finish(t)

Start(t, newJob, label, reads) ==
  /\ pc[t] = "idle"
  /\ received < MaxMessages
  /\ received' = received + 1
  /\ pc' = [pc EXCEPT ![t] = label]
  /\ job' = [job EXCEPT ![t] = newJob]
  /\ pending' = [pending EXCEPT ![t] = reads]
  /\ UNCHANGED <<snap, readId, tables, history>>

\* Task t's transaction has written the row of p and not committed yet.
HoldsWrite(t, p, write) == job[t].target = p /\ write \in pending[t]

\* membershipRepository.removeMember: the row is deleted, if there is one.  A
\* delete waits for the transaction that updated the row.
DeleteMember(p) ==
  /\ \A t \in Task : ~HoldsWrite(t, p, "update")
  /\ memberType' = [memberType EXCEPT ![p] = "NONE"]
  /\ adminId' = [adminId EXCEPT ![p] = 0]

\* membershipRepository.addSubscriber: findOrCreate with the type in the
\* `where`; the unique index on (channel, member) turns the insert for an
\* admin into an error and leaves the row as it is, and makes an insert wait
\* for the transaction that inserted the same number.
AddSubscriber(p) ==
  /\ \A t \in Task : ~HoldsWrite(t, p, "insert")
  /\ memberType' = [memberType EXCEPT ![p] = IF @ = "NONE" THEN "SUBSCRIBER" ELSE @]

-----------------------------------------------------------------------------
(* dispatchOne: two reads in a Promise.all, then the ban check.            *)

Targeted == {"ADD", "BAN", "INVITE", "REMOVE"}

Receive(t) ==
  \E cmd \in Command \cap AllCommands, sender, target \in Phone :
    /\ cmd \notin Targeted => target = sender
    /\ Start(t, [cmd |-> cmd, sender |-> sender, target |-> target],
             "fetch", {"channel", "sender"})

CanAddSubscribers == Cardinality(Subscribers) + 1 <= SubscriberLimit

\* channelRepository.findDeep
FetchChannel(t) ==
  /\ pc[t] = "fetch"
  /\ "channel" \in pending[t]
  /\ snap' = [snap EXCEPT ![t] =
                [senderType |-> @.senderType, room |-> CanAddSubscribers,
                 mode |-> vouchMode, level |-> vouchLevel,
                 deauthed |-> job[t].target \in deauths,
                 listed |-> memberType[job[t].target] # "NONE"]]
  /\ pending' = [pending EXCEPT ![t] = @ \ {"channel"}]
  /\ UNCHANGED <<pc, job, readId, received, tables, history>>

\* classifyPhoneNumber
FetchSender(t) ==
  /\ pc[t] = "fetch"
  /\ "sender" \in pending[t]
  /\ snap' = [snap EXCEPT ![t].senderType = memberType[job[t].sender]]
  /\ pending' = [pending EXCEPT ![t] = @ \ {"sender"}]
  /\ UNCHANGED <<pc, job, readId, received, tables, history>>

\* mutant: messages of banned numbers are processed
DetectBannedIgnored(t) ==
  /\ pc[t] = "fetch"
  /\ pending[t] = {}
  /\ Goto(t, "execute")
  /\ UNCHANGED <<received, tables, history>>

\* detectBanned: a message from a banned number is dropped.
DetectBanned(t) ==
  /\ pc[t] = "fetch"
  /\ pending[t] = {}
  /\ Proceed(t, job[t].sender \notin bans, "execute")
  /\ UNCHANGED <<received, tables, history>>

ValidSubscriberCommands == {"ACCEPT", "DECLINE", "INVITE", "JOIN", "LEAVE"}

\* mutant: anybody may use the admin commands
PermittedToAnyone(t) ==
  LET s == snap[t] IN
  /\ job[t].cmd = "JOIN" => s.room /\ s.senderType = "NONE" /\ s.mode = "OFF"
  /\ job[t].cmd \in {"ACCEPT", "INVITE"} => s.room

\* mutant: JOIN and ACCEPT do not look at the subscriber limit
PermittedWithoutRoom(t) ==
  LET s == snap[t] IN
  /\ job[t].cmd \notin ValidSubscriberCommands => s.senderType = "ADMIN"
  /\ job[t].cmd = "JOIN" => s.senderType = "NONE" /\ s.mode = "OFF"
  /\ job[t].cmd = "LEAVE" => s.senderType # "NONE"

\* What interveneIfBadMessage and the first lines of each command demand of
\* the snapshot; they await nothing.
Permitted(t) ==
  LET s == snap[t] IN
  /\ job[t].cmd \notin ValidSubscriberCommands => s.senderType = "ADMIN"
  /\ job[t].cmd = "JOIN" => s.room /\ s.senderType = "NONE" /\ s.mode = "OFF"
  /\ job[t].cmd = "ACCEPT" => s.room
  /\ job[t].cmd = "INVITE" =>
       /\ s.room
       /\ s.senderType # "NONE"
       /\ s.senderType = "ADMIN" \/ s.mode # "ADMIN"
  /\ job[t].cmd = "LEAVE" => s.senderType # "NONE"

Refuse(t) ==
  /\ pc[t] = "execute"
  /\ ~Permitted(t)
  /\ Finish(t)
  /\ UNCHANGED <<received, tables, history>>

Runs(t, cmd) == pc[t] = "execute" /\ job[t].cmd = cmd /\ Permitted(t)

-----------------------------------------------------------------------------
(* JOIN, LEAVE, DECLINE and the settings: one statement each. *)

Join(t) ==
  /\ Runs(t, "JOIN")
  /\ AddSubscriber(job[t].sender)
  /\ Finish(t)
  /\ UNCHANGED <<adminId, nextAdminId, vouchMode, vouchLevel, invites, bans,
                 deauths, received, history>>

Leave(t) ==
  /\ Runs(t, "LEAVE")
  /\ DeleteMember(job[t].sender)
  /\ Finish(t)
  /\ UNCHANGED <<nextAdminId, vouchMode, vouchLevel, invites, bans, deauths,
                 received, history>>

Decline(t) ==
  /\ Runs(t, "DECLINE")
  /\ invites' = {i \in invites : i[2] # job[t].sender}
  /\ Finish(t)
  /\ UNCHANGED <<memberType, adminId, nextAdminId, vouchMode, vouchLevel, bans,
                 deauths, received, history>>

SetVouchMode(t) ==
  /\ Runs(t, "VOUCHING")
  /\ vouchMode' \in VouchMode
  /\ Finish(t)
  /\ UNCHANGED <<memberType, adminId, nextAdminId, vouchLevel, invites, bans,
                 deauths, received, history>>

SetVouchLevel(t) ==
  /\ Runs(t, "VOUCH_LEVEL")
  /\ vouchLevel' \in VouchLevels
  /\ Finish(t)
  /\ UNCHANGED <<memberType, adminId, nextAdminId, vouchMode, invites, bans,
                 deauths, received, history>>

-----------------------------------------------------------------------------
(* INVITE: findBanned, isMember, issue. *)

InviteFindBanned(t) ==
  /\ Runs(t, "INVITE")
  /\ Proceed(t, job[t].target \notin bans, "inviteMember")
  /\ UNCHANGED <<received, tables, history>>

InviteIsMember(t) ==
  /\ pc[t] = "inviteMember"
  /\ Proceed(t, memberType[job[t].target] = "NONE", "inviteIssue")
  /\ UNCHANGED <<received, tables, history>>

\* inviteRepository.issue: one row per (inviter, invitee)
InviteIssue(t) ==
  /\ pc[t] = "inviteIssue"
  /\ invites' = invites \cup {<<job[t].sender, job[t].target>>}
  /\ everInvited' = everInvited \cup {<<job[t].sender, job[t].target>>}
  /\ Finish(t)
  /\ UNCHANGED <<memberType, adminId, nextAdminId, vouchMode, vouchLevel, bans,
                 deauths, received, settledBans, settledDeauths>>

-----------------------------------------------------------------------------
(* ACCEPT: isMember, count, findInviter, then two statements at once. *)

AcceptIsMember(t) ==
  /\ Runs(t, "ACCEPT")
  /\ Proceed(t, memberType[job[t].sender] = "NONE", "countInvites")
  /\ UNCHANGED <<received, tables, history>>

\* mutant: one invite short of the level is enough
EnoughVouchesOffByOne(t) ==
  \/ snap[t].mode = "OFF"
  \/ Cardinality(Inviters(job[t].sender)) + 1 >= snap[t].level

\* the level asked for is the one of the snapshot, the count is current
EnoughVouches(t) ==
  \/ snap[t].mode = "OFF"
  \/ Cardinality(Inviters(job[t].sender)) >= snap[t].level

AcceptCountInvites(t) ==
  /\ pc[t] = "countInvites"
  /\ Proceed(t, EnoughVouches(t), "findInviter")
  /\ UNCHANGED <<received, tables, history>>

\* findInviter looks an invite up by invitee alone, whatever its channel
AcceptFindInviter(t) ==
  LET p == job[t].sender IN
  /\ pc[t] = "findInviter"
  /\ IF Inviters(p) # {} \/ p \in InvitedElsewhere
       THEN /\ pc' = [pc EXCEPT ![t] = "acceptWrites"]
            /\ pending' = [pending EXCEPT ![t] = {"member", "invites"}]
            /\ UNCHANGED <<job, snap, readId>>
       ELSE Finish(t)
  /\ UNCHANGED <<received, tables, history>>

\* a statement of the Promise.all has been answered
Settle(t, statement) ==
  IF pending[t] = {statement}
    THEN Finish(t)
    ELSE /\ pending' = [pending EXCEPT ![t] = @ \ {statement}]
         /\ UNCHANGED <<pc, job, snap, readId>>

AcceptAddSubscriber(t) ==
  /\ pc[t] = "acceptWrites"
  /\ "member" \in pending[t]
  /\ AddSubscriber(job[t].sender)
  /\ Settle(t, "member")
  /\ UNCHANGED <<adminId, nextAdminId, vouchMode, vouchLevel, invites, bans,
                 deauths, received, history>>

AcceptDeleteInvites(t) ==
  /\ pc[t] = "acceptWrites"
  /\ "invites" \in pending[t]
  /\ invites' = {i \in invites : i[2] # job[t].sender}
  /\ Settle(t, "invites")
  /\ UNCHANGED <<memberType, adminId, nextAdminId, vouchMode, vouchLevel, bans,
                 deauths, received, history>>

-----------------------------------------------------------------------------
(* ADD, and the same repository call made through the HTTP API. *)

\* signal.trust resolved (it may as well time out: see Abort)
AddTrust(t) ==
  /\ Runs(t, "ADD")
  /\ snap[t].deauthed
  /\ Goto(t, "clearDeauth")
  /\ UNCHANGED <<received, tables, history>>

AddClearDeauth(t) ==
  /\ pc[t] = "clearDeauth"
  /\ deauths' = deauths \ {job[t].target}
  /\ settledDeauths' = settledDeauths \ {job[t].target}
  /\ Goto(t, "addBanCheck")
  /\ UNCHANGED <<memberType, adminId, nextAdminId, vouchMode, vouchLevel,
                 invites, bans, received, settledBans, everInvited>>

\* mutant: a deauthorized number is added like any other
AddIsBannedUntrusted(t) ==
  /\ pc[t] = "addBanCheck" \/ Runs(t, "ADD")
  /\ Proceed(t, job[t].target \notin bans, "addRead")
  /\ UNCHANGED <<received, tables, history>>

AddIsBanned(t) ==
  /\ \/ pc[t] = "addBanCheck"
     \/ Runs(t, "ADD") /\ ~snap[t].deauthed
  /\ Proceed(t, job[t].target \notin bans, "addRead")
  /\ UNCHANGED <<received, tables, history>>

\* registrar/channel.addAdmin consults neither bans nor deauthorizations
ReceiveApiAdd(t) ==
  /\ "API_ADD" \in Command
  /\ \E p \in Phone :
       Start(t, [cmd |-> "API_ADD", sender |-> NoPhone, target |-> p],
             "addRead", {})

\* performOpIfChannelExists reads the channel, and with it nextAdminId
AddReadChannel(t) ==
  /\ pc[t] = "addRead"
  /\ readId' = [readId EXCEPT ![t] = nextAdminId]
  /\ pc' = [pc EXCEPT ![t] = "addFind"]
  /\ UNCHANGED <<job, snap, pending, received, tables, history>>

\* a write of the open transaction, which nobody else sees before it commits
Write(t, writes) ==
  /\ pending' = [pending EXCEPT ![t] = writes]
  /\ pc' = [pc EXCEPT ![t] = "addAdvance"]
  /\ UNCHANGED <<job, snap, readId>>

\* findOrCreate in the transaction: inserts a new row, finds an old one
AddFindOrCreate(t) ==
  LET p == job[t].target IN
  /\ pc[t] = "addFind"
  /\ CASE memberType[p] = "ADMIN" -> Goto(t, "addAdvance")
       [] memberType[p] = "SUBSCRIBER" -> Goto(t, "addPromote")
       [] OTHER -> /\ \A u \in Task : ~HoldsWrite(u, p, "insert")
                   /\ Write(t, {"insert"})
  /\ UNCHANGED <<received, tables, history>>

\* membership.update in the transaction: waits for another one's update, and
\* updates nothing when the row it found is gone
AddPromote(t) ==
  LET p == job[t].target IN
  /\ pc[t] = "addPromote"
  /\ \A u \in Task : ~HoldsWrite(u, p, "update")
  /\ Write(t, IF memberType[p] = "NONE" THEN {} ELSE {"update"})
  /\ UNCHANGED <<received, tables, history>>

\* channel.update is not given the transaction: it commits at once, and also
\* when the number was an admin already
AddAdvanceNextId(t) ==
  /\ pc[t] = "addAdvance"
  /\ nextAdminId' = readId[t] + 1
  /\ Goto(t, "addCommit")
  /\ UNCHANGED <<memberType, adminId, vouchMode, vouchLevel, invites, bans,
                 deauths, received, history>>

AddCommit(t) ==
  LET p == job[t].target
      settled(S) == IF job[t].cmd = "API_ADD" THEN S \ {p} ELSE S
  IN
  /\ pc[t] = "addCommit"
  /\ IF pending[t] = {}
       THEN UNCHANGED <<memberType, adminId>>
       ELSE /\ memberType' = [memberType EXCEPT ![p] = "ADMIN"]
            /\ adminId' = [adminId EXCEPT ![p] = readId[t]]
  /\ settledBans' = settled(settledBans)
  /\ settledDeauths' = settled(settledDeauths)
  /\ Finish(t)
  /\ UNCHANGED <<nextAdminId, vouchMode, vouchLevel, invites, bans, deauths,
                 received, everInvited>>

-----------------------------------------------------------------------------
(* REMOVE.  The notices are written from the snapshot before the row is     *)
(* deleted: a member who is not in it makes the handler throw.              *)

RemoveResolveType(t) ==
  /\ Runs(t, "REMOVE")
  /\ Proceed(t, memberType[job[t].target] # "NONE" /\ snap[t].listed, "removeWrite")
  /\ UNCHANGED <<received, tables, history>>

RemoveWrite(t) ==
  /\ pc[t] = "removeWrite"
  /\ DeleteMember(job[t].target)
  /\ Finish(t)
  /\ UNCHANGED <<nextAdminId, vouchMode, vouchLevel, invites, bans, deauths,
                 received, history>>

-----------------------------------------------------------------------------
(* BAN.  The transaction banMember opens is passed to neither statement, so  *)
(* each commits on its own.                                                  *)

BanIsBanned(t) ==
  /\ Runs(t, "BAN")
  /\ Proceed(t, job[t].target \notin bans, "banCreate")
  /\ UNCHANGED <<received, tables, history>>

\* a second row for the same number violates the unique constraint
BanCreate(t) ==
  /\ pc[t] = "banCreate"
  /\ bans' = bans \cup {job[t].target}
  /\ Proceed(t, job[t].target \notin bans, "banDestroy")
  /\ UNCHANGED <<memberType, adminId, nextAdminId, vouchMode, vouchLevel,
                 invites, deauths, received, history>>

\* Task t is past the ban check of a handler that can still make p a member.
Cleared(t, p) ==
  \/ /\ job[t].sender = p
     /\ job[t].cmd \in {"JOIN", "ACCEPT"}
     /\ pc[t] \in {"execute", "countInvites", "findInviter", "acceptWrites"}
  \/ /\ job[t].target = p
     /\ job[t].cmd = "ADD"
     /\ pc[t] \in {"addRead", "addFind", "addPromote", "addAdvance", "addCommit"}

BanDestroyMembership(t) ==
  LET p == job[t].target IN
  /\ pc[t] = "banDestroy"
  /\ DeleteMember(p)
  /\ settledBans' = IF \E u \in Task : Cleared(u, p) THEN settledBans
                                                      ELSE settledBans \cup {p}
  /\ Finish(t)
  /\ UNCHANGED <<nextAdminId, vouchMode, vouchLevel, invites, bans, deauths,
                 received, settledDeauths, everInvited>>

-----------------------------------------------------------------------------
(* A changed safety number (safetyNumbers.updateFingerprint). *)

ReceiveIdentityFailure(t) ==
  /\ "REKEY" \in Command
  /\ \E p \in Phone :
       Start(t, [cmd |-> "REKEY", sender |-> NoPhone, target |-> p],
             "rekeyResolve", {})

\* members who are no admin are trusted again, which changes no table
RekeyResolveType(t) ==
  /\ pc[t] = "rekeyResolve"
  /\ Proceed(t, memberType[job[t].target] = "ADMIN", "rekeyRemove")
  /\ UNCHANGED <<received, tables, history>>

RekeyRemoveMember(t) ==
  /\ pc[t] = "rekeyRemove"
  /\ DeleteMember(job[t].target)
  /\ Goto(t, "rekeyDeauth")
  /\ UNCHANGED <<nextAdminId, vouchMode, vouchLevel, invites, bans, deauths,
                 received, history>>

\* Task t may make p an admin without trusting a key changed from now on.
Trusting(t, p) ==
  /\ job[t].target = p
  /\ job[t].cmd \in {"ADD", "API_ADD"}
  /\ ~(pc[t] = "fetch" /\ "channel" \in pending[t])

RekeyDeauthorize(t) ==
  LET p == job[t].target IN
  /\ pc[t] = "rekeyDeauth"
  /\ deauths' = deauths \cup {p}
  /\ settledDeauths' =
       IF memberType[p] = "ADMIN" \/ \E u \in Task : Trusting(u, p)
         THEN settledDeauths ELSE settledDeauths \cup {p}
  /\ Finish(t)
  /\ UNCHANGED <<memberType, adminId, nextAdminId, vouchMode, vouchLevel,
                 invites, bans, received, settledBans, everInvited>>

-----------------------------------------------------------------------------
(* The invite scrubbing job, and statements that fail. *)

\* inviteRepository.deleteExpired; which rows are old enough is not modelled
DeleteExpiredInvites ==
  /\ \E kept \in SUBSET invites : kept # invites /\ invites' = kept
  /\ UNCHANGED <<memberType, adminId, nextAdminId, vouchMode, vouchLevel, bans,
                 deauths, handlers, received, history>>

\* The statement (or the request to signald) the task awaits is rejected: what
\* was written before it stays.  A crash of the process aborts every task.
Abort(t) ==
  /\ pc[t] # "idle"
  /\ Finish(t)
  /\ UNCHANGED <<received, tables, history>>

Step(t) ==
  \/ FetchChannel(t) \/ FetchSender(t) \/ DetectBanned(t) \/ Refuse(t)
  \/ Join(t) \/ Leave(t) \/ Decline(t) \/ SetVouchMode(t) \/ SetVouchLevel(t)
  \/ InviteFindBanned(t) \/ InviteIsMember(t) \/ InviteIssue(t)
  \/ AcceptIsMember(t) \/ AcceptCountInvites(t) \/ AcceptFindInviter(t)
  \/ AcceptAddSubscriber(t) \/ AcceptDeleteInvites(t)
  \/ AddTrust(t) \/ AddClearDeauth(t) \/ AddIsBanned(t)
  \/ AddReadChannel(t) \/ AddFindOrCreate(t) \/ AddPromote(t)
  \/ AddAdvanceNextId(t) \/ AddCommit(t)
  \/ RemoveResolveType(t) \/ RemoveWrite(t)
  \/ BanIsBanned(t) \/ BanCreate(t) \/ BanDestroyMembership(t)
  \/ RekeyResolveType(t) \/ RekeyRemoveMember(t) \/ RekeyDeauthorize(t)
  \/ Abort(t)

Arrive(t) == Receive(t) \/ ReceiveApiAdd(t) \/ ReceiveIdentityFailure(t)

Next ==
  \/ \E t \in Task : Arrive(t) \/ Step(t)
  \/ DeleteExpiredInvites

Spec == Init /\ [][Next]_vars

-----------------------------------------------------------------------------
(* Properties. *)

\* Every variable keeps its type.
TypeOK ==
  /\ memberType \in [Phone -> MemberType]
  /\ adminId \in [Phone -> Nat]
  /\ nextAdminId \in Nat \ {0}
  /\ vouchMode \in VouchMode
  /\ vouchLevel \in VouchLevels
  /\ invites \subseteq Invite
  /\ bans \subseteq Ban
  /\ deauths \subseteq Deauthorization
  /\ pc \in [Task -> Pc]
  /\ job \in [Task -> Job]
  /\ snap \in [Task -> Snap]
  /\ pending \in [Task -> SUBSET {"channel", "sender", "member", "invites",
                                "insert", "update"}]
  /\ readId \in [Task -> Nat]
  /\ received \in 0..MaxMessages
  /\ settledBans \subseteq Phone
  /\ settledDeauths \subseteq Phone
  /\ everInvited \subseteq Phone \X Phone

\* A ban carried out to its end while no handler already past the ban check could
\* still make the number a member keeps it out for good: no JOIN, ACCEPT or ADD,
\* however late its statements run, brings it back (the HTTP API excepted, which
\* checks no bans).
SettledBansHold == \A p \in settledBans : memberType[p] = "NONE"

\* An admin whose safety number changed is removed and deauthorized, and once that
\* is done while no ADD that read the channel earlier is in flight, the number is
\* no admin until an ADD trusts the new key and deletes the deauthorization.
SettledDeauthsHold == \A p \in settledDeauths : memberType[p] # "ADMIN"

\* The subscriber limit is checked on the snapshot and the row inserted later:
\* handlers in flight can exceed it, but never by more than there are others.
OvershootBounded ==
  Cardinality(Subscribers) <= SubscriberLimit + Cardinality(Task) - 1

\* Whoever becomes a subscriber was let in by a handler of their own message that
\* saw vouching off, or was invited by as many different numbers as that handler
\* saw required.
VouchedEntry ==
  [][\A p \in Phone :
       memberType[p] # "SUBSCRIBER" /\ memberType'[p] = "SUBSCRIBER" =>
         \E t \in Task :
           /\ job[t].sender = p
           /\ \/ snap[t].mode = "OFF"
              \/ Cardinality({i \in Phone : <<i, p>> \in everInvited})
                   >= snap[t].level]_vars

\* A number becomes an admin only through an ADD whose sender was an admin when
\* the handler started and whose number was not banned when it was checked, or
\* through the HTTP API: no other interleaving of commands promotes anyone.
AdminsAppointed ==
  [][\A p \in Phone :
       memberType[p] # "ADMIN" /\ memberType'[p] = "ADMIN" =>
         \E t \in Task :
           /\ job[t].target = p
           /\ \/ job[t].cmd = "API_ADD"
              \/ job[t].cmd = "ADD" /\ snap[t].senderType = "ADMIN"]_vars
=============================================================================
