------------------------- MODULE ChannelDestruction -------------------------
(***************************************************************************)
(* How a channel is destroyed: requests over the HTTP API, the hourly job  *)
(* that warns admins and destroys channels whose grace period is over,     *)
(* messages that redeem a channel, and admins who destroy it at once       *)
(* (src/app/registrar/phoneNumber/destroy.js, the repositories it uses and *)
(* the part of src/app/dispatcher/index.js that detects redemptions).      *)
(*                                                                         *)
(* Tasks of one node process interleave wherever they await.  The rows a   *)
(* transaction deletes stay visible to others, and locked, until it        *)
(* commits.  The job is modelled as it is written; jobs.js has its launch  *)
(* commented out at this commit, which is the instance with Job = {}.      *)
(* Timestamps are kept as ages: a tick makes each of them one tick older,  *)
(* up to an age past which no query tells them apart.                      *)
(***************************************************************************)
EXTENDS Naturals, FiniteSets

CONSTANTS
  Channel,     \* channels, each named by its phone number
  NoChannel,   \* stands for "no channel" in an idle task
  Job,         \* runs of processDestructionRequests that may overlap
  Admin,       \* handlers of an admin's confirmed DESTROY
  Message,     \* handlers of the messages that redeem a channel
  Request,     \* handlers of DELETE /phoneNumbers
  Grace,       \* channelDestructionGracePeriod, in ticks
  Period,      \* channelDestructionInterval, in ticks
  Prompt,      \* the job runs on time, and a task takes less than a tick
  MaxFailures  \* bound: failing statements, sends, services, and crashes

NotificationInterval == Grace \div 3
Oldest == Grace + 1

ASSUME ChannelAssumption == NoChannel \notin Channel
ASSUME TaskAssumption == Job \cap Admin = {} /\ Message \cap Request = {}
ASSUME TimeAssumption ==
  /\ Grace \in Nat
  /\ NotificationInterval \in Nat \ {0}
  /\ Period \in Nat \ {0}
  /\ Prompt \in BOOLEAN
ASSUME BoundAssumption == MaxFailures \in Nat

VARIABLES
  channels,      \* rows of channels
  phoneNumbers,  \* rows of phoneNumbers
  requests,      \* rows of destructionRequests
  createdAt,     \* their createdAt, as an age
  lastNotifiedAt,\* their lastNotifiedAt, as an age
  owned,         \* numbers rented from Twilio
  keystore,      \* numbers with keys in signald's keystore
  subscribed,    \* numbers signald receives messages for
  pc,            \* where each run of the job and each handler of DESTROY is
  toNotify,      \* rows each run of the job is warning about
  timestamp,     \* age of the run's timestamp
  toDestroy,     \* mature rows each run has read
  remaining,     \* those it has not come to yet
  target,        \* the channel each call of destroy is for
  found,         \* which of its rows the call found
  deleted,       \* which of them its transaction has deleted
  redeeming,     \* the channel each message handler is about to redeem
  announcing,    \* the channel each request handler is about to tell
  sinceJob,      \* ticks since a run of the job started
  failures,      \* failures so far
  notices,       \* history: notices the admins got of the present request
  redeemed,      \* history: channels redeemed and not requested again
  settled,       \* history: those redeemed while no job run listed them
  destroyedByJob \* history: channels that a job run deleted

tables == <<channels, phoneNumbers, requests, createdAt, lastNotifiedAt>>
services == <<owned, keystore, subscribed>>
lists == <<toNotify, timestamp, toDestroy, remaining>>
calls == <<target, found, deleted>>
handlers == <<redeeming, announcing>>
history == <<notices, redeemed, settled, destroyedByJob>>
vars == <<tables, services, pc, lists, calls, handlers, sinceJob, failures, history>>

Task == Job \cup Admin

JobPc == {"idle", "warn", "record", "getMature", "next"}
DestroyPc == {"findChannel", "findPhoneNumber", "deletePhoneNumber", "release",
              "deleteChannel", "unsubscribe", "deleteKeystore", "commit"}
Rows == {"channel", "phoneNumber"}

TypeOK ==
  /\ channels \subseteq Channel /\ phoneNumbers \subseteq Channel
  /\ requests \subseteq channels
  /\ createdAt \in [Channel -> 0..Oldest] /\ lastNotifiedAt \in [Channel -> 0..Oldest]
  /\ owned \subseteq Channel /\ keystore \subseteq Channel /\ subscribed \subseteq Channel
  /\ pc \in [Task -> JobPc \cup DestroyPc]
  /\ toNotify \in [Job -> SUBSET Channel] /\ timestamp \in [Job -> 0..Oldest]
  /\ toDestroy \in [Job -> SUBSET Channel] /\ remaining \in [Job -> SUBSET Channel]
  /\ target \in [Task -> Channel \cup {NoChannel}]
  /\ found \in [Task -> SUBSET Rows] /\ deleted \in [Task -> SUBSET Rows]
  /\ redeeming \in [Message -> Channel \cup {NoChannel}]
  /\ announcing \in [Request -> Channel \cup {NoChannel}]
  /\ sinceJob \in 0..Period
  /\ failures \in 0..MaxFailures
  /\ notices \in [Channel -> 0..3]
  /\ settled \subseteq redeemed /\ redeemed \subseteq Channel
  /\ destroyedByJob \subseteq Channel

\* Channels in use, as create leaves them, and no request yet.
Init ==
  /\ channels = Channel /\ phoneNumbers = Channel
  /\ requests = {}
  /\ createdAt = [c \in Channel |-> 0] /\ lastNotifiedAt = [c \in Channel |-> 0]
  /\ owned = Channel /\ keystore = Channel /\ subscribed = Channel
  /\ pc = [d \in Task |-> "idle"]
  /\ toNotify = [j \in Job |-> {}] /\ timestamp = [j \in Job |-> 0]
  /\ toDestroy = [j \in Job |-> {}] /\ remaining = [j \in Job |-> {}]
  /\ target = [d \in Task |-> NoChannel]
  /\ found = [d \in Task |-> {}] /\ deleted = [d \in Task |-> {}]
  /\ redeeming = [m \in Message |-> NoChannel]
  /\ announcing = [r \in Request |-> NoChannel]
  /\ sinceJob = Period
  /\ failures = 0
  /\ notices = [c \in Channel |-> 0]
  /\ redeemed = {} /\ settled = {} /\ destroyedByJob = {}

-----------------------------------------------------------------------------
(* Shared by the tasks. *)

\* A transaction in progress has deleted the row.  Deleting a channel's row
\* deletes its destruction request too.
Locked(row, c) == \E d \in Task : target[d] = c /\ row \in deleted[d]

\* A run of the job that destroys c, or will.
Lists(j, c) == c \in remaining[j] \/ target[j] = c

CanFail == failures < MaxFailures /\ failures' = failures + 1

\* Admins are told that the destruction of the channels cs is scheduled.
Notify(cs) ==
  notices' = [c \in Channel |-> IF c \in cs /\ notices[c] < 3 THEN notices[c] + 1
                                ELSE notices[c]]

DeleteRequests(cs) ==
  /\ \A c \in cs \cap requests : ~Locked("channel", c)
  /\ requests' = requests \ cs
  /\ createdAt' = [c \in Channel |-> IF c \in cs THEN 0 ELSE createdAt[c]]
  /\ lastNotifiedAt' = [c \in Channel |-> IF c \in cs THEN 0 ELSE lastNotifiedAt[c]]

Quiet ==
  /\ \A d \in Task : pc[d] = "idle"
  /\ \A m \in Message : redeeming[m] = NoChannel
  /\ \A r \in Request : announcing[r] = NoChannel

Goto(d, label) == pc' = [pc EXCEPT ![d] = label]

-----------------------------------------------------------------------------
(* Requests to destroy: requestToDestroy. *)

\* findOrCreate inserts the row, whose foreign key waits for a transaction that
\* is deleting the channel.
Enqueue(r, c) ==
  /\ announcing[r] = NoChannel
  /\ ~Locked("channel", c)
  /\ requests' = requests \cup {c}
  /\ createdAt' = [createdAt EXCEPT ![c] = 0]
  /\ lastNotifiedAt' = [lastNotifiedAt EXCEPT ![c] = 0]
  /\ announcing' = [announcing EXCEPT ![r] = c]
  /\ notices' = [notices EXCEPT ![c] = 0]
  /\ redeemed' = redeemed \ {c}
  /\ settled' = settled \ {c}
  /\ UNCHANGED <<channels, phoneNumbers, services, pc, lists, calls, redeeming, sinceJob,
                 failures, destroyedByJob>>

\* mutant: a second request starts the grace period again
ReceiveRequestAgain(r) == \E c \in channels : Enqueue(r, c)

\* For a channel that does not exist, or is enqueued already, nothing changes.
ReceiveRequest(r) == \E c \in channels \ requests : Enqueue(r, c)

\* notifyAdmins; if a send fails the caller gets an error and the row stays
NotifyRequested(r) ==
  /\ announcing[r] # NoChannel
  /\ \/ Notify({announcing[r]}) /\ UNCHANGED failures
     \/ CanFail /\ UNCHANGED notices
  /\ announcing' = [announcing EXCEPT ![r] = NoChannel]
  /\ UNCHANGED <<tables, services, pc, lists, calls, redeeming, sinceJob, redeemed,
                 settled, destroyedByJob>>

-----------------------------------------------------------------------------
(* Redemption: dispatchOne, detectRedemption and redeem. *)

\* findDeep returns the channel with its request.  A message to any other
\* channel, or one that says DESTROY, changes nothing here.
ReceiveMessage(m) ==
  /\ redeeming[m] = NoChannel
  /\ \E c \in requests : redeeming' = [redeeming EXCEPT ![m] = c]
  /\ UNCHANGED <<tables, services, pc, lists, calls, announcing, sinceJob, failures,
                 history>>

\* The request of c was there and is redeemed.
RecordRedemption(c) ==
  /\ redeemed' = redeemed \cup ({c} \cap requests)
  /\ settled' = IF \E j \in Job : Lists(j, c) THEN settled
                ELSE settled \cup ({c} \cap requests)

\* mutant: the admins are told of a redemption and the request stays
RedeemKeepsRequest(m) ==
  /\ redeeming[m] # NoChannel
  /\ RecordRedemption(redeeming[m])
  /\ redeeming' = [redeeming EXCEPT ![m] = NoChannel]
  /\ UNCHANGED <<tables, services, pc, lists, calls, announcing, sinceJob, failures,
                 notices, destroyedByJob>>

Redeem(m) ==
  /\ redeeming[m] # NoChannel
  /\ \/ /\ DeleteRequests({redeeming[m]})
        /\ RecordRedemption(redeeming[m])
        /\ UNCHANGED failures
     \/ CanFail /\ UNCHANGED <<requests, createdAt, lastNotifiedAt, redeemed, settled>>
  /\ redeeming' = [redeeming EXCEPT ![m] = NoChannel]
  /\ UNCHANGED <<channels, phoneNumbers, services, pc, lists, calls, announcing, sinceJob,
                 notices, destroyedByJob>>

-----------------------------------------------------------------------------
(* The job: processDestructionRequests. *)

\* mutant: admins are warned when more than a third of the grace period passed
NotifiableLate ==
  {c \in requests : createdAt[c] < Grace /\ lastNotifiedAt[c] > NotificationInterval}

Notifiable ==
  {c \in requests : createdAt[c] < Grace /\ lastNotifiedAt[c] >= NotificationInterval}

Mature == {c \in requests : createdAt[c] >= Grace}

EndJob(j) ==
  /\ Goto(j, "idle")
  /\ toNotify' = [toNotify EXCEPT ![j] = {}]
  /\ timestamp' = [timestamp EXCEPT ![j] = 0]
  /\ toDestroy' = [toDestroy EXCEPT ![j] = {}]
  /\ remaining' = [remaining EXCEPT ![j] = {}]

\* getNotifiableDestructionRequests, and the timestamp taken right after it
StartJob(j) ==
  /\ pc[j] = "idle"
  /\ Prompt => sinceJob = Period
  /\ Goto(j, "warn")
  /\ toNotify' = [toNotify EXCEPT ![j] = Notifiable]
  /\ sinceJob' = 0
  /\ UNCHANGED <<tables, services, timestamp, toDestroy, remaining, calls, handlers,
                 failures, history>>

\* _warnOfPendingDestruction: one failing send ends the run, while the sends to
\* other channels go on.
Warn(j) ==
  /\ pc[j] = "warn"
  /\ \/ /\ Notify(toNotify[j])
        /\ Goto(j, "record")
        /\ UNCHANGED <<lists, failures>>
     \/ /\ CanFail
        /\ \E sent \in SUBSET toNotify[j] : sent # toNotify[j] /\ Notify(sent)
        /\ EndJob(j)
  /\ UNCHANGED <<tables, services, calls, handlers, sinceJob, redeemed, settled,
                 destroyedByJob>>

\* recordNotifications
RecordNotifications(j) ==
  /\ pc[j] = "record"
  /\ \A c \in toNotify[j] \cap requests : ~Locked("channel", c)
  /\ lastNotifiedAt' = [c \in Channel |-> IF c \in toNotify[j] \cap requests
                                          THEN timestamp[j] ELSE lastNotifiedAt[c]]
  /\ Goto(j, "getMature")
  /\ toNotify' = [toNotify EXCEPT ![j] = {}]
  /\ timestamp' = [timestamp EXCEPT ![j] = 0]
  /\ UNCHANGED <<channels, phoneNumbers, requests, createdAt, services, toDestroy,
                 remaining, calls, handlers, sinceJob, failures, history>>

\* getMatureDestructionRequests
GetMature(j) ==
  /\ pc[j] = "getMature"
  /\ Goto(j, "next")
  /\ toDestroy' = [toDestroy EXCEPT ![j] = Mature]
  /\ remaining' = [remaining EXCEPT ![j] = Mature]
  /\ UNCHANGED <<tables, services, toNotify, timestamp, calls, handlers, sinceJob,
                 failures, history>>

\* destroy(c) is called, by a run of the job or by an admin's handler.
CallDestroy(d, c) ==
  /\ Goto(d, "findChannel")
  /\ target' = [target EXCEPT ![d] = c]
  /\ UNCHANGED <<found, deleted>>

\* The next of the sequence: what was read above is not read again.
DestroyNext(j) ==
  /\ pc[j] = "next"
  /\ \E c \in remaining[j] :
       /\ remaining' = [remaining EXCEPT ![j] = remaining[j] \ {c}]
       /\ CallDestroy(j, c)
  /\ UNCHANGED <<tables, services, toNotify, timestamp, toDestroy, handlers, sinceJob,
                 failures, history>>

\* destroyMany: the requests whose channels could not be destroyed go too
DestroyMany(j) ==
  /\ pc[j] = "next"
  /\ remaining[j] = {}
  /\ DeleteRequests(toDestroy[j])
  /\ EndJob(j)
  /\ UNCHANGED <<channels, phoneNumbers, services, calls, handlers, sinceJob, failures,
                 history>>

\* A query of the job fails, or the next destroy cannot begin its transaction:
\* the catch tells the maintainers and the run ends.
JobFails(j) ==
  /\ pc[j] \in {"record", "getMature", "next"}
  /\ CanFail
  /\ EndJob(j)
  /\ UNCHANGED <<tables, services, calls, handlers, sinceJob, history>>

-----------------------------------------------------------------------------
(* destroy, called by a run of the job or by an admin's handler d. *)

\* actuallyDestroy
AdminDestroys(a) ==
  /\ pc[a] = "idle"
  /\ \E c \in channels : CallDestroy(a, c)
  /\ UNCHANGED <<tables, services, lists, handlers, sinceJob, failures, history>>

\* destroy returns: the job goes on to its next row.
Return(d) ==
  /\ Goto(d, IF d \in Job THEN "next" ELSE "idle")
  /\ target' = [target EXCEPT ![d] = NoChannel]
  /\ found' = [found EXCEPT ![d] = {}]
  /\ deleted' = [deleted EXCEPT ![d] = {}]

\* channelRepository.findDeep, once the transaction has begun
FindChannel(d) ==
  /\ pc[d] = "findChannel"
  /\ Goto(d, "findPhoneNumber")
  /\ found' = [found EXCEPT ![d] = IF target[d] \in channels THEN {"channel"} ELSE {}]
  /\ UNCHANGED <<tables, services, lists, target, deleted, handlers, sinceJob, failures,
                 history>>

\* phoneNumberRepository.find; when neither row exists destroy returns
FindPhoneNumber(d) ==
  /\ pc[d] = "findPhoneNumber"
  /\ \/ /\ target[d] \in phoneNumbers
        /\ Goto(d, "deletePhoneNumber")
        /\ found' = [found EXCEPT ![d] = found[d] \cup {"phoneNumber"}]
        /\ UNCHANGED <<target, deleted>>
     \/ /\ target[d] \notin phoneNumbers /\ found[d] # {}
        /\ Goto(d, "deleteChannel")
        /\ UNCHANGED calls
     \/ /\ target[d] \notin phoneNumbers /\ found[d] = {}
        /\ Return(d)
  /\ UNCHANGED <<tables, services, lists, handlers, sinceJob, failures, history>>

\* phoneNumberRepository.destroy: waits while another call deletes the row
DeletePhoneNumber(d) ==
  /\ pc[d] = "deletePhoneNumber"
  /\ ~Locked("phoneNumber", target[d])
  /\ Goto(d, "release")
  /\ deleted' = [deleted EXCEPT ![d] =
                   IF target[d] \in phoneNumbers THEN {"phoneNumber"} ELSE {}]
  /\ UNCHANGED <<tables, services, lists, target, found, handlers, sinceJob, failures,
                 history>>

\* releasePhoneNumber: Twilio's 404 for a number already released is no error
Release(d) ==
  /\ pc[d] = "release"
  /\ owned' = owned \ {target[d]}
  /\ Goto(d, IF "channel" \in found[d] THEN "deleteChannel" ELSE "deleteKeystore")
  /\ UNCHANGED <<tables, keystore, subscribed, lists, calls, handlers, sinceJob, failures,
                 history>>

\* channelRepository.destroy and eventRepository.log, in the transaction
DeleteChannel(d) ==
  /\ pc[d] = "deleteChannel"
  /\ ~Locked("channel", target[d])
  /\ Goto(d, "unsubscribe")
  /\ deleted' = [deleted EXCEPT ![d] =
                   IF target[d] \in channels THEN deleted[d] \cup {"channel"}
                   ELSE deleted[d]]
  /\ UNCHANGED <<tables, services, lists, target, found, handlers, sinceJob, failures,
                 history>>

\* signal.unsubscribe
Unsubscribe(d) ==
  /\ pc[d] = "unsubscribe"
  /\ subscribed' = subscribed \ {target[d]}
  /\ Goto(d, "deleteKeystore")
  /\ UNCHANGED <<tables, owned, keystore, lists, calls, handlers, sinceJob, failures,
                 history>>

\* deleteSignalKeystore
DeleteKeystore(d) ==
  /\ pc[d] = "deleteKeystore"
  /\ keystore' = keystore \ {target[d]}
  /\ Goto(d, "commit")
  /\ UNCHANGED <<tables, owned, subscribed, lists, calls, handlers, sinceJob, failures,
                 history>>

\* What d's transaction deletes from a table when it commits.
Gone(d, row) == IF row \in deleted[d] THEN {target[d]} ELSE {}

CommitDeletes(d) ==
  /\ phoneNumbers' = phoneNumbers \ Gone(d, "phoneNumber")
  /\ channels' = channels \ Gone(d, "channel")
  /\ requests' = requests \ Gone(d, "channel")
  /\ createdAt' = [c \in Channel |-> IF c \in Gone(d, "channel") THEN 0 ELSE createdAt[c]]
  /\ lastNotifiedAt' =
       [c \in Channel |-> IF c \in Gone(d, "channel") THEN 0 ELSE lastNotifiedAt[c]]
  /\ destroyedByJob' = destroyedByJob \cup (IF d \in Job THEN Gone(d, "channel") ELSE {})
  /\ Return(d)
  /\ UNCHANGED <<services, lists, handlers, sinceJob, notices, redeemed, settled>>

\* mutant: the channel's request outlives it
CommitWithoutCascade(d) ==
  /\ pc[d] = "commit"
  /\ phoneNumbers' = phoneNumbers \ Gone(d, "phoneNumber")
  /\ channels' = channels \ Gone(d, "channel")
  /\ Return(d)
  /\ UNCHANGED <<requests, createdAt, lastNotifiedAt, services, lists, handlers, sinceJob,
                 failures, history>>

Commit(d) ==
  /\ pc[d] = "commit"
  /\ CommitDeletes(d)
  /\ UNCHANGED failures

\* mutant: a step that fails is logged and what was deleted so far is committed
DestroyFailsCommitting(d) ==
  /\ pc[d] \in DestroyPc
  /\ CanFail
  /\ CommitDeletes(d)

\* Any step fails: the transaction rolls back, what services did stays done.
DestroyFails(d) ==
  /\ pc[d] \in DestroyPc
  /\ CanFail
  /\ Return(d)
  /\ UNCHANGED <<tables, services, lists, handlers, sinceJob, history>>

-----------------------------------------------------------------------------
(* The process and the clock. *)

\* The process dies and starts again: transactions roll back, the startup of
\* signal subscribes to every channel in the database, and the job is due.
Crash ==
  /\ CanFail
  /\ pc' = [d \in Task |-> "idle"]
  /\ toNotify' = [j \in Job |-> {}] /\ timestamp' = [j \in Job |-> 0]
  /\ toDestroy' = [j \in Job |-> {}] /\ remaining' = [j \in Job |-> {}]
  /\ target' = [d \in Task |-> NoChannel]
  /\ found' = [d \in Task |-> {}] /\ deleted' = [d \in Task |-> {}]
  /\ redeeming' = [m \in Message |-> NoChannel]
  /\ announcing' = [r \in Request |-> NoChannel]
  /\ subscribed' = subscribed \cup channels
  /\ sinceJob' = Period
  /\ UNCHANGED <<tables, owned, keystore, history>>

Older(n) == IF n < Oldest THEN n + 1 ELSE n

Tick ==
  /\ Prompt => Quiet /\ sinceJob < Period
  /\ createdAt' =
       [c \in Channel |-> IF c \in requests THEN Older(createdAt[c]) ELSE createdAt[c]]
  /\ lastNotifiedAt' =
       [c \in Channel |-> IF c \in requests THEN Older(lastNotifiedAt[c])
                          ELSE lastNotifiedAt[c]]
  /\ timestamp' =
       [j \in Job |-> IF pc[j] \in {"warn", "record"} THEN Older(timestamp[j])
                      ELSE timestamp[j]]
  /\ sinceJob' = IF sinceJob < Period THEN sinceJob + 1 ELSE sinceJob
  /\ UNCHANGED <<channels, phoneNumbers, requests, services, pc, toNotify, toDestroy,
                 remaining, calls, handlers, failures, history>>

RequestStep(r) == ReceiveRequest(r) \/ NotifyRequested(r)
MessageStep(m) == ReceiveMessage(m) \/ Redeem(m)
JobStep(j) ==
  \/ StartJob(j) \/ Warn(j) \/ RecordNotifications(j) \/ GetMature(j)
  \/ DestroyNext(j) \/ DestroyMany(j) \/ JobFails(j)
DestroyStep(d) ==
  \/ FindChannel(d) \/ FindPhoneNumber(d) \/ DeletePhoneNumber(d) \/ Release(d)
  \/ DeleteChannel(d) \/ Unsubscribe(d) \/ DeleteKeystore(d) \/ Commit(d)
  \/ DestroyFails(d)

Next ==
  \/ \E r \in Request : RequestStep(r)
  \/ \E m \in Message : MessageStep(m)
  \/ \E j \in Job : JobStep(j)
  \/ \E a \in Admin : AdminDestroys(a)
  \/ \E d \in Task : DestroyStep(d)
  \/ Crash
  \/ Tick

Spec == Init /\ [][Next]_vars

\* The event loop runs every task that can run, the clock goes on, and the job
\* is started again and again (repeatUntilCancelled).  Time passes however busy
\* the tasks are, hence SF.  Nobody has to write.
Fairness ==
  /\ SF_vars(Tick)
  /\ \A r \in Request : WF_vars(NotifyRequested(r))
  /\ \A m \in Message : WF_vars(Redeem(m))
  /\ \A j \in Job : WF_vars(JobStep(j))
  /\ \A d \in Task : WF_vars(DestroyStep(d))

FairSpec == Spec /\ Fairness

-----------------------------------------------------------------------------
(* Properties. *)

\* A channel redeemed while no run of the job had
\* it on its list, or in its hands, is not destroyed by the job.
SettledRedemptionsHold == settled \cap destroyedByJob = {}

\* As long as no statement failed, admins got 3 notices before the job destroys
\* their channel: one with the request, one after each third of the grace period.
EnoughNotices == failures = 0 => \A c \in destroyedByJob : notices[c] = 3

\* A channel's row is only gone once everything outside the database is: the
\* number was released, its keys deleted, its subscription ended.
NothingLeftBehind ==
  \A c \in Channel \ channels :
    c \notin phoneNumbers \cup owned \cup keystore \cup subscribed

\* A request to destroy ends: its channel is destroyed or redeemed, or the job
\* gives it up, whatever fails a bounded number of times.
RequestsEnd == \A c \in Channel : c \in requests ~> c \notin requests

=============================================================================
