------------------------------- MODULE Shards -------------------------------
(***************************************************************************)
(* Signalboost's shards: pools of connections to several signalc processes *)
(* (src/app/sockets.js), the channels each of them reads                   *)
(* (src/app/sharding.js), the startup that subscribes to them              *)
(* (src/app/index.js, signal/index.js, jobs.js), and the healthchecks that *)
(* find channels nobody reads and restart their shard                      *)
(* (src/app/diagnostics.js).                                               *)
(*                                                                         *)
(* A signalc process is external here: it handles the requests in its      *)
(* inbox in any order (it launches a coroutine for each), exits when it is *)
(* told to, and is started again by docker.  Subscriptions.tla has its     *)
(* inside.                                                                 *)
(***************************************************************************)
EXTENDS Integers, FiniteSets, Sequences, SequencesExt

CONSTANTS
  NumShards,  \* availableSockets
  User,       \* channels that are sent healthchecks
  Diag,       \* the channel that sends them, and notifies the maintainers
  MaxSize,    \* bound: members of a channel
  Rounds,     \* bound: rounds of healthchecks in progress at once
  MaxFaults,  \* bound: subscriptions lost, slow answers, processes hung or crashed, reboots
  MaxEarly    \* bound: rounds that begin or end, and reboots, in the middle of a restart

Shard == 0..NumShards - 1
Channel == User \cup {Diag}
Round == 1..Rounds

ASSUME ShardsAssumption ==
  /\ NumShards \in Nat \ {0} /\ Rounds \in Nat \ {0}
  /\ MaxSize \in Nat /\ MaxFaults \in Nat /\ MaxEarly \in Nat
  /\ Diag \notin User /\ IsFiniteSet(User)

VARIABLES
  stage,     \* of app.run
  row,       \* channels.socketId
  pool,      \* app.sockets
  sizes,     \* locals of assignChannelsToSockets: what the query returned,
  buckets,   \*   and the shares yet to be saved
  marks,     \* failedHealthchecks: rounds that ended since a failure was noted
  round,     \* calls of sendHealthchecks
  restart,   \* calls of restart, by the round that made them
  up,        \* shards whose signalc process runs
  hung,      \*   and those of them that handle nothing
  subs,      \* channels a process reads
  inbox,     \* requests a process has yet to handle
  faults,
  early

assignment == <<sizes, buckets>>
checks == <<marks, round, restart>>
signalc == <<up, hung, subs, inbox>>
bounds == <<faults, early>>
shardVars == <<stage, row, pool, assignment, checks, signalc, bounds>>

Unmarked == -1
NoRestart == [pc |-> "idle", channels |-> {}]
Abort == <<"abort", Diag>>
Ping(r) == <<"isAlive", r>>
Subscription(c) == <<"subscribe", c>>
Subscribing(channels) == {Subscription(c) : c \in channels}
Request == {Abort} \cup {Ping(r) : r \in Round} \cup Subscribing(Channel)

Bucket == [channels : SUBSET Channel, total : Nat, largest : Nat]

ShardsTypeOK ==
  /\ stage \in {"subscribing", "assigning", "saving", "running"}
  /\ row \in [Channel -> Shard]
  /\ pool \in [Shard -> {"connecting", "open", "dead"}]
  /\ sizes \in [Channel -> 0..MaxSize]
  /\ DOMAIN buckets \subseteq Shard /\ \A s \in DOMAIN buckets : buckets[s] \in Bucket
  /\ marks \in [User -> Unmarked..1]
  /\ round \in [Round -> {"idle", "probing", "unsent", "restarting"}]
  /\ restart \in [Round -> [Shard -> [pc : {"idle", "abort", "await", "subscribe", "waiting"},
                                      channels : SUBSET Channel]]]
  /\ up \subseteq Shard /\ hung \subseteq up
  /\ \A s \in Shard : /\ subs[s] \subseteq Channel
                      /\ inbox[s] \subseteq Request
                      /\ s \notin up => subs[s] = {} /\ inbox[s] = {}
  /\ \A r \in Round : (round[r] = "restarting") = (\E s \in Shard : restart[r][s].pc # "idle")
  /\ faults \in 0..MaxFaults /\ early \in 0..MaxEarly

NoSizes == [c \in Channel |-> 0]

Connecting == [s \in Shard |-> "connecting"]
NoMarks == [c \in User |-> Unmarked]
NoRounds == [r \in Round |-> "idle"]
NoRestarts == [r \in Round |-> [s \in Shard |-> NoRestart]]

ShardsInit ==
  /\ stage = "subscribing" /\ pool = Connecting
  /\ sizes = NoSizes /\ buckets = <<>>
  /\ marks = NoMarks /\ round = NoRounds /\ restart = NoRestarts
  /\ row = [c \in Channel |-> 0]
  /\ up = Shard /\ hung = {}
  /\ subs = [s \in Shard |-> {}] /\ inbox = [s \in Shard |-> {}]
  /\ faults = 0 /\ early = 0

-----------------------------------------------------------------------------
(* The signalc processes. *)

Exit(s) ==
  /\ up' = up \ {s} /\ hung' = hung \ {s}
  /\ subs' = [subs EXCEPT ![s] = {}]
  /\ inbox' = [inbox EXCEPT ![s] = {}]
  /\ pool' = [pool EXCEPT ![s] = IF pool[s] = "open" THEN "dead" ELSE pool[s]]

Awaiting(s) == \E r \in Round : restart[r][s].pc = "await"

\* bound: docker takes longer to start a process than awaitClose to look (10 ms).
Boot(s) ==
  /\ s \notin up /\ ~Awaiting(s)
  /\ up' = up \cup {s}
  /\ UNCHANGED <<stage, row, pool, assignment, checks, hung, subs, inbox, bounds>>

HandleAbort(s) ==
  /\ s \in up \ hung /\ Abort \in inbox[s]
  /\ Exit(s)
  /\ UNCHANGED <<stage, row, assignment, checks, bounds>>

HandleSubscribes(s) ==
  LET asked == {c \in Channel : Subscription(c) \in inbox[s]} IN
  /\ s \in up \ hung /\ asked # {}
  /\ inbox' = [inbox EXCEPT ![s] = @ \ Subscribing(asked)]
  /\ subs' = [subs EXCEPT ![s] = @ \cup asked]
  /\ UNCHANGED <<stage, row, pool, assignment, checks, up, hung, bounds>>

-----------------------------------------------------------------------------
(* Pools: a write to a pool that is connecting waits; one that lost its    *)
(* connections keeps them, and rejects.                                    *)

\* createConnectionPool, getConnection, connect
Connect(s) ==
  /\ pool[s] = "connecting" /\ s \in up
  /\ pool' = [pool EXCEPT ![s] = "open"]
  /\ UNCHANGED <<stage, row, assignment, checks, signalc, bounds>>

\* What the processes were asked is done.
Settled == \A s \in Shard : (s \in up /\ inbox[s] = {}) \/ s \in hung

Write(s, requests) ==
  /\ pool[s] = "open"
  /\ inbox' = [inbox EXCEPT ![s] = @ \cup requests]

-----------------------------------------------------------------------------
(* Startup: subscribe to every channel on the socket its row names, then   *)
(* assign the channels to sockets, for the next startup or restart.        *)

On(s) == {c \in Channel : row[c] = s}

\* The app's memory is new; answers to what it asked before are lost.
StartApp ==
  /\ stage' = "subscribing" /\ pool' = Connecting
  /\ sizes' = NoSizes /\ buckets' = <<>>
  /\ marks' = NoMarks /\ round' = NoRounds /\ restart' = NoRestarts
  /\ inbox' = [s \in Shard |-> inbox[s] \ {Ping(r) : r \in Round}]
  /\ UNCHANGED <<row, up, hung, subs>>

\* A write that is rejected is fatal, and docker starts the app again.
StartupFails ==
  /\ stage = "subscribing"
  /\ \E s \in Shard : pool[s] = "dead" /\ On(s) # {}
  /\ StartApp
  /\ UNCHANGED bounds

\* bound: all shards are up before the first channel is subscribed to.
\* signal.run
SubscribeAll ==
  /\ stage = "subscribing"
  /\ \A s \in Shard : pool[s] = "open" \/ (pool[s] = "dead" /\ On(s) = {})
  /\ inbox' = [s \in Shard |-> inbox[s] \cup Subscribing(On(s))]
  /\ stage' = "assigning"
  /\ UNCHANGED <<row, pool, assignment, checks, up, hung, subs, bounds>>

EmptyBucket == [channels |-> {}, total |-> 0, largest |-> 0]

Put(bucket, c, size) ==
  [channels |-> bucket.channels \cup {c},
   total |-> bucket.total + size,
   largest |-> IF bucket.channels = {} THEN size ELSE bucket.largest]

EmptyHeap == [s \in Shard |-> EmptyBucket]

\* Which of the least is popped is the heap's choice.
Least(heap) == {s \in Shard : \A t \in Shard : heap[s].total <= heap[t].total}

Insert(heap, s, c, size) == [heap EXCEPT ![s] = Put(heap[s], c, size)]

\* mutant: the buckets are filled in turns
GroupInTurns(order, size) ==
  LET heaps[n \in 0..Len(order)] ==
        IF n = 0 THEN {EmptyHeap}
        ELSE {Insert(heap, n % NumShards, order[n], size[order[n]]) : heap \in heaps[n - 1]}
  IN heaps[Len(order)]

\* groupEvenlyBySize: what its heap may be once all channels are in it.
GroupEvenly(order, size) ==
  LET heaps[n \in 0..Len(order)] ==
        IF n = 0 THEN {EmptyHeap}
        ELSE UNION {{Insert(heap, s, order[n], size[order[n]]) : s \in Least(heap)} :
                      heap \in heaps[n - 1]}
  IN heaps[Len(order)]

\* The heap is consumed from its least bucket on.
Consumed(heap) ==
  {[s \in Shard |-> heap[place[s]]] : place \in
     {p \in Bijection(Shard, Shard) : \A s, t \in Shard :
        s < t => heap[p[s]].total <= heap[p[t]].total}}

\* bound: the channels are assigned when those subscribed to are read.
\* assignChannelsToSockets: the query orders channels of one size at will.
Group ==
  /\ stage = "assigning" /\ Settled
  /\ sizes' \in [Channel -> 0..MaxSize]
  /\ \E order \in SetToSeqs(Channel) :
       /\ \A i, j \in DOMAIN order : i < j => sizes'[order[i]] >= sizes'[order[j]]
       /\ \E heap \in GroupEvenly(order, sizes') : buckets' \in Consumed(heap)
  /\ stage' = "saving"
  /\ UNCHANGED <<row, pool, checks, signalc, bounds>>

\* updateSocketIds, for one bucket
SaveBucket ==
  /\ stage = "saving"
  /\ \E s \in DOMAIN buckets :
       /\ row' = [c \in Channel |-> IF c \in buckets[s].channels THEN s ELSE row[c]]
       /\ buckets' = [t \in DOMAIN buckets \ {s} |-> buckets[t]]
       /\ IF DOMAIN buckets = {s} THEN stage' = "running" /\ sizes' = NoSizes
                                  ELSE UNCHANGED <<stage, sizes>>
  /\ UNCHANGED <<pool, checks, signalc, bounds>>

-----------------------------------------------------------------------------
(* Healthchecks: Diag sends each channel a message, which the channel's    *)
(* handler answers.  A round is over in a multiple of 15 minutes while the *)
(* next begins after 10, so rounds overlap.                                *)

\* Somebody reads the channel's messages and hands them to the app.
Heard(c) == \E s \in up \ hung : c \in subs[s] /\ pool[s] = "open"

CanSend(c) == pool[row[c]] = "open" /\ row[c] \notin hung

Passes(c) == CanSend(Diag) /\ Heard(c) /\ CanSend(c) /\ Heard(Diag)

Restarting == \E r \in Round : round[r] = "restarting"

\* bound: a restart is far shorter than the interval between rounds.
InTime == IF Restarting THEN early < MaxEarly /\ early' = early + 1 ELSE UNCHANGED early

\* sendHealthchecks, until the last message is written: writes to a pool that
\* lost its connections fail, and the callbacks time out.
BeginRound ==
  /\ stage = "running"
  /\ \E r \in Round :
       /\ round[r] = "idle"
       /\ round' = [round EXCEPT ![r] = IF pool[row[Diag]] = "dead" THEN "unsent" ELSE "probing"]
  /\ InTime
  /\ UNCHANGED <<stage, row, pool, assignment, marks, restart, signalc, faults>>

Older(n) == IF n = Unmarked THEN Unmarked ELSE 1

\* _handleFailedHealtcheck: a failure is noted, or fatal if one was noted before.
Note(failed) ==
  [c \in User |-> IF c \in failed /\ marks[c] = Unmarked THEN 0 ELSE Older(marks[c])]

Fatal(failed) == {c \in failed : marks[c] # Unmarked}

\* bound: what a shard is asked is done before a healthcheck times out (15 min).
\* The rest of sendHealthchecks, when the last healthcheck is answered or times
\* out; slow channels miss the time.  The shards of fatal failures are restarted.
EndRound(r) ==
  /\ round[r] \in {"probing", "unsent"} /\ Settled
  /\ \E failed \in SUBSET User :
       LET slow == {c \in failed : round[r] = "probing" /\ Passes(c)}
           shards == {row[c] : c \in Fatal(failed)} IN
       /\ {c \in User : round[r] = "unsent" \/ ~Passes(c)} \subseteq failed
       /\ faults' = faults + Cardinality(slow) /\ faults' <= MaxFaults
       /\ marks' = Note(failed)
       /\ restart' = [restart EXCEPT ![r] =
            [s \in Shard |-> IF s \in shards THEN [pc |-> "abort", channels |-> {}]
                             ELSE NoRestart]]
       /\ round' = [round EXCEPT ![r] = IF shards = {} THEN "idle" ELSE "restarting"]
  /\ InTime
  /\ UNCHANGED <<stage, row, pool, assignment, signalc>>

\* The timer that deletes a mark outlasts the next round.
Forget(c) ==
  /\ marks[c] = 1
  /\ marks' = [marks EXCEPT ![c] = Unmarked]
  /\ UNCHANGED <<stage, row, pool, assignment, round, restart, signalc, bounds>>

-----------------------------------------------------------------------------
(* restart (_restartAndNotify): any step that rejects ends it. *)

To(r, s, pc) == restart' = [restart EXCEPT ![r][s].pc = pc] /\ UNCHANGED round

\* The round is over when the last of its restarts is.
End(r, s) ==
  /\ restart' = [restart EXCEPT ![r][s] = NoRestart]
  /\ round' = IF \A t \in Shard \ {s} : restart[r][t].pc = "idle"
              THEN [round EXCEPT ![r] = "idle"] ELSE round

Step(r, s, pc) == restart[r][s].pc = pc

\* notifyMaintainers, getChannelsOnSocket and abort
SendAbort(r, s) ==
  /\ Step(r, s, "abort") /\ On(s) # {}
  /\ pool[row[Diag]] = "open"
  /\ Write(s, {Abort})
  /\ restart' = [restart EXCEPT ![r][s] = [pc |-> "await", channels |-> On(s)]]
  /\ UNCHANGED <<stage, row, pool, assignment, marks, round, up, hung, subs, bounds>>

WriteRejected(r, s) ==
  /\ \/ restart[r][s].pc \in {"abort", "subscribe"} /\ pool[s] = "dead"
     \/ Step(r, s, "abort") /\ (pool[row[Diag]] = "dead" \/ On(s) = {})
  /\ End(r, s)
  /\ UNCHANGED <<stage, row, pool, assignment, marks, signalc, bounds>>

\* awaitClose, stopSocket, restartSocket
Reconnect(r, s) ==
  /\ Step(r, s, "await") /\ s \notin up
  /\ pool' = [pool EXCEPT ![s] = "connecting"]
  /\ To(r, s, "subscribe")
  /\ UNCHANGED <<stage, row, assignment, marks, signalc, bounds>>

\* mutant: awaitClose looks again and again, without counting
CloseNeverTimesOut(r, s) == Step(r, s, "await") /\ s \in hung /\ UNCHANGED shardVars

CloseTimesOut(r, s) ==
  /\ Step(r, s, "await") /\ s \in hung
  /\ End(r, s)
  /\ UNCHANGED <<stage, row, pool, assignment, marks, signalc, bounds>>

\* mutant: the channels whose checks failed are subscribed to again, no others
ResubscribeFailed(r, s) ==
  /\ Step(r, s, "subscribe")
  /\ Write(s, Subscribing({c \in User : row[c] = s /\ marks[c] # Unmarked}) \cup {Ping(r)})
  /\ To(r, s, "waiting")
  /\ UNCHANGED <<stage, row, pool, assignment, marks, up, hung, subs, bounds>>

\* subscribe, for each channel that was on the socket, and isAlive
Resubscribe(r, s) ==
  /\ Step(r, s, "subscribe")
  /\ Write(s, Subscribing(restart[r][s].channels) \cup {Ping(r)})
  /\ To(r, s, "waiting")
  /\ UNCHANGED <<stage, row, pool, assignment, marks, up, hung, subs, bounds>>

\* signalc's isAlive, and the callback it resolves
Alive(r, s) ==
  /\ Step(r, s, "waiting") /\ s \in up \ hung /\ Ping(r) \in inbox[s]
  /\ inbox' = [inbox EXCEPT ![s] = @ \ {Ping(r)}]
  /\ End(r, s)
  /\ UNCHANGED <<stage, row, pool, assignment, marks, up, hung, subs, bounds>>

AliveTimesOut(r, s) ==
  /\ Step(r, s, "waiting") /\ (Ping(r) \notin inbox[s] \/ s \in hung)
  /\ inbox' = [inbox EXCEPT ![s] = @ \ {Ping(r)}]
  /\ End(r, s)
  /\ UNCHANGED <<stage, row, pool, assignment, marks, up, hung, subs, bounds>>

RestartStep(r, s) ==
  \/ SendAbort(r, s) \/ WriteRejected(r, s) \/ Reconnect(r, s) \/ CloseTimesOut(r, s)
  \/ Resubscribe(r, s) \/ Alive(r, s) \/ AliveTimesOut(r, s)

-----------------------------------------------------------------------------
(* Faults. *)

\* bound: nothing fails during startup
Fault == stage = "running" /\ faults < MaxFaults /\ faults' = faults + 1

\* A reader ends, and nothing starts it again.
LoseSubscription(s, c) ==
  /\ Fault /\ c \in subs[s]
  /\ subs' = [subs EXCEPT ![s] = @ \ {c}]
  /\ UNCHANGED <<stage, row, pool, assignment, checks, up, hung, inbox, early>>

Hang(s) ==
  /\ Fault /\ s \in up \ hung
  /\ hung' = hung \cup {s}
  /\ UNCHANGED <<stage, row, pool, assignment, checks, up, subs, inbox, early>>

Crash(s) ==
  /\ Fault /\ s \in up
  /\ Exit(s)
  /\ UNCHANGED <<stage, row, assignment, checks, early>>

Reboot ==
  /\ StartApp
  /\ \/ Fault /\ UNCHANGED early
     \/ Restarting /\ early < MaxEarly /\ early' = early + 1 /\ UNCHANGED faults

-----------------------------------------------------------------------------
Start == SubscribeAll \/ StartupFails \/ Group \/ SaveBucket

ShardsNext ==
  \/ Start \/ BeginRound \/ Reboot
  \/ \E r \in Round : EndRound(r)
  \/ \E c \in User : Forget(c)
  \/ \E s \in Shard :
       \/ Boot(s) \/ HandleAbort(s) \/ HandleSubscribes(s) \/ Connect(s) \/ Hang(s) \/ Crash(s)
       \/ \E c \in Channel : LoseSubscription(s, c)
       \/ \E r \in Round : RestartStep(r, s)

ShardsSpec == ShardsInit /\ [][ShardsNext]_shardVars

\* Docker restarts processes, processes handle what they are sent unless they
\* hang, promises settle and timers fire.
Fairness ==
  /\ WF_shardVars(Start) /\ WF_shardVars(BeginRound)
  /\ \A r \in Round : WF_shardVars(EndRound(r))
  /\ \A s \in Shard :
       /\ WF_shardVars(Boot(s) \/ Connect(s) \/ HandleAbort(s) \/ HandleSubscribes(s))
       /\ \A r \in Round : WF_shardVars(RestartStep(r, s))

ShardsFairSpec == ShardsSpec /\ Fairness

-----------------------------------------------------------------------------
(* Properties. *)

\* groupEvenlyBySize gives every channel to one shard, later shards no less
\* than earlier ones, without any one of its channels no shard has more members
\* than another, and what it notes of its largest channel is so (the comment at
\* sharding.js 46).
EvenlyAssigned ==
  stage = "saving" =>
    /\ \A s, t \in DOMAIN buckets : s # t => buckets[s].channels \cap buckets[t].channels = {}
    /\ \A s, t \in DOMAIN buckets :
         /\ s < t => buckets[s].total <= buckets[t].total
         /\ \A c \in buckets[s].channels : buckets[s].total - sizes[c] <= buckets[t].total
    /\ \A s \in DOMAIN buckets : \A c \in buckets[s].channels : sizes[c] <= buckets[s].largest
    /\ \A c \in Channel : \/ row[c] \in Shard \ DOMAIN buckets
                          \/ \E s \in DOMAIN buckets : c \in buckets[s].channels

\* Every restart ends, and with it the round that waits for it: nobody waits
\* for a shard that will not answer.
RestartsEnd ==
  \A r \in Round : round[r] = "restarting" ~> round[r] # "restarting"

\* A pool that lost its connections otherwise than by a restart in progress is
\* never repaired: the abort cannot be written.
Stranded(s) == pool[s] = "dead" /\ ~Awaiting(s)

Repairable ==
  /\ hung = {} /\ \A s \in Shard : ~Stranded(s)
  /\ \E c \in User : row[c] = row[Diag]

\* Healthchecks and restarts get every channel read again, however its
\* subscription was lost, unless a process hangs, dies of itself, or no channel
\* that is checked shares the shard of the one that checks them.
Heals == <>[]Repairable => <>[](\A c \in Channel : Heard(c))

=============================================================================
