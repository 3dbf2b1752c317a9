--------------------------- MODULE Subscriptions ---------------------------
(***************************************************************************)
(* signalc's subscriptions (SignalReceiver.kt, SocketReceiver.kt) and its  *)
(* shutdown (Application.kt): jobs that read an account's envelopes from a *)
(* message pipe, requests that start and cancel them, readers that fail    *)
(* and are started again after a delay, and a shutdown that cancels them   *)
(* all and waits for the messages in flight.                               *)
(*                                                                         *)
(* Every suspending call, and every access to one of the concurrent maps,  *)
(* is a step of its own: coroutines of all requests, jobs and the shutdown *)
(* hook interleave between them.                                           *)
(***************************************************************************)
EXTENDS Naturals, FiniteSets

CONSTANTS
  Account,    \* verified accounts
  Request,    \* SUBSCRIBE and UNSUBSCRIBE requests
  Message,    \* envelopes that hold a data message
  MaxJobs,    \* bound: jobs that subscribe may launch
  MaxErrors,  \* bound: pipes and reads that fail of themselves
  Overlap,    \* requests about one account in progress at once
  Stop,       \* the shutdown hook
  None

Job == 1..MaxJobs
Subscriber == Request \cup Job       \* a job's completion handler subscribes again
Unsubscriber == Subscriber \cup {Stop}
Causes == {"client", "disrupted", "shutdown", "error", "pipe"}

ASSUME ConstantsAssumption ==
  /\ MaxJobs \in Nat /\ MaxErrors \in Nat /\ Overlap \in Nat
  /\ None \notin Job /\ None \notin Causes /\ Stop \notin Subscriber
  /\ Request \cap Job = {} /\ IsFiniteSet(Message)

VARIABLES
  subscriptions,  \* SignalReceiver.subscriptions: account to job
  pipes,          \* SignalReceiver.messagePipes; a pipe is named after its creator
  open,           \* pipes that were created and not shut down or lost
  job,            \* the coroutines that subscribe launched
  sub,            \* calls of SocketReceiver.subscribe
  unsub,          \* calls of SignalReceiver.unsubscribe
  heard,          \* the last response about an account that its client got
  msg,            \* envelopes that were read
  inFlight,       \* messagesInFlight
  late,           \* envelopes whose handling began after the drain saw zero
  stage,          \* of Application.stop
  toUnsubscribe,  \* keys that unsubscribeAll has yet to treat
  drained,        \* the result of drain
  errors,         \* failures so far
  raced           \* a call of subscribe met another call about its account

maps == <<subscriptions, pipes>>
messages == <<msg, inFlight, late>>
shutdown == <<stage, toUnsubscribe, drained>>
vars == <<maps, open, job, sub, unsub, heard, messages, shutdown, errors, raced>>

TypeOK ==
  /\ subscriptions \in [Account -> Job \cup {None}]
  /\ pipes \in [Account -> Job \cup {None}]
  /\ open \subseteq Job
  /\ job \in [Job -> [pc: {"unused", "opening", "created", "reading", "failing", "ended"},
                      account: Account \cup {None}, pipe: Job \cup {None},
                      cause: Causes \cup {None}, watched: BOOLEAN]]
  /\ sub \in [Subscriber -> [pc: {"idle", "check", "register", "announce", "delay", "done"},
                             account: Account \cup {None}, job: Job \cup {None}]]
  /\ unsub \in [Unsubscriber -> [pc: {"idle", "shutdown", "cancel", "forget", "forgetPipe", "done"},
                                 account: Account \cup {None}, error: Causes \cup {None}]]
  /\ heard \in [Account -> {"nothing", "subscribed", "failed", "disrupted", "unsubscribed"}]
  /\ msg \in [Message -> {"unread", "launched", "handling", "relayed"}]
  /\ inFlight = Cardinality({m \in Message : msg[m] = "handling"})
  /\ late \subseteq Message
  /\ stage \in {"running", "unsubscribing", "draining", "stopping", "stopped"}
  /\ toUnsubscribe \subseteq Account
  /\ drained \in BOOLEAN
  /\ errors \in 0..MaxErrors
  /\ raced \in BOOLEAN

Init ==
  /\ subscriptions = [a \in Account |-> None]
  /\ pipes = [a \in Account |-> None]
  /\ open = {}
  /\ job = [j \in Job |-> [pc |-> "unused", account |-> None, pipe |-> None,
                           cause |-> None, watched |-> FALSE]]
  /\ sub = [x \in Subscriber |-> [pc |-> "idle", account |-> None, job |-> None]]
  /\ unsub = [x \in Unsubscriber |-> [pc |-> "idle", account |-> None, error |-> None]]
  /\ heard = [a \in Account |-> "nothing"]
  /\ msg = [m \in Message |-> "unread"] /\ inFlight = 0 /\ late = {}
  /\ stage = "running" /\ toUnsubscribe = {} /\ drained = FALSE
  /\ errors = 0 /\ raced = FALSE

-----------------------------------------------------------------------------
Idle(call) == call.pc \in {"idle", "done"}

Unsubscribing(a) == \E x \in Unsubscriber : unsub[x].account = a /\ ~Idle(unsub[x])

\* Calls of subscribe between their look at the map and their answer.
Between(a) == {x \in Subscriber : sub[x].account = a /\ sub[x].pc \in {"register", "announce"}}

\* bound: nothing is explored past two calls about one account of which one is
\* subscribe between its look at the map and its answer.
Race(other) == raced' = other
Explored == stage # "stopped" /\ ~raced

InProgress(a) ==
  {r \in Request : \/ sub[r].account = a /\ ~Idle(sub[r])
                   \/ unsub[r].account = a /\ ~Idle(unsub[r])}

Active(j) == job[j].pc \in {"opening", "created", "reading", "failing"} /\ job[j].cause = None

\* The first cause a job is cancelled for is the one it ends with, unless it
\* ends with an exception of its own.
Cancelled(j, cause) ==
  IF Active(j) THEN [job EXCEPT ![j].cause = cause] ELSE job

End(j, cause) == job' = [job EXCEPT ![j].pc = "ended", ![j].cause = cause]

CanFail == errors < MaxErrors /\ errors' = errors + 1

Say(a, response) == heard' = [heard EXCEPT ![a] = response]

Going(x, pc) == sub' = [sub EXCEPT ![x].pc = pc]

-----------------------------------------------------------------------------
(* Requests: dispatch launches a coroutine for each. *)

Unsent(r) == sub[r].pc = "idle" /\ unsub[r].pc = "idle"

RequestSubscribe(r) ==
  /\ Unsent(r)
  /\ \E a \in Account :
       /\ Cardinality(InProgress(a)) < Overlap
       /\ sub' = [sub EXCEPT ![r] = [pc |-> "check", account |-> a, job |-> None]]
  /\ UNCHANGED <<maps, open, job, unsub, heard, messages, shutdown, errors, raced>>

RequestUnsubscribe(r) ==
  /\ Unsent(r)
  /\ \E a \in Account :
       /\ Cardinality(InProgress(a)) < Overlap
       /\ unsub' = [unsub EXCEPT ![r] = [pc |-> "shutdown", account |-> a,
                                          error |-> "client"]]
  /\ UNCHANGED <<maps, open, job, sub, heard, messages, shutdown, errors, raced>>

-----------------------------------------------------------------------------
(* SocketReceiver.subscribe and SignalReceiver.subscribe. *)

\* mutant: an account that is subscribed already gets a second job
CheckNothing(x) ==
  LET a == sub[x].account IN
  /\ sub[x].pc = "check"
  /\ \E j \in Job :
       /\ job[j].pc = "unused" /\ \A k \in 1..(j - 1) : job[k].pc # "unused"
       /\ job' = [job EXCEPT ![j].pc = "opening", ![j].account = a]
       /\ sub' = [sub EXCEPT ![x].pc = "register", ![x].job = j]
  /\ Race(Between(a) # {} \/ Unsubscribing(a))
  /\ UNCHANGED <<maps, open, unsub, heard, messages, shutdown, errors>>

Check(x) ==
  LET a == sub[x].account IN
  /\ sub[x].pc = "check"
  /\ \/ /\ subscriptions[a] = None
        /\ \E j \in Job :
             /\ job[j].pc = "unused" /\ \A k \in 1..(j - 1) : job[k].pc # "unused"
             /\ job' = [job EXCEPT ![j].pc = "opening", ![j].account = a]
             /\ sub' = [sub EXCEPT ![x].pc = "register", ![x].job = j]
        /\ Race(Between(a) # {} \/ Unsubscribing(a))
        /\ UNCHANGED heard
     \/ /\ subscriptions[a] # None
        /\ Say(a, "failed")
        /\ Going(x, "done")
        /\ UNCHANGED <<job, raced>>
  /\ UNCHANGED <<maps, open, unsub, messages, shutdown, errors>>

\* mutant: the job is launched and not entered into the map
RegisterNothing(x) ==
  /\ sub[x].pc = "register"
  /\ Going(x, "announce")
  /\ UNCHANGED <<maps, open, job, unsub, heard, messages, shutdown, errors, raced>>

Register(x) ==
  /\ sub[x].pc = "register"
  /\ subscriptions' = [subscriptions EXCEPT ![sub[x].account] = sub[x].job]
  /\ Going(x, "announce")
  /\ UNCHANGED <<pipes, open, job, unsub, heard, messages, shutdown, errors, raced>>

\* The client is told, then invokeOnCompletion looks after the job.
Announce(x) ==
  /\ sub[x].pc = "announce"
  /\ Say(sub[x].account, "subscribed")
  /\ job' = [job EXCEPT ![sub[x].job].watched = TRUE]
  /\ Going(x, "done")
  /\ UNCHANGED <<maps, open, unsub, messages, shutdown, errors, raced>>

\* mutant: a disruption is told and not repaired
CompleteOnly(j) ==
  LET a == job[j].account IN
  /\ job[j].pc = "ended" /\ job[j].watched /\ sub[j].pc = "idle"
  /\ \/ job[j].cause \in {None, "client"} /\ UNCHANGED heard
     \/ job[j].cause = "disrupted" /\ Say(a, "disrupted")
     \/ job[j].cause \in {"shutdown", "error", "pipe"} /\ Say(a, "failed")
  /\ Going(j, "done")
  /\ UNCHANGED <<maps, open, job, unsub, messages, shutdown, errors, raced>>

\* The completion handler of a job that ended.
Complete(j) ==
  LET a == job[j].account IN
  /\ job[j].pc = "ended" /\ job[j].watched /\ sub[j].pc = "idle"
  /\ \/ /\ job[j].cause \in {None, "client"}
        /\ Going(j, "done") /\ UNCHANGED heard
     \/ /\ job[j].cause = "disrupted"
        /\ Say(a, "disrupted")
        /\ sub' = [sub EXCEPT ![j].pc = "delay", ![j].account = a]
     \/ /\ job[j].cause \in {"shutdown", "error", "pipe"}
        /\ Say(a, "failed") /\ Going(j, "done")
  /\ UNCHANGED <<maps, open, job, unsub, messages, shutdown, errors, raced>>

\* After retryResubscribeDelay.
SubscribeAgain(j) ==
  /\ sub[j].pc = "delay"
  /\ Going(j, "check")
  /\ UNCHANGED <<maps, open, job, unsub, heard, messages, shutdown, errors, raced>>

-----------------------------------------------------------------------------
(* A job: it gets a pipe, then reads from it until it is cancelled.  The     *)
(* reads block, so that a cancelled job only ends once its read returns.     *)

\* The pipe is there: the job reads, unless it was cancelled meanwhile.
Reading(j, pipe) ==
  job' = [job EXCEPT ![j].pipe = pipe,
                     ![j].pc = IF job[j].cause = None THEN "reading" ELSE "ended"]

\* messagePipeOf: the memoized pipe, or a new one
Open(j) ==
  LET a == job[j].account IN
  /\ job[j].pc = "opening"
  /\ \/ pipes[a] # None /\ Reading(j, pipes[a]) /\ UNCHANGED <<open, errors>>
     \/ /\ pipes[a] = None
        /\ \/ /\ open' = open \cup {j}
              /\ job' = [job EXCEPT ![j].pc = "created"] /\ UNCHANGED errors
           \/ CanFail /\ End(j, "pipe") /\ UNCHANGED open
     \/ job[j].cause # None /\ End(j, job[j].cause) /\ UNCHANGED <<open, errors>>
  /\ UNCHANGED <<maps, sub, unsub, heard, messages, shutdown, raced>>

\* getMemoized writes the cache after it looked into it
CachePipe(j) ==
  /\ job[j].pc = "created"
  /\ pipes' = [pipes EXCEPT ![job[j].account] = j]
  /\ Reading(j, j)
  /\ UNCHANGED <<subscriptions, open, sub, unsub, heard, messages, shutdown, errors, raced>>

ReadMessage(j) ==
  /\ job[j].pc = "reading" /\ job[j].pipe \in open
  /\ \E m \in Message : msg[m] = "unread" /\ msg' = [msg EXCEPT ![m] = "launched"]
  /\ Reading(j, job[j].pipe)
  /\ UNCHANGED <<maps, open, sub, unsub, heard, inFlight, late, shutdown, errors, raced>>

\* CONTINUE: a cancelled job finds out that it is not active any more
ReadTimesOut(j) ==
  /\ job[j].pc = "reading" /\ job[j].cause # None
  /\ End(j, job[j].cause)
  /\ UNCHANGED <<maps, open, sub, unsub, heard, messages, shutdown, errors, raced>>

\* An IOException: the pipe was shut down, or its connection was lost.
ReadFails(j) ==
  /\ job[j].pc = "reading"
  /\ \/ job[j].pipe \notin open /\ UNCHANGED <<open, errors>>
     \/ CanFail /\ open' = open \ {job[j].pipe}
  /\ \/ /\ stage = "running"
        /\ unsub' = [unsub EXCEPT ![j] = [pc |-> "shutdown", account |-> job[j].account,
                                           error |-> "disrupted"]]
        /\ job' = [job EXCEPT ![j].pc = "failing"]
     \/ /\ stage # "running"
        /\ End(j, IF job[j].cause = None THEN "shutdown" ELSE job[j].cause)
        /\ UNCHANGED unsub
  /\ UNCHANGED <<maps, sub, heard, messages, shutdown, raced>>

\* RETURN: the job waits for its unsubscribe, but not once that cancelled it
FailingReturns(j) ==
  /\ job[j].pc = "failing"
  /\ job[j].cause # None \/ Idle(unsub[j])
  /\ End(j, job[j].cause)
  /\ UNCHANGED <<maps, open, sub, unsub, heard, messages, shutdown, errors, raced>>

\* Any other exception ends the job, and nobody removes its entry.
ReadThrows(j) ==
  /\ job[j].pc = "reading" /\ CanFail
  /\ End(j, "error")
  /\ UNCHANGED <<maps, open, sub, unsub, heard, messages, shutdown, raced>>

-----------------------------------------------------------------------------
(* SignalReceiver.unsubscribe: for a request, a failed reader, the shutdown. *)

ShutdownPipe(x) ==
  /\ unsub[x].pc = "shutdown"
  /\ open' = open \ {pipes[unsub[x].account]}
  /\ unsub' = [unsub EXCEPT ![x].pc = "cancel"]
  /\ Race(Between(unsub[x].account) # {})
  /\ UNCHANGED <<maps, job, sub, heard, messages, shutdown, errors>>

CancelJob(x) ==
  LET j == subscriptions[unsub[x].account] IN
  /\ unsub[x].pc = "cancel"
  /\ job' = IF j = None THEN job ELSE Cancelled(j, unsub[x].error)
  /\ unsub' = [unsub EXCEPT ![x].pc = "forget"]
  /\ Race(Between(unsub[x].account) # {})
  /\ UNCHANGED <<maps, open, sub, heard, messages, shutdown, errors>>

Forget(x) ==
  /\ unsub[x].pc = "forget"
  /\ subscriptions' = [subscriptions EXCEPT ![unsub[x].account] = None]
  /\ unsub' = [unsub EXCEPT ![x].pc = "forgetPipe"]
  /\ Race(Between(unsub[x].account) # {})
  /\ UNCHANGED <<pipes, open, job, sub, heard, messages, shutdown, errors>>

\* The end of unsubscribe, whose caller then answers the request.
ForgetPipe(x) ==
  LET a == unsub[x].account IN
  /\ unsub[x].pc = "forgetPipe"
  /\ pipes' = [pipes EXCEPT ![a] = None]
  /\ unsub' = [unsub EXCEPT ![x].pc = "done"]
  /\ IF x \in Request THEN Say(a, "unsubscribed") ELSE UNCHANGED heard
  /\ Race(Between(a) # {})
  /\ UNCHANGED <<subscriptions, open, job, sub, messages, shutdown, errors>>

-----------------------------------------------------------------------------
(* processMessage, in a coroutine of its own for each envelope.              *)

BeginMessage(m) ==
  /\ msg[m] = "launched"
  /\ msg' = [msg EXCEPT ![m] = "handling"]
  /\ inFlight' = inFlight + 1
  /\ late' = IF stage \in {"stopping", "stopped"} THEN late \cup {m} ELSE late
  /\ UNCHANGED <<maps, open, job, sub, unsub, heard, shutdown, errors, raced>>

\* Relayed to the client as cleartext or as an error, or no data message.
EndMessage(m) ==
  /\ msg[m] = "handling"
  /\ msg' = [msg EXCEPT ![m] = "relayed"]
  /\ inFlight' = inFlight - 1
  /\ UNCHANGED <<maps, open, job, sub, unsub, heard, late, shutdown, errors, raced>>

-----------------------------------------------------------------------------
(* Application.stop, on SIGTERM.                                             *)

UnsubscribeAll ==
  /\ stage = "running"
  /\ stage' = "unsubscribing"
  /\ toUnsubscribe' = {a \in Account : subscriptions[a] # None}
  /\ UNCHANGED <<maps, open, job, sub, unsub, heard, messages, drained, errors, raced>>

\* mutant: the keys that are left never become fewer
UnsubscribeSame ==
  /\ stage = "unsubscribing" /\ Idle(unsub[Stop])
  /\ \E a \in toUnsubscribe :
       unsub' = [unsub EXCEPT ![Stop] = [pc |-> "shutdown", account |-> a,
                                          error |-> "client"]]
  /\ UNCHANGED <<maps, open, job, sub, heard, messages, shutdown, errors, raced>>

UnsubscribeNext ==
  /\ stage = "unsubscribing" /\ Idle(unsub[Stop])
  /\ \E a \in toUnsubscribe :
       /\ toUnsubscribe' = toUnsubscribe \ {a}
       /\ unsub' = [unsub EXCEPT ![Stop] = [pc |-> "shutdown", account |-> a,
                                             error |-> "client"]]
  /\ UNCHANGED <<maps, open, job, sub, heard, messages, stage, drained, errors, raced>>

AllUnsubscribed ==
  /\ stage = "unsubscribing" /\ Idle(unsub[Stop]) /\ toUnsubscribe = {}
  /\ stage' = "draining"
  /\ UNCHANGED <<maps, open, job, sub, unsub, heard, messages, toUnsubscribe, drained,
                 errors, raced>>

\* mutant: the end of the timeout counts as drained
DrainByTimeout ==
  /\ stage = "draining"
  /\ drained' = TRUE
  /\ stage' = "stopping"
  /\ UNCHANGED <<maps, open, job, sub, unsub, heard, messages, toUnsubscribe, errors, raced>>

\* MessageQueue.drain: it polls until it reads zero or the time is up
Drain ==
  /\ stage = "draining"
  /\ drained' \in {inFlight = 0, FALSE}
  /\ stage' = "stopping"
  /\ UNCHANGED <<maps, open, job, sub, unsub, heard, messages, toUnsubscribe, errors, raced>>

StopSockets ==
  /\ stage = "stopping"
  /\ stage' = "stopped"
  /\ UNCHANGED <<maps, open, job, sub, unsub, heard, messages, toUnsubscribe, drained,
                 errors, raced>>

-----------------------------------------------------------------------------
SubscribeStep(x) == Check(x) \/ Register(x) \/ Announce(x)

CompletionStep(j) == Complete(j) \/ SubscribeAgain(j)

\* What a job does whether or not anything arrives or fails.
JobStep(j) == Open(j) \/ CachePipe(j) \/ ReadTimesOut(j) \/ FailingReturns(j)

UnsubscribeStep(x) ==
  ShutdownPipe(x) \/ CancelJob(x) \/ Forget(x) \/ ForgetPipe(x)

StopStep == UnsubscribeNext \/ AllUnsubscribed \/ Drain \/ StopSockets

Next ==
  /\ Explored
  /\ \/ \E r \in Request : RequestSubscribe(r) \/ RequestUnsubscribe(r)
     \/ \E x \in Subscriber : SubscribeStep(x)
     \/ \E x \in Unsubscriber : UnsubscribeStep(x)
     \/ \E j \in Job : \/ CompletionStep(j) \/ JobStep(j)
                       \/ ReadMessage(j) \/ ReadFails(j) \/ ReadThrows(j)
     \/ \E m \in Message : BeginMessage(m) \/ EndMessage(m)
     \/ UnsubscribeAll
     \/ StopStep

Spec == Init /\ [][Next]_vars

\* The dispatcher's pool of threads is elastic: every coroutine that can run
\* is run.  Nothing says that a client asks, a read fails or a signal arrives.
Fairness ==
  /\ \A x \in Subscriber : WF_vars(Explored /\ SubscribeStep(x))
  /\ \A x \in Unsubscriber : WF_vars(Explored /\ UnsubscribeStep(x))
  /\ \A j \in Job : /\ WF_vars(Explored /\ CompletionStep(j))
                     /\ WF_vars(Explored /\ JobStep(j))
  /\ WF_vars(Explored /\ StopStep)

FairSpec == Spec /\ Fairness

-----------------------------------------------------------------------------
(* Properties. *)

\* Nobody is in the middle of anything that concerns account a.
Settled(a) ==
  /\ \A x \in Subscriber : sub[x].account = a => Idle(sub[x])
  /\ ~Unsubscribing(a)
  /\ \A j \in Job : job[j].account = a =>
       \/ job[j].pc = "reading" /\ job[j].cause = None /\ job[j].pipe \in open
       \/ job[j].pc = "ended" /\ sub[j].pc = "done"

\* An account has one reader: what subscribe's first line is there for.
OneReader ==
  \A j, k \in Job :
    Active(j) /\ Active(k) /\ job[j].account = job[k].account
      => j = k \/ raced

\* Whatever requests, disruptions and failures came together, once they are
\* settled what the client was last told of an account is true of it, and its
\* reader can be cancelled.
BeliefMatches ==
  \A a \in Account : stage = "running" /\ ~raced /\ Settled(a) =>
    /\ heard[a] = "subscribed" => \E j \in Job : Active(j) /\ job[j].account = a
    /\ heard[a] = "unsubscribed" => ~\E j \in Job : Active(j) /\ job[j].account = a
    /\ \A j \in Job : Active(j) /\ job[j].account = a => subscriptions[a] = j

\* After a drain that succeeded, the messages that are cut off are those whose
\* handling had not begun when it saw zero.
DrainLosesOnlyLate ==
  stage = "stopped" /\ drained => \A m \in Message : msg[m] = "handling" => m \in late

\* A disrupted account is subscribed to again or its client told that it failed.
DisruptionsResolved ==
  \A a \in Account : heard[a] = "disrupted" ~> heard[a] # "disrupted" \/ ~Explored

\* A shutdown ends.
Stops == stage = "unsubscribing" ~> ~Explored

=============================================================================
