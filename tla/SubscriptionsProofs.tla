------------------------- MODULE SubscriptionsProofs -------------------------
(***************************************************************************)
(* Proofs about Subscriptions: as long as no call of subscribe meets       *)
(* another call about its account between its look at the map and its      *)
(* answer, an account has one reader; and a drain that succeeded cuts off  *)
(* late messages only.                                                     *)
(***************************************************************************)
EXTENDS Subscriptions, FiniteSetTheorems, TLAPS

(* Types.  Calls that are under way are about an account; a job that was    *)
(* launched is too.                                                        *)

JobRecord ==
  [pc: {"unused", "opening", "created", "reading", "failing", "ended"},
   account: Account \cup {None}, pipe: Job \cup {None},
   cause: Causes \cup {None}, watched: BOOLEAN]
SubRecord ==
  [pc: {"idle", "check", "register", "announce", "delay", "done"},
   account: Account \cup {None}, job: Job \cup {None}]
UnsubRecord ==
  [pc: {"idle", "shutdown", "cancel", "forget", "forgetPipe", "done"},
   account: Account \cup {None}, error: Causes \cup {None}]

Launched(r) == r.pc # "unused" => r.account \in Account
Called(r) ==
  /\ r.pc \notin {"idle", "done"} => r.account \in Account
  /\ r.pc \in {"register", "announce"} => r.job \in Job
Asked(r) == r.pc \notin {"idle", "done"} => r.account \in Account /\ r.error \in Causes

Types ==
  /\ subscriptions \in [Account -> Job \cup {None}]
  /\ pipes \in [Account -> Job \cup {None}]
  /\ job \in [Job -> JobRecord] /\ \A j \in Job : Launched(job[j])
  /\ sub \in [Subscriber -> SubRecord] /\ \A x \in Subscriber : Called(sub[x])
  /\ unsub \in [Unsubscriber -> UnsubRecord] /\ \A x \in Unsubscriber : Asked(unsub[x])
  /\ toUnsubscribe \subseteq Account
  /\ raced \in BOOLEAN

LEMMA TypesInit == Init => Types
<1> SUFFICES ASSUME Init PROVE Types
  OBVIOUS
<1>1. /\ subscriptions \in [Account -> Job \cup {None}]
      /\ pipes \in [Account -> Job \cup {None}]
      /\ toUnsubscribe \subseteq Account /\ raced \in BOOLEAN
  BY DEF Init
<1>2. job \in [Job -> JobRecord] /\ \A j \in Job : Launched(job[j])
  BY DEF Init, JobRecord, Launched
<1>3. sub \in [Subscriber -> SubRecord] /\ \A x \in Subscriber : Called(sub[x])
  BY DEF Init, SubRecord, Called
<1>4. unsub \in [Unsubscriber -> UnsubRecord] /\ \A x \in Unsubscriber : Asked(unsub[x])
  BY DEF Init, UnsubRecord, Asked
<1> QED
  BY <1>1, <1>2, <1>3, <1>4 DEF Types

\* A field of a record is replaced.
LEMMA JobFields ==
  ASSUME NEW f \in [Job -> JobRecord], NEW j \in Job
  PROVE  /\ \A pc \in {"opening", "created", "reading", "failing", "ended"} :
              [f EXCEPT ![j].pc = pc] \in [Job -> JobRecord]
         /\ \A a \in Account : [f EXCEPT ![j].account = a] \in [Job -> JobRecord]
         /\ \A p \in Job \cup {None} : [f EXCEPT ![j].pipe = p] \in [Job -> JobRecord]
         /\ \A c \in Causes \cup {None} : [f EXCEPT ![j].cause = c] \in [Job -> JobRecord]
         /\ [f EXCEPT ![j].watched = TRUE] \in [Job -> JobRecord]
<1>1. \A pc \in {"opening", "created", "reading", "failing", "ended"} :
        [f EXCEPT ![j].pc = pc] \in [Job -> JobRecord]
  BY DEF JobRecord
<1>2. \A a \in Account : [f EXCEPT ![j].account = a] \in [Job -> JobRecord]
  BY DEF JobRecord
<1>3. \A p \in Job \cup {None} : [f EXCEPT ![j].pipe = p] \in [Job -> JobRecord]
  BY DEF JobRecord
<1>4. \A c \in Causes \cup {None} : [f EXCEPT ![j].cause = c] \in [Job -> JobRecord]
  BY DEF JobRecord
<1>5. [f EXCEPT ![j].watched = TRUE] \in [Job -> JobRecord]
  BY DEF JobRecord
<1> QED
  BY <1>1, <1>2, <1>3, <1>4, <1>5

LEMMA SubFields ==
  ASSUME NEW f \in [Subscriber -> SubRecord], NEW x \in Subscriber
  PROVE  /\ \A pc \in {"idle", "check", "register", "announce", "delay", "done"} :
              [f EXCEPT ![x].pc = pc] \in [Subscriber -> SubRecord]
         /\ \A a \in Account : [f EXCEPT ![x].account = a] \in [Subscriber -> SubRecord]
         /\ \A j \in Job : [f EXCEPT ![x].job = j] \in [Subscriber -> SubRecord]
         /\ \A a \in Account : [f EXCEPT ![x] = [pc |-> "check", account |-> a, job |-> None]]
                                 \in [Subscriber -> SubRecord]
BY DEF SubRecord

LEMMA UnsubFields ==
  ASSUME NEW f \in [Unsubscriber -> UnsubRecord], NEW x \in Unsubscriber
  PROVE  /\ \A pc \in {"shutdown", "cancel", "forget", "forgetPipe", "done"} :
              [f EXCEPT ![x].pc = pc] \in [Unsubscriber -> UnsubRecord]
         /\ \A a \in Account, e \in Causes :
              [f EXCEPT ![x] = [pc |-> "shutdown", account |-> a, error |-> e]]
                \in [Unsubscriber -> UnsubRecord]
BY DEF UnsubRecord

(* Who reads.                                                              *)

\* Call x of subscribe has launched job j and not entered it into the map.
Registering(x, j) ==
  sub[x].pc = "register" /\ sub[x].job = j /\ sub[x].account = job[j].account

\* Each job that reads is the one that the map names, or about to be.
ReaderKnown ==
  \A j \in Job : Active(j) =>
    \/ subscriptions[job[j].account] = j
    \/ \E x \in Subscriber : Registering(x, j)

\* One call is between its look at the map and its answer.
OneBetween ==
  \A x, y \in Subscriber :
    x \in Between(sub[x].account) /\ y \in Between(sub[x].account) => x = y

\* What a call is about to enter replaces nothing.
NothingReplaced ==
  \A x \in Subscriber : sub[x].pc = "register" => subscriptions[sub[x].account] = None

\* Nobody subscribes to an account whose pipe has been shut down.
Undisturbed ==
  \A x \in Unsubscriber : unsub[x].pc \in {"cancel", "forget", "forgetPipe"} =>
    Between(unsub[x].account) = {}

\* The job whose entry is about to be removed was cancelled.
CancelledFirst ==
  \A x \in Unsubscriber, j \in Job :
    unsub[x].pc = "forget" /\ subscriptions[unsub[x].account] = j => ~Active(j)

\* The map names jobs that were launched for the account.
Launches ==
  /\ \A a \in Account, j \in Job : subscriptions[a] = j => job[j].pc # "unused"
  /\ \A x \in Subscriber : sub[x].pc = "register" => job[sub[x].job].pc # "unused"

ReaderInv ==
  ~raced => ReaderKnown /\ OneBetween /\ NothingReplaced /\ Undisturbed /\ CancelledFirst

\* A step that launches and registers nothing and cancels at most.
JobsQuiet ==
  /\ \A j \in Job : Active(j)' => Active(j) /\ job'[j].account = job[j].account
  /\ \A j \in Job : job[j].pc # "unused" =>
       job'[j].pc # "unused" /\ job'[j].account = job[j].account
SubQuiet ==
  \A x \in Subscriber :
    /\ sub[x].pc = "register" => sub'[x] = sub[x]
    /\ sub'[x].pc \in {"register", "announce"} => sub'[x] = sub[x]
UnsubQuiet ==
  \A x \in Unsubscriber :
    unsub'[x].pc \in {"cancel", "forget", "forgetPipe"} => unsub'[x] = unsub[x]

-----------------------------------------------------------------------------
(* Types, step by step.                                                    *)

JobTypes == job \in [Job -> JobRecord] /\ \A j \in Job : Launched(job[j])
SubTypes == sub \in [Subscriber -> SubRecord] /\ \A x \in Subscriber : Called(sub[x])
UnsubTypes == unsub \in [Unsubscriber -> UnsubRecord] /\ \A x \in Unsubscriber : Asked(unsub[x])

LEMMA Inclusions ==
  /\ Request \subseteq Subscriber /\ Job \subseteq Subscriber
  /\ Subscriber \subseteq Unsubscriber /\ Request \subseteq Unsubscriber
  /\ Job \subseteq Unsubscriber /\ Stop \in Unsubscriber
  /\ None \notin Job /\ Stop \notin Subscriber
BY ConstantsAssumption DEF Subscriber, Unsubscriber

\* A job goes on, with any pipe and cause.
Moves(j, pc, p, c) ==
  job' = [job EXCEPT ![j] = [job[j] EXCEPT !.pc = pc, !.pipe = p, !.cause = c]]

LEMMA JobGoes ==
  ASSUME Types, NEW j \in Job, job[j].pc # "unused",
         NEW pc \in {"opening", "created", "reading", "failing", "ended"},
         NEW p \in Job \cup {None}, NEW c \in Causes \cup {None},
         Moves(j, pc, p, c)
  PROVE  /\ JobTypes'
         /\ job'[j].pc = pc /\ job'[j].account = job[j].account /\ job'[j].cause = c
         /\ \A k \in Job : k # j => job'[k] = job[k]
<1> DEFINE r == [job[j] EXCEPT !.pc = pc, !.pipe = p, !.cause = c]
<1>1. r \in JobRecord /\ r.pc = pc /\ r.account = job[j].account /\ r.cause = c
  BY DEF Types, JobRecord
<1>2. job' = [job EXCEPT ![j] = r]
  BY DEF Moves
<1> HIDE DEF r
<1>3. job' \in [Job -> JobRecord] /\ job'[j] = r /\ \A k \in Job : k # j => job'[k] = job[k]
  BY <1>1, <1>2 DEF Types
<1>4. \A k \in Job : Launched(job'[k])
  BY <1>1, <1>3 DEF Types, Launched
<1> QED
  BY <1>1, <1>3, <1>4 DEF JobTypes

\* How the steps write it.
LEMMA JobForms ==
  ASSUME Types, NEW j \in Job, NEW pc, NEW p, NEW c
  PROVE  /\ job' = [job EXCEPT ![j].pc = pc] => Moves(j, pc, job[j].pipe, job[j].cause)
         /\ job' = [job EXCEPT ![j].pipe = p, ![j].pc = pc] => Moves(j, pc, p, job[j].cause)
         /\ job' = [job EXCEPT ![j].pc = pc, ![j].cause = c] => Moves(j, pc, job[j].pipe, c)
         /\ job[j].pipe \in Job \cup {None} /\ job[j].cause \in Causes \cup {None}
<1>1. job[j] \in JobRecord /\ job \in [Job -> JobRecord]
  BY DEF Types
<1>2. job' = [job EXCEPT ![j].pc = pc] => Moves(j, pc, job[j].pipe, job[j].cause)
  BY <1>1 DEF JobRecord, Moves
<1>3. job' = [job EXCEPT ![j].pipe = p, ![j].pc = pc] => Moves(j, pc, p, job[j].cause)
  BY <1>1 DEF JobRecord, Moves
<1>4. job' = [job EXCEPT ![j].pc = pc, ![j].cause = c] => Moves(j, pc, job[j].pipe, c)
  BY <1>1 DEF JobRecord, Moves
<1> QED
  BY <1>1, <1>2, <1>3, <1>4 DEF JobRecord

\* A call of unsubscribe goes on.
LEMMA UnsubGoes ==
  ASSUME Types, NEW x \in Unsubscriber, unsub[x].pc \notin {"idle", "done"},
         NEW pc \in {"cancel", "forget", "forgetPipe", "done"},
         unsub' = [unsub EXCEPT ![x].pc = pc]
  PROVE  /\ UnsubTypes'
         /\ unsub'[x].pc = pc /\ unsub'[x].account = unsub[x].account
         /\ \A y \in Unsubscriber : y # x => unsub'[y] = unsub[y]
         /\ unsub[x].account \in Account /\ unsub[x].error \in Causes
<1>1. unsub' \in [Unsubscriber -> UnsubRecord]
  BY UnsubFields DEF Types
<1>2. /\ unsub'[x].pc = pc /\ unsub'[x].account = unsub[x].account
      /\ unsub'[x].error = unsub[x].error
      /\ \A y \in Unsubscriber : y # x => unsub'[y] = unsub[y]
  BY DEF Types, UnsubRecord
<1>3. unsub[x].account \in Account /\ unsub[x].error \in Causes
  BY DEF Types, Asked
<1>4. \A y \in Unsubscriber : Asked(unsub'[y])
  BY <1>2, <1>3 DEF Types, Asked
<1> QED
  BY <1>1, <1>2, <1>3, <1>4 DEF UnsubTypes

\* A call of unsubscribe begins.
LEMMA UnsubBegins ==
  ASSUME Types, NEW x \in Unsubscriber, NEW a \in Account, NEW e \in Causes,
         unsub' = [unsub EXCEPT ![x] = [pc |-> "shutdown", account |-> a, error |-> e]]
  PROVE  /\ UnsubTypes'
         /\ unsub'[x].pc = "shutdown"
         /\ \A y \in Unsubscriber : y # x => unsub'[y] = unsub[y]
<1>1. unsub' \in [Unsubscriber -> UnsubRecord]
  BY UnsubFields DEF Types
<1>2. /\ unsub'[x] = [pc |-> "shutdown", account |-> a, error |-> e]
      /\ \A y \in Unsubscriber : y # x => unsub'[y] = unsub[y]
  BY DEF Types
<1>3. \A y \in Unsubscriber : Asked(unsub'[y])
  BY <1>2 DEF Types, Asked
<1> QED
  BY <1>1, <1>2, <1>3 DEF UnsubTypes

\* A call of subscribe goes on.
LEMMA SubGoes ==
  ASSUME Types, NEW x \in Subscriber, NEW pc \in {"check", "announce", "done"},
         Going(x, pc), sub[x].pc \notin {"idle", "done"} \/ pc = "done",
         pc = "announce" => sub[x].pc = "register"
  PROVE  /\ SubTypes'
         /\ sub'[x].pc = pc /\ sub'[x].account = sub[x].account
         /\ \A y \in Subscriber : y # x => sub'[y] = sub[y]
<1>1. sub' \in [Subscriber -> SubRecord]
  BY SubFields DEF Types, Going
<1>2. /\ sub'[x].pc = pc /\ sub'[x].account = sub[x].account /\ sub'[x].job = sub[x].job
      /\ \A y \in Subscriber : y # x => sub'[y] = sub[y]
  BY DEF Types, SubRecord, Going
<1>3. \A y \in Subscriber : Called(sub'[y])
  BY <1>2 DEF Types, Called
<1> QED
  BY <1>1, <1>2, <1>3 DEF SubTypes

\* Job j goes to a label: what the other jobs are stays, and j does not become
\* one that reads unless it was.
LEMMA JobQuiet ==
  ASSUME Types, NEW j \in Job, job[j].pc \notin {"unused", "ended"},
         NEW pc \in {"created", "reading", "failing", "ended"},
         NEW p \in Job \cup {None}, NEW c \in Causes \cup {None},
         c = job[j].cause \/ pc = "ended",
         Moves(j, pc, p, c)
  PROVE  JobTypes' /\ JobsQuiet
<1>1. /\ JobTypes'
      /\ job'[j].pc = pc /\ job'[j].account = job[j].account /\ job'[j].cause = c
      /\ \A k \in Job : k # j => job'[k] = job[k]
  BY JobGoes
<1>2. job[j].pc \in {"opening", "created", "reading", "failing"}
  BY DEF Types, JobRecord
<1> QED
  BY <1>1, <1>2 DEF JobsQuiet, Active

LEMMA EndQuiet ==
  ASSUME Types, NEW j \in Job, job[j].pc \notin {"unused", "ended"},
         NEW c \in Causes \cup {None}, End(j, c)
  PROVE  JobTypes' /\ JobsQuiet
<1>1. Moves(j, "ended", job[j].pipe, c) /\ job[j].pipe \in Job \cup {None}
  BY JobForms DEF End
<1> QED
  BY <1>1, JobQuiet

LEMMA ReadingQuiet ==
  ASSUME Types, NEW j \in Job, job[j].pc \notin {"unused", "ended"},
         NEW p \in Job \cup {None}, Reading(j, p)
  PROVE  JobTypes' /\ JobsQuiet
<1> DEFINE pc == IF job[j].cause = None THEN "reading" ELSE "ended"
<1>1. pc \in {"created", "reading", "failing", "ended"}
  OBVIOUS
<1>2. job' = [job EXCEPT ![j].pipe = p, ![j].pc = pc]
  BY DEF Reading
<1> HIDE DEF pc
<1>3. Moves(j, pc, p, job[j].cause) /\ job[j].cause \in Causes \cup {None}
  BY <1>2, JobForms
<1> QED
  BY <1>1, <1>3, JobQuiet

LEMMA LabelQuiet ==
  ASSUME Types, NEW j \in Job, job[j].pc \notin {"unused", "ended"},
         NEW pc \in {"created", "reading", "failing", "ended"},
         job' = [job EXCEPT ![j].pc = pc]
  PROVE  JobTypes' /\ JobsQuiet
<1>1. /\ Moves(j, pc, job[j].pipe, job[j].cause)
      /\ job[j].pipe \in Job \cup {None} /\ job[j].cause \in Causes \cup {None}
  BY JobForms
<1> QED
  BY <1>1, JobQuiet

\* Steps that change nothing that says who reads, but by ending it.
Quietly == UNCHANGED subscriptions /\ JobsQuiet /\ SubQuiet /\ UnsubQuiet

JobsStay == UNCHANGED job => (Types => JobTypes') /\ JobsQuiet
SubStays == UNCHANGED sub => (Types => SubTypes') /\ SubQuiet
UnsubStays == UNCHANGED unsub => (Types => UnsubTypes') /\ UnsubQuiet

LEMMA Stay == JobsStay /\ SubStays /\ UnsubStays
<1>1. JobsStay
  BY DEF JobsStay, Types, JobTypes, JobsQuiet, Active
<1>2. SubStays
  BY DEF SubStays, Types, SubTypes, SubQuiet
<1>3. UnsubStays
  BY DEF UnsubStays, Types, UnsubTypes, UnsubQuiet
<1> QED
  BY <1>1, <1>2, <1>3

\* The parts of Types.
LEMMA Parts ==
  ASSUME Types, JobTypes', SubTypes', UnsubTypes', UNCHANGED subscriptions,
         toUnsubscribe' \subseteq Account, raced' \in BOOLEAN,
         pipes' \in [Account -> Job \cup {None}]
  PROVE  Types'
BY DEF Types, JobTypes, SubTypes, UnsubTypes

LEMMA RequestsQuiet ==
  ASSUME Types, NEW r \in Request, RequestSubscribe(r) \/ RequestUnsubscribe(r)
  PROVE  Types' /\ Quietly
<1>1. CASE RequestSubscribe(r)
  <2>1. PICK a \in Account : sub' = [sub EXCEPT ![r] = [pc |-> "check", account |-> a, job |-> None]]
    BY <1>1 DEF RequestSubscribe
  <2>2. r \in Subscriber
    BY Inclusions
  <2>3. sub' \in [Subscriber -> SubRecord]
    BY <2>1, <2>2, SubFields DEF Types
  <2>4. /\ sub'[r] = [pc |-> "check", account |-> a, job |-> None]
        /\ \A y \in Subscriber : y # r => sub'[y] = sub[y]
    BY <2>1, <2>2 DEF Types
  <2>5. SubTypes'
    BY <2>3, <2>4 DEF SubTypes, Types, Called
  <2>6. SubQuiet
    BY <1>1, <2>4 DEF SubQuiet, RequestSubscribe, Unsent
  <2>7. UNCHANGED <<job, unsub, subscriptions, pipes, toUnsubscribe, raced>>
    BY <1>1 DEF RequestSubscribe, maps, shutdown
  <2>8. JobTypes' /\ JobsQuiet /\ UnsubTypes' /\ UnsubQuiet
    BY <2>7, Stay DEF JobsStay, UnsubStays
  <2> QED
    BY <2>5, <2>6, <2>7, <2>8, Parts DEF Quietly, Types
<1>2. CASE RequestUnsubscribe(r)
  <2>1. PICK a \in Account :
          unsub' = [unsub EXCEPT ![r] = [pc |-> "shutdown", account |-> a, error |-> "client"]]
    BY <1>2 DEF RequestUnsubscribe
  <2>2. r \in Unsubscriber /\ "client" \in Causes
    BY Inclusions DEF Causes
  <2>3. UnsubTypes' /\ UnsubQuiet
    BY <2>1, <2>2, UnsubBegins DEF UnsubQuiet
  <2>7. UNCHANGED <<job, sub, subscriptions, pipes, toUnsubscribe, raced>>
    BY <1>2 DEF RequestUnsubscribe, maps, shutdown
  <2>8. JobTypes' /\ JobsQuiet /\ SubTypes' /\ SubQuiet
    BY <2>7, Stay DEF JobsStay, SubStays
  <2> QED
    BY <2>3, <2>7, <2>8, Parts DEF Quietly, Types
<1> QED
  BY <1>1, <1>2

LEMMA JobStepsQuiet ==
  ASSUME Types, NEW j \in Job,
         JobStep(j) \/ ReadMessage(j) \/ ReadFails(j) \/ ReadThrows(j)
  PROVE  Types' /\ Quietly
<1>1. /\ UNCHANGED <<sub, subscriptions, toUnsubscribe, raced>>
      /\ UNCHANGED pipes \/ CachePipe(j)
      /\ UNCHANGED unsub \/ ReadFails(j)
  BY DEF JobStep, Open, CachePipe, ReadTimesOut, FailingReturns, ReadMessage, ReadFails,
         ReadThrows, maps, shutdown
<1>2. SubTypes' /\ SubQuiet /\ (UNCHANGED unsub => UnsubTypes' /\ UnsubQuiet)
  BY <1>1, Stay DEF SubStays, UnsubStays
<1>3. job[j].pipe \in Job \cup {None} /\ job[j].cause \in Causes \cup {None}
  BY JobForms
<1>4. job[j].pc # "unused" => job[j].account \in Account
  BY DEF Types, Launched
<1>5. pipes' \in [Account -> Job \cup {None}]
  BY <1>1, <1>4 DEF Types, CachePipe
<1>6. JobTypes' /\ JobsQuiet
  <2>1. CASE Open(j)
    <3>1. pipes[job[j].account] \in Job \cup {None}
      BY <2>1, <1>4 DEF Open, Types
    <3>2. CASE Reading(j, pipes[job[j].account])
      BY <2>1, <3>1, <3>2, ReadingQuiet DEF Open
    <3>3. CASE job' = [job EXCEPT ![j].pc = "created"]
      BY <2>1, <3>3, LabelQuiet DEF Open
    <3>4. CASE End(j, "pipe") \/ End(j, job[j].cause)
      BY <2>1, <3>4, <1>3, EndQuiet DEF Open, Causes
    <3> QED
      BY <2>1, <3>2, <3>3, <3>4 DEF Open
  <2>2. CASE CachePipe(j)
    BY <2>2, ReadingQuiet DEF CachePipe
  <2>3. CASE ReadTimesOut(j) \/ FailingReturns(j) \/ ReadThrows(j)
    BY <2>3, <1>3, EndQuiet DEF ReadTimesOut, FailingReturns, ReadThrows, Causes
  <2>4. CASE ReadMessage(j)
    BY <2>4, <1>3, ReadingQuiet DEF ReadMessage
  <2>5. CASE ReadFails(j)
    <3>1. CASE job' = [job EXCEPT ![j].pc = "failing"]
      BY <2>5, <3>1, LabelQuiet DEF ReadFails
    <3>2. CASE End(j, IF job[j].cause = None THEN "shutdown" ELSE job[j].cause)
      BY <2>5, <3>2, <1>3, EndQuiet DEF ReadFails, Causes
    <3> QED
      BY <2>5, <3>1, <3>2 DEF ReadFails
  <2> QED
    BY <2>1, <2>2, <2>3, <2>4, <2>5 DEF JobStep
<1>7. UnsubTypes' /\ UnsubQuiet
  <2>1. CASE UNCHANGED unsub
    BY <2>1, <1>2
  <2>2. CASE /\ ReadFails(j)
             /\ unsub' = [unsub EXCEPT ![j] = [pc |-> "shutdown", account |-> job[j].account,
                                               error |-> "disrupted"]]
    <3>1. j \in Unsubscriber /\ "disrupted" \in Causes /\ job[j].account \in Account
      BY <2>2, <1>4, Inclusions DEF ReadFails, Causes
    <3> QED
      BY <3>1, <2>2, UnsubBegins DEF UnsubQuiet
  <2> QED
    BY <1>1, <2>1, <2>2 DEF ReadFails
<1> QED
  BY <1>1, <1>2, <1>5, <1>6, <1>7, Parts DEF Quietly, Types

LEMMA CompletionQuiet ==
  ASSUME Types, NEW j \in Job, CompletionStep(j)
  PROVE  Types' /\ Quietly
<1>1. UNCHANGED <<job, unsub, subscriptions, pipes, toUnsubscribe, raced>>
  BY DEF CompletionStep, Complete, SubscribeAgain, maps, shutdown
<1>2. JobTypes' /\ JobsQuiet /\ UnsubTypes' /\ UnsubQuiet
  BY <1>1, Stay DEF JobsStay, UnsubStays
<1>3. j \in Subscriber
  BY Inclusions
<1>4. SubTypes' /\ SubQuiet
  <2>1. CASE Complete(j) /\ Going(j, "done")
    BY <2>1, <1>3, SubGoes DEF Complete, SubQuiet
  <2>2. CASE SubscribeAgain(j)
    BY <2>2, <1>3, SubGoes DEF SubscribeAgain, SubQuiet
  <2>3. CASE Complete(j) /\ sub' = [sub EXCEPT ![j].pc = "delay", ![j].account = job[j].account]
    <3>1. job[j].account \in Account
      BY <2>3 DEF Complete, Types, Launched
    <3>2. [sub EXCEPT ![j].pc = "delay"] \in [Subscriber -> SubRecord]
      BY <1>3, SubFields DEF Types
    <3>3. [[sub EXCEPT ![j].pc = "delay"] EXCEPT ![j].account = job[j].account]
            \in [Subscriber -> SubRecord]
      BY <1>3, <3>1, <3>2, SubFields
    <3>4. sub' \in [Subscriber -> SubRecord]
      BY <2>3, <3>3
    <3>5. sub[j] \in SubRecord
      BY <1>3 DEF Types
    <3>6. sub'[j].pc = "delay" /\ sub'[j].account = job[j].account
      BY <2>3, <3>5, <1>3 DEF Types, SubRecord
    <3>7. \A y \in Subscriber : y # j => sub'[y] = sub[y]
      BY <2>3 DEF Types
    <3>8. SubTypes'
      BY <3>1, <3>4, <3>6, <3>7 DEF SubTypes, Types, Called
    <3>9. SubQuiet
      BY <2>3, <3>6, <3>7 DEF SubQuiet, Complete
    <3> QED
      BY <3>8, <3>9
  <2> QED
    BY <2>1, <2>2, <2>3 DEF CompletionStep, Complete
<1> QED
  BY <1>1, <1>2, <1>4, Parts DEF Quietly, Types

LEMMA StopQuiet ==
  ASSUME Types, UnsubscribeAll \/ StopStep \/ \E m \in Message : BeginMessage(m) \/ EndMessage(m)
  PROVE  Types' /\ Quietly
<1>1. /\ UNCHANGED <<job, sub, subscriptions, pipes, raced>>
      /\ toUnsubscribe' \subseteq Account
      /\ UNCHANGED unsub \/ UnsubscribeNext
  BY DEF UnsubscribeAll, StopStep, UnsubscribeNext, AllUnsubscribed, Drain, StopSockets,
         BeginMessage, EndMessage, maps, shutdown, Types
<1>2. /\ JobTypes' /\ JobsQuiet /\ SubTypes' /\ SubQuiet
      /\ UNCHANGED unsub => UnsubTypes' /\ UnsubQuiet
  BY <1>1, Stay DEF JobsStay, SubStays, UnsubStays
<1>3. ASSUME UnsubscribeNext PROVE UnsubTypes' /\ UnsubQuiet
  <2>1. PICK a \in toUnsubscribe :
          unsub' = [unsub EXCEPT ![Stop] = [pc |-> "shutdown", account |-> a, error |-> "client"]]
    BY <1>3 DEF UnsubscribeNext
  <2>2. a \in Account /\ Stop \in Unsubscriber /\ "client" \in Causes
    BY Inclusions DEF Types, Causes
  <2> QED
    BY <2>1, <2>2, UnsubBegins DEF UnsubQuiet
<1> QED
  BY <1>1, <1>2, <1>3, Parts DEF Quietly, Types

-----------------------------------------------------------------------------
(* One reader, step by step.                                               *)

Books == Types /\ Launches /\ ReaderInv

LEMMA QuietKeeps ==
  ASSUME Books, Types', Quietly, ~raced
  PROVE  Launches' /\ ReaderInv'
<1>1. Launches'
  BY DEF Books, Types, Launches, Quietly, JobsQuiet, SubQuiet, Called
<1>2. ReaderKnown /\ OneBetween /\ NothingReplaced /\ Undisturbed /\ CancelledFirst
  BY DEF Books, ReaderInv
<1>3. ASSUME NEW a PROVE Between(a)' \subseteq Between(a)
  BY DEF Between, Quietly, SubQuiet
<1>4. ReaderKnown'
  BY <1>2 DEF ReaderKnown, Registering, Quietly, JobsQuiet, SubQuiet
<1>5. OneBetween'
  BY <1>2 DEF OneBetween, Between, Quietly, SubQuiet
<1>6. NothingReplaced'
  BY <1>2 DEF NothingReplaced, Quietly, SubQuiet
<1>7. Undisturbed'
  BY <1>2, <1>3 DEF Undisturbed, Quietly, UnsubQuiet
<1>8. CancelledFirst'
  BY <1>2 DEF CancelledFirst, Quietly, JobsQuiet, UnsubQuiet
<1> QED
  BY <1>1, <1>4, <1>5, <1>6, <1>7, <1>8 DEF ReaderInv

\* A job is launched.
LEMMA CheckKeeps ==
  ASSUME Books, NEW x \in Subscriber, Check(x), ~raced
  PROVE  Books'
<1> DEFINE a == sub[x].account
<1>1. a \in Account /\ sub[x] \in SubRecord
  BY DEF Books, Types, Called, Check
<1>2. CASE subscriptions[a] # None /\ Going(x, "done") /\ UNCHANGED <<job, raced>>
  <2>1. SubTypes' /\ SubQuiet
    BY <1>2, SubGoes DEF Books, Check, SubQuiet
  <2>2. UNCHANGED <<job, unsub, subscriptions, pipes, toUnsubscribe, raced>>
    BY <1>2 DEF Check, maps, shutdown
  <2>3. JobTypes' /\ JobsQuiet /\ UnsubTypes' /\ UnsubQuiet
    BY <2>2, Stay DEF JobsStay, UnsubStays, Books
  <2>4. Types' /\ Quietly
    BY <2>1, <2>2, <2>3, Parts DEF Quietly, Types, Books
  <2> QED
    BY <2>4, QuietKeeps DEF Books
<1>3. ASSUME NEW j \in Job, job[j].pc = "unused", subscriptions[a] = None,
             job' = [job EXCEPT ![j].pc = "opening", ![j].account = a],
             sub' = [sub EXCEPT ![x].pc = "register", ![x].job = j],
             Race(Between(a) # {} \/ Unsubscribing(a))
      PROVE  Books'
  <2> USE DEF Books
  <2>1. UNCHANGED <<unsub, subscriptions, pipes, toUnsubscribe>> /\ raced' \in BOOLEAN
    BY <1>3 DEF Check, maps, shutdown, Race
  <2>2. job' \in [Job -> JobRecord]
    <3>1. [job EXCEPT ![j].pc = "opening"] \in [Job -> JobRecord]
      BY JobFields DEF Types
    <3>2. [[job EXCEPT ![j].pc = "opening"] EXCEPT ![j].account = a] \in [Job -> JobRecord]
      BY <3>1, <1>1, JobFields
    <3> QED
      BY <1>3, <3>2
  <2>3. /\ job'[j].pc = "opening" /\ job'[j].account = a
        /\ \A k \in Job : k # j => job'[k] = job[k]
    BY <1>3 DEF Types, JobRecord
  <2>4. JobTypes'
    BY <2>2, <2>3, <1>1 DEF JobTypes, Types, Launched
  <2>5. sub' \in [Subscriber -> SubRecord]
    <3>1. [sub EXCEPT ![x].pc = "register"] \in [Subscriber -> SubRecord]
      BY SubFields DEF Types
    <3>2. [[sub EXCEPT ![x].pc = "register"] EXCEPT ![x].job = j] \in [Subscriber -> SubRecord]
      BY <3>1, SubFields
    <3> QED
      BY <1>3, <3>2
  <2>6. /\ sub'[x].pc = "register" /\ sub'[x].account = a /\ sub'[x].job = j
        /\ \A y \in Subscriber : y # x => sub'[y] = sub[y]
    BY <1>3, <1>1 DEF Types, SubRecord
  <2>7. SubTypes'
    BY <2>5, <2>6, <1>1 DEF SubTypes, Types, Called
  <2>8. UnsubTypes'
    BY <2>1, Stay DEF UnsubStays
  <2>9. Types'
    BY <2>1, <2>4, <2>7, <2>8, Parts DEF Types
  <2>10. Launches'
    BY <2>1, <2>3, <2>6 DEF Launches, Types, Called
  <2>11. ASSUME ~raced'
         PROVE  (ReaderKnown /\ OneBetween /\ NothingReplaced /\ Undisturbed /\ CancelledFirst)'
    <3>1. Between(a) = {} /\ ~Unsubscribing(a)
      BY <1>3, <2>11 DEF Race
    <3>2. ReaderKnown /\ OneBetween /\ NothingReplaced /\ Undisturbed /\ CancelledFirst
      BY DEF ReaderInv
    <3>3. sub[x].pc = "check"
      BY DEF Check
    <3>4. ReaderKnown'
      <4> SUFFICES ASSUME NEW k \in Job, Active(k)'
                   PROVE  \/ subscriptions[job'[k].account] = k
                          \/ \E y \in Subscriber : Registering(y, k)'
        BY <2>1 DEF ReaderKnown
      <4>1. CASE k = j
        BY <4>1, <2>3, <2>6 DEF Registering
      <4>2. CASE k # j
        <5>1. job'[k] = job[k] /\ Active(k)
          BY <4>2, <2>3 DEF Active
        <5>2. CASE subscriptions[job[k].account] = k
          BY <5>1, <5>2
        <5>3. ASSUME NEW y \in Subscriber, Registering(y, k)
              PROVE  Registering(y, k)'
          BY <5>1, <5>3, <2>6, <3>3 DEF Registering
        <5> QED
          BY <5>1, <5>2, <5>3, <3>2 DEF ReaderKnown
      <4> QED
        BY <4>1, <4>2
    <3>5. \A b : b # a => Between(b)' = Between(b)
      BY <2>6, <3>3 DEF Between
    <3>6. OneBetween'
      BY <3>1, <3>2, <2>6 DEF OneBetween, Between
    <3>7. NothingReplaced'
      BY <1>3, <2>1, <2>6, <3>2 DEF NothingReplaced
    <3>8. Undisturbed'
      BY <2>1, <3>1, <3>2, <3>5 DEF Undisturbed, Unsubscribing, Idle
    <3>9. CancelledFirst'
      <4> SUFFICES ASSUME NEW y \in Unsubscriber, NEW k \in Job, unsub[y].pc = "forget",
                          subscriptions[unsub[y].account] = k
                   PROVE  ~Active(k)'
        BY <2>1 DEF CancelledFirst
      <4>1. unsub[y].account \in Account
        BY DEF Types, Asked
      <4>2. k # j
        BY <4>1, <1>3 DEF Launches
      <4> QED
        BY <4>2, <2>3, <3>2 DEF CancelledFirst, Active
    <3> QED
      BY <3>4, <3>6, <3>7, <3>8, <3>9
  <2> QED
    BY <2>9, <2>10, <2>11 DEF ReaderInv
<1> QED
  BY <1>2, <1>3 DEF Check

\* The job enters the map.
LEMMA RegisterKeeps ==
  ASSUME Books, NEW x \in Subscriber, Register(x), ~raced
  PROVE  Books'
<1> USE DEF Books
<1> DEFINE a == sub[x].account
           j == sub[x].job
<1>1. a \in Account /\ j \in Job /\ sub[x].pc = "register"
  BY DEF Types, Called, Register
<1>2. UNCHANGED <<job, unsub, pipes, toUnsubscribe, raced>>
  BY DEF Register, shutdown
<1>3. /\ SubTypes' /\ sub'[x].pc = "announce" /\ sub'[x].account = a
      /\ \A y \in Subscriber : y # x => sub'[y] = sub[y]
  BY <1>1, SubGoes DEF Register
<1>4. /\ subscriptions' \in [Account -> Job \cup {None}]
      /\ subscriptions'[a] = j
      /\ \A b \in Account : b # a => subscriptions'[b] = subscriptions[b]
  BY <1>1 DEF Register, Types
<1>5. JobTypes' /\ UnsubTypes'
  BY <1>2, Stay DEF JobsStay, UnsubStays
<1>6. Types'
  BY <1>2, <1>3, <1>4, <1>5 DEF Types, JobTypes, SubTypes, UnsubTypes
<1>7. Launches'
  BY <1>1, <1>2, <1>3, <1>4 DEF Launches
<1>8. ReaderKnown /\ OneBetween /\ NothingReplaced /\ Undisturbed /\ CancelledFirst
  BY DEF ReaderInv
<1>9. \A b : Between(b)' = Between(b)
  BY <1>1, <1>3 DEF Between
<1>10. x \in Between(a) /\ subscriptions[a] = None
  BY <1>1, <1>8 DEF Between, NothingReplaced
<1>11. ReaderKnown'
  <2> SUFFICES ASSUME NEW k \in Job, Active(k)
               PROVE  \/ subscriptions'[job[k].account] = k
                      \/ \E y \in Subscriber : Registering(y, k)'
    BY <1>2 DEF ReaderKnown, Active
  <2>1. job[k].account \in Account
    BY DEF Active, Types, Launched
  <2>2. CASE subscriptions[job[k].account] = k
    <3>1. job[k].account # a
      BY <2>2, <1>10, Inclusions
    <3> QED
      BY <2>1, <2>2, <3>1, <1>4
  <2>3. ASSUME NEW y \in Subscriber, Registering(y, k), y = x
        PROVE  subscriptions'[job[k].account] = k
    BY <2>3, <1>4 DEF Registering
  <2>4. ASSUME NEW y \in Subscriber, Registering(y, k), y # x
        PROVE  Registering(y, k)'
    BY <2>4, <1>2, <1>3 DEF Registering
  <2> QED
    BY <2>2, <2>3, <2>4, <1>8 DEF ReaderKnown
<1>12. OneBetween'
  BY <1>3, <1>8, <1>9 DEF OneBetween
<1>13. NothingReplaced'
  <2> SUFFICES ASSUME NEW y \in Subscriber, sub'[y].pc = "register"
               PROVE  subscriptions'[sub'[y].account] = None
    BY DEF NothingReplaced
  <2>1. y # x /\ sub'[y] = sub[y]
    BY <1>3
  <2>2. sub[y].account # a
    BY <2>1, <1>8, <1>10 DEF OneBetween, Between
  <2>3. sub[y].account \in Account /\ subscriptions[sub[y].account] = None
    BY <2>1, <1>8 DEF NothingReplaced, Types, Called
  <2> QED
    BY <2>1, <2>2, <2>3, <1>4
<1>14. Undisturbed'
  BY <1>2, <1>8, <1>9 DEF Undisturbed
<1>15. CancelledFirst'
  <2> SUFFICES ASSUME NEW y \in Unsubscriber, NEW k \in Job, unsub[y].pc = "forget",
                      subscriptions'[unsub[y].account] = k
               PROVE  ~Active(k)
    BY <1>2 DEF CancelledFirst, Active
  <2>1. unsub[y].account \in Account /\ unsub[y].account # a
    BY <1>8, <1>10 DEF Undisturbed, Types, Asked
  <2> QED
    BY <2>1, <1>4, <1>8 DEF CancelledFirst
<1> QED
  BY <1>6, <1>7, <1>11, <1>12, <1>13, <1>14, <1>15 DEF ReaderInv

LEMMA AnnounceKeeps ==
  ASSUME Books, NEW x \in Subscriber, Announce(x), ~raced
  PROVE  Books'
<1> USE DEF Books
<1>1. sub[x].job \in Job /\ sub[x].pc = "announce"
  BY DEF Types, Called, Announce
<1>2. UNCHANGED <<unsub, subscriptions, pipes, toUnsubscribe, raced>>
  BY DEF Announce, maps, shutdown
<1>3. SubTypes' /\ SubQuiet
  BY <1>1, SubGoes DEF Announce, SubQuiet
<1>4. job' \in [Job -> JobRecord]
  BY <1>1, JobFields DEF Announce, Types
<1>5. \A j \in Job : /\ job'[j].pc = job[j].pc /\ job'[j].account = job[j].account
                     /\ job'[j].cause = job[j].cause
  BY <1>1 DEF Announce, Types, JobRecord
<1>6. JobTypes'
  BY <1>4, <1>5 DEF JobTypes, Types, Launched
<1>7. JobsQuiet
  BY <1>5 DEF JobsQuiet, Active
<1>8. UnsubTypes' /\ UnsubQuiet
  BY <1>2, Stay DEF UnsubStays
<1>9. Types' /\ Quietly
  BY <1>2, <1>3, <1>6, <1>7, <1>8, Parts DEF Quietly, Types
<1> QED
  BY <1>9, QuietKeeps

\* A call of unsubscribe takes a step.
LEMMA UnsubscribeKeeps ==
  ASSUME Books, NEW x \in Unsubscriber, UnsubscribeStep(x), ~raced
  PROVE  Books'
<1> USE DEF Books
<1> DEFINE a == unsub[x].account
           pc == IF ShutdownPipe(x) THEN "cancel" ELSE IF CancelJob(x) THEN "forget"
                 ELSE IF Forget(x) THEN "forgetPipe" ELSE "done"
<1>1. /\ unsub[x].pc \notin {"idle", "done"}
      /\ pc \in {"cancel", "forget", "forgetPipe", "done"}
      /\ unsub' = [unsub EXCEPT ![x].pc = pc]
  BY DEF UnsubscribeStep, ShutdownPipe, CancelJob, Forget, ForgetPipe
<1>2. /\ ShutdownPipe(x) => pc = "cancel"
      /\ CancelJob(x) => pc = "forget"
      /\ Forget(x) => pc = "forgetPipe"
      /\ ForgetPipe(x) => pc = "done"
  BY DEF ShutdownPipe, CancelJob, Forget, ForgetPipe
<1> HIDE DEF pc
<1>3. /\ UnsubTypes'
      /\ unsub'[x].pc = pc /\ unsub'[x].account = a
      /\ \A y \in Unsubscriber : y # x => unsub'[y] = unsub[y]
      /\ a \in Account /\ unsub[x].error \in Causes
  BY <1>1, UnsubGoes
<1>4. UNCHANGED <<sub, toUnsubscribe>> /\ raced' = (Between(a) # {})
  BY DEF UnsubscribeStep, ShutdownPipe, CancelJob, Forget, ForgetPipe, maps, shutdown, Race
<1>5. SubTypes'
  BY <1>4, Stay DEF SubStays
<1>6. \A b : Between(b)' = Between(b)
  BY <1>4 DEF Between
<1> DEFINE Ends ==
      /\ JobTypes'
      /\ \A j \in Job : /\ job'[j].pc = job[j].pc /\ job'[j].account = job[j].account
                        /\ Active(j)' => Active(j)
      /\ CancelJob(x) => \A j \in Job : subscriptions[a] = j => ~Active(j)'
<1>7. Ends
  <2>1. CASE UNCHANGED job /\ ~CancelJob(x)
    BY <2>1, Stay DEF JobsStay, Active
  <2>2. CASE CancelJob(x) /\ (subscriptions[a] = None \/ ~Active(subscriptions[a]))
    <3>1. UNCHANGED job
      BY <2>2 DEF CancelJob, Cancelled
    <3>2. \A j \in Job : subscriptions[a] = j => ~Active(j)
      BY <2>2, Inclusions
    <3> QED
      BY <3>1, <3>2, Stay DEF JobsStay, Active
  <2>3. ASSUME NEW j \in Job, CancelJob(x), subscriptions[a] = j, Active(j)
        PROVE  Ends
    <3>1. job' = [job EXCEPT ![j].cause = unsub[x].error]
      BY <2>3, Inclusions DEF CancelJob, Cancelled
    <3>2. job' \in [Job -> JobRecord]
      BY <3>1, <1>3, JobFields DEF Types
    <3>3. /\ job'[j].cause = unsub[x].error
          /\ \A k \in Job : /\ job'[k].pc = job[k].pc /\ job'[k].account = job[k].account
                            /\ k # j => job'[k] = job[k]
      BY <3>1 DEF Types, JobRecord
    <3>4. unsub[x].error # None
      BY <1>3, ConstantsAssumption
    <3>5. JobTypes'
      BY <3>2, <3>3 DEF JobTypes, Types, Launched
    <3>6. ~Active(j)'
      BY <3>3, <3>4 DEF Active
    <3> QED
      BY <2>3, <3>3, <3>5, <3>6 DEF Active
  <2>4. CancelJob(x) => subscriptions[a] \in Job \cup {None}
    BY <1>3 DEF Types
  <2>5. UNCHANGED job \/ CancelJob(x)
    BY DEF UnsubscribeStep, ShutdownPipe, Forget, ForgetPipe
  <2> HIDE DEF Ends
  <2> QED
    BY <2>1, <2>2, <2>3, <2>4, <2>5
<1>8. /\ subscriptions' \in [Account -> Job \cup {None}]
      /\ pipes' \in [Account -> Job \cup {None}]
      /\ \A b \in Account : subscriptions'[b] \in {subscriptions[b], None}
      /\ Forget(x) => subscriptions'[a] = None
      /\ \A b \in Account : b # a => subscriptions'[b] = subscriptions[b]
      /\ ~Forget(x) => UNCHANGED subscriptions
  BY <1>3 DEF Types, UnsubscribeStep, ShutdownPipe, CancelJob, Forget, ForgetPipe, maps
<1>9. Types'
  BY <1>3, <1>4, <1>5, <1>7, <1>8 DEF Types, JobTypes, SubTypes, UnsubTypes
<1>10. Launches'
  BY <1>4, <1>7, <1>8, Inclusions DEF Launches, Types, Called
<1>11. ASSUME ~raced'
       PROVE  (ReaderKnown /\ OneBetween /\ NothingReplaced /\ Undisturbed /\ CancelledFirst)'
  <2>1. Between(a) = {}
    BY <1>4, <1>11
  <2>2. ReaderKnown /\ OneBetween /\ NothingReplaced /\ Undisturbed /\ CancelledFirst
    BY DEF ReaderInv
  <2>3. ReaderKnown'
    <3> SUFFICES ASSUME NEW k \in Job, Active(k)'
                 PROVE  \/ subscriptions'[job'[k].account] = k
                        \/ \E y \in Subscriber : Registering(y, k)'
      BY DEF ReaderKnown
    <3>1. Active(k) /\ job'[k].account = job[k].account /\ job[k].account \in Account
      BY <1>7 DEF Types, Launched, Active
    <3>2. CASE subscriptions[job[k].account] = k
      <4>1. ~Forget(x) \/ job[k].account # a
        BY <2>2, <3>1, <3>2, <1>1 DEF CancelledFirst, Forget
      <4> QED
        BY <4>1, <3>1, <3>2, <1>8
    <3>3. ASSUME NEW y \in Subscriber, Registering(y, k)
          PROVE  Registering(y, k)'
      BY <3>1, <3>3, <1>4 DEF Registering
    <3> QED
      BY <3>1, <3>2, <3>3, <2>2 DEF ReaderKnown
  <2>4. OneBetween'
    BY <1>4, <1>6, <2>2 DEF OneBetween
  <2>5. NothingReplaced'
    BY <1>4, <1>8, <2>2 DEF NothingReplaced, Types, Called
  <2>6. Undisturbed'
    BY <1>3, <1>6, <2>1, <2>2 DEF Undisturbed
  <2>7. CancelledFirst'
    <3> SUFFICES ASSUME NEW y \in Unsubscriber, NEW k \in Job, unsub'[y].pc = "forget",
                        subscriptions'[unsub'[y].account] = k
                 PROVE  ~Active(k)'
      BY DEF CancelledFirst
    <3>1. CASE y = x
      BY <3>1, <1>1, <1>2, <1>3, <1>7, <1>8 DEF UnsubscribeStep, CancelJob, Forget
    <3>2. CASE y # x
      <4>1. unsub'[y] = unsub[y] /\ unsub[y].account \in Account
        BY <3>2, <1>3 DEF Types, Asked
      <4>2. subscriptions[unsub[y].account] = k
        BY <4>1, <1>8, Inclusions
      <4> QED
        BY <4>1, <4>2, <1>7, <2>2 DEF CancelledFirst
    <3> QED
      BY <3>1, <3>2
  <2> QED
    BY <2>3, <2>4, <2>5, <2>6, <2>7
<1> QED
  BY <1>9, <1>10, <1>11 DEF ReaderInv

LEMMA BooksInit == Init => Books
<1>1. Init => Launches
  BY ConstantsAssumption DEF Init, Launches
<1>2. Init => ReaderInv
  <2> SUFFICES ASSUME Init PROVE ReaderInv
    OBVIOUS
  <2>1. /\ \A x \in Subscriber : sub[x].pc = "idle"
        /\ \A x \in Unsubscriber : unsub[x].pc = "idle"
        /\ \A j \in Job : job[j].pc = "unused"
    BY DEF Init
  <2> QED
    BY <2>1 DEF ReaderInv, ReaderKnown, OneBetween, NothingReplaced, Undisturbed,
                CancelledFirst, Between, Active
<1> QED
  BY <1>1, <1>2, TypesInit DEF Books

LEMMA BooksNext == Books /\ [Next]_vars => Books'
<1> SUFFICES ASSUME Books, [Next]_vars PROVE Books'
  OBVIOUS
<1>1. Types
  BY DEF Books
<1>2. CASE UNCHANGED vars
  BY <1>2 DEF vars, maps, messages, shutdown, Books, Types, Launches, ReaderInv, ReaderKnown,
              Registering, OneBetween, NothingReplaced, Undisturbed, CancelledFirst, Between,
              Active
<1>3. CASE Next
  <2>1. ~raced
    BY <1>3 DEF Next, Explored
  <2>2. ASSUME NEW r \in Request, RequestSubscribe(r) \/ RequestUnsubscribe(r)
        PROVE  Books'
    BY <1>1, <2>1, <2>2, RequestsQuiet, QuietKeeps DEF Books
  <2>3. ASSUME NEW x \in Subscriber, SubscribeStep(x)
        PROVE  Books'
    BY <2>1, <2>3, CheckKeeps, RegisterKeeps, AnnounceKeeps DEF SubscribeStep
  <2>4. ASSUME NEW x \in Unsubscriber, UnsubscribeStep(x)
        PROVE  Books'
    BY <2>1, <2>4, UnsubscribeKeeps
  <2>5. ASSUME NEW j \in Job, CompletionStep(j)
        PROVE  Books'
    BY <1>1, <2>1, <2>5, CompletionQuiet, QuietKeeps DEF Books
  <2>6. ASSUME NEW j \in Job, JobStep(j) \/ ReadMessage(j) \/ ReadFails(j) \/ ReadThrows(j)
        PROVE  Books'
    BY <1>1, <2>1, <2>6, JobStepsQuiet, QuietKeeps DEF Books
  <2>7. ASSUME \/ UnsubscribeAll \/ StopStep
               \/ \E m \in Message : BeginMessage(m) \/ EndMessage(m)
        PROVE  Books'
    BY <1>1, <2>1, <2>7, StopQuiet, QuietKeeps DEF Books
  <2> QED
    BY <1>3, <2>2, <2>3, <2>4, <2>5, <2>6, <2>7 DEF Next
<1> QED
  BY <1>2, <1>3

-----------------------------------------------------------------------------
(* The theorems. *)

\* As long as no call of subscribe meets another about its account between its
\* look at the map and its answer, an account has one reader, for any numbers of
\* accounts, requests, jobs and failures, and whenever the shutdown comes.
THEOREM OneReaderAlways == Spec => []OneReader
<1>1. Books => OneReader
  <2> SUFFICES ASSUME Books, ~raced, NEW j \in Job, NEW k \in Job, Active(j), Active(k),
                      job[j].account = job[k].account
               PROVE  j = k
    BY DEF OneReader
  <2>1. ReaderKnown /\ OneBetween /\ NothingReplaced
    BY DEF Books, ReaderInv
  <2>2. \A x \in Subscriber, i \in Job : Registering(x, i) =>
          x \in Between(job[i].account) /\ subscriptions[job[i].account] = None
    BY <2>1 DEF Registering, Between, NothingReplaced
  <2>3. CASE subscriptions[job[j].account] = j
    BY <2>1, <2>2, <2>3, Inclusions DEF ReaderKnown
  <2>4. ASSUME NEW x \in Subscriber, Registering(x, j)
        PROVE  j = k
    <3>1. PICK y \in Subscriber : Registering(y, k)
      BY <2>1, <2>2, <2>4, Inclusions DEF ReaderKnown
    <3>2. x = y
      BY <2>1, <2>2, <2>4, <3>1 DEF OneBetween, Registering
    <3> QED
      BY <2>4, <3>1, <3>2 DEF Registering
  <2> QED
    BY <2>1, <2>3, <2>4 DEF ReaderKnown
<1> QED
  BY <1>1, BooksInit, BooksNext, PTL DEF Spec

\* The count of messages in flight is right, and once a drain has seen zero
\* whatever is handled began late.
DrainInv ==
  /\ msg \in [Message -> {"unread", "launched", "handling", "relayed"}]
  /\ inFlight = Cardinality({m \in Message : msg[m] = "handling"})
  /\ stage \in {"running", "unsubscribing", "draining", "stopping", "stopped"}
  /\ drained \in BOOLEAN
  /\ late \subseteq Message
  /\ drained => /\ stage \in {"stopping", "stopped"}
                /\ \A m \in Message : msg[m] = "handling" => m \in late

LEMMA DrainInit == Init => DrainInv
<1> DEFINE H == {m \in Message : msg[m] = "handling"}
<1> SUFFICES ASSUME Init PROVE DrainInv
  OBVIOUS
<1>1. H = {}
  BY DEF Init
<1> QED
  BY <1>1, FS_EmptySet DEF Init, DrainInv

LEMMA DrainNext == DrainInv /\ [Next]_vars => DrainInv'
<1> DEFINE H == {m \in Message : msg[m] = "handling"}
<1> SUFFICES ASSUME DrainInv, [Next]_vars PROVE DrainInv'
  OBVIOUS
<1> USE DEF DrainInv
<1>1. IsFiniteSet(H)
  BY FS_Subset, ConstantsAssumption
<1>2. ASSUME NEW m \in Message, BeginMessage(m) PROVE DrainInv'
  <2>1. H' = H \cup {m} /\ m \notin H
    BY <1>2 DEF BeginMessage
  <2>2. Cardinality(H') = Cardinality(H) + 1
    BY <1>1, <2>1, FS_AddElement
  <2>3. /\ msg' = [msg EXCEPT ![m] = "handling"] /\ inFlight' = inFlight + 1
        /\ late' = IF stage \in {"stopping", "stopped"} THEN late \cup {m} ELSE late
        /\ UNCHANGED <<stage, drained>>
    BY <1>2 DEF BeginMessage, shutdown
  <2>4. inFlight' = Cardinality(H')
    BY <2>2, <2>3
  <2>5. /\ msg' \in [Message -> {"unread", "launched", "handling", "relayed"}]
        /\ late' \subseteq Message
    BY <2>3
  <2>6. drained' => /\ stage' \in {"stopping", "stopped"}
                    /\ \A n \in Message : msg'[n] = "handling" => n \in late'
    BY <2>3
  <2> QED
    BY <2>3, <2>4, <2>5, <2>6
<1>3. ASSUME NEW m \in Message, EndMessage(m) PROVE DrainInv'
  <2>1. H' = H \ {m} /\ m \in H
    BY <1>3 DEF EndMessage
  <2>2. Cardinality(H') = Cardinality(H) - 1
    BY <1>1, <2>1, FS_RemoveElement
  <2>3. /\ msg' = [msg EXCEPT ![m] = "relayed"] /\ inFlight' = inFlight - 1
        /\ UNCHANGED <<stage, drained, late>>
    BY <1>3 DEF EndMessage, shutdown
  <2>4. inFlight' = Cardinality(H')
    BY <2>2, <2>3
  <2> QED
    BY <2>3, <2>4
<1>4. ASSUME NEW j \in Job, ReadMessage(j) PROVE DrainInv'
  <2>1. PICK m \in Message : msg[m] = "unread" /\ msg' = [msg EXCEPT ![m] = "launched"]
    BY <1>4 DEF ReadMessage
  <2>2. H' = H
    BY <2>1
  <2>3. UNCHANGED <<inFlight, late, stage, drained>>
    BY <1>4 DEF ReadMessage, shutdown
  <2> QED
    BY <2>1, <2>2, <2>3
<1>5. CASE Drain
  <2>1. /\ UNCHANGED <<msg, inFlight, late>> /\ stage' = "stopping"
        /\ drained' \in {inFlight = 0, FALSE}
    BY <1>5 DEF Drain, messages
  <2>2. drained' => H = {}
    <3>1. drained' => inFlight = 0
      BY <2>1
    <3> QED
      BY <3>1, <1>1, FS_EmptySet
  <2> QED
    BY <2>1, <2>2
<1>6. CASE /\ UNCHANGED <<msg, inFlight, late, drained>>
           /\ stage' \in {"running", "unsubscribing", "draining", "stopping", "stopped"}
           /\ stage \in {"stopping", "stopped"} => stage' \in {"stopping", "stopped"}
  BY <1>6
<1>7. CASE UNCHANGED vars
  BY <1>6, <1>7 DEF vars, messages, shutdown
<1>8. ASSUME NEW r \in Request, RequestSubscribe(r) \/ RequestUnsubscribe(r) PROVE DrainInv'
  BY <1>6, <1>8 DEF RequestSubscribe, RequestUnsubscribe, messages, shutdown
<1>9. ASSUME NEW x \in Subscriber, SubscribeStep(x) PROVE DrainInv'
  BY <1>6, <1>9 DEF SubscribeStep, Check, Register, Announce, messages, shutdown
<1>10. ASSUME NEW x \in Unsubscriber, UnsubscribeStep(x) PROVE DrainInv'
  BY <1>6, <1>10 DEF UnsubscribeStep, ShutdownPipe, CancelJob, Forget, ForgetPipe,
                     messages, shutdown
<1>11. ASSUME NEW j \in Job, CompletionStep(j) \/ JobStep(j) \/ ReadFails(j) \/ ReadThrows(j)
       PROVE  DrainInv'
  BY <1>6, <1>11 DEF CompletionStep, Complete, SubscribeAgain, JobStep, Open, CachePipe,
                     ReadTimesOut, FailingReturns, ReadFails, ReadThrows, messages, shutdown
<1>12. CASE UnsubscribeAll \/ UnsubscribeNext \/ AllUnsubscribed \/ StopSockets
  BY <1>6, <1>12 DEF UnsubscribeAll, UnsubscribeNext, AllUnsubscribed, StopSockets, messages,
                     shutdown
<1> QED
  BY <1>2, <1>3, <1>4, <1>5, <1>7, <1>8, <1>9, <1>10, <1>11, <1>12 DEF Next, StopStep

\* A drain that succeeded cuts off only messages whose handling had not begun
\* when it saw none in flight.
THEOREM DrainLosesOnlyLateAlways == Spec => []DrainLosesOnlyLate
<1>1. DrainInv => DrainLosesOnlyLate
  BY DEF DrainInv, DrainLosesOnlyLate
<1> QED
  BY <1>1, DrainInit, DrainNext, PTL DEF Spec

-----------------------------------------------------------------------------
(* Types. *)

\* What neither Books nor DrainInv says.
OtherTypes ==
  /\ open \subseteq Job
  /\ heard \in [Account -> {"nothing", "subscribed", "failed", "disrupted", "unsubscribed"}]
  /\ errors \in 0..MaxErrors

LEMMA OtherTypesNext == OtherTypes /\ [Next]_vars => OtherTypes'
<1> SUFFICES ASSUME OtherTypes, [Next]_vars PROVE OtherTypes'
  OBVIOUS
<1> USE ConstantsAssumption DEF OtherTypes
<1>1. CASE /\ open' \subseteq Job
           /\ heard' = heard \/ \E a, r : /\ Say(a, r)
                                       /\ r \in {"subscribed", "failed", "disrupted",
                                                 "unsubscribed"}
           /\ errors' = errors \/ CanFail
  <2>1. heard' \in [Account -> {"nothing", "subscribed", "failed", "disrupted", "unsubscribed"}]
    BY <1>1 DEF Say
  <2>2. errors' \in 0..MaxErrors
    BY <1>1 DEF CanFail
  <2> QED
    BY <1>1, <2>1, <2>2
<1>2. CASE UNCHANGED vars
  BY <1>1, <1>2 DEF vars
<1>3. ASSUME NEW r \in Request, RequestSubscribe(r) \/ RequestUnsubscribe(r) PROVE OtherTypes'
  BY <1>3 DEF RequestSubscribe, RequestUnsubscribe
<1>4. ASSUME NEW x \in Subscriber, SubscribeStep(x) PROVE OtherTypes'
  BY <1>1, <1>4 DEF SubscribeStep, Check, Register, Announce
<1>5. ASSUME NEW x \in Unsubscriber, UnsubscribeStep(x) PROVE OtherTypes'
  BY <1>1, <1>5 DEF UnsubscribeStep, ShutdownPipe, CancelJob, Forget, ForgetPipe
<1>6. ASSUME NEW j \in Job, CompletionStep(j) PROVE OtherTypes'
  BY <1>1, <1>6 DEF CompletionStep, Complete, SubscribeAgain
<1>7. ASSUME NEW j \in Job, JobStep(j) \/ ReadMessage(j) \/ ReadFails(j) \/ ReadThrows(j)
      PROVE  OtherTypes'
  BY <1>1, <1>7 DEF JobStep, Open, CachePipe, ReadTimesOut, FailingReturns, ReadMessage,
                    ReadFails, ReadThrows
<1>8. ASSUME \/ UnsubscribeAll \/ StopStep
             \/ \E m \in Message : BeginMessage(m) \/ EndMessage(m)
      PROVE  OtherTypes'
  BY <1>8 DEF UnsubscribeAll, StopStep, UnsubscribeNext, AllUnsubscribed, Drain, StopSockets,
              BeginMessage, EndMessage
<1> QED
  BY <1>2, <1>3, <1>4, <1>5, <1>6, <1>7, <1>8 DEF Next

\* The state has its types: the maps name jobs, the count of messages in flight
\* is that of the messages being handled, and the failures stay in their bound.
THEOREM TypeCorrect == Spec => []TypeOK
<1>1. Init => OtherTypes
  BY ConstantsAssumption DEF Init, OtherTypes
<1>2. Books /\ DrainInv /\ OtherTypes => TypeOK
  BY DEF Books, Types, DrainInv, OtherTypes, TypeOK, JobRecord, SubRecord, UnsubRecord
<1> QED
  BY <1>1, <1>2, BooksInit, BooksNext, DrainInit, DrainNext, OtherTypesNext, PTL DEF Spec

-----------------------------------------------------------------------------
(* What a client was told.                                                 *)

\* A job that reads, or whose end its client is still to hear of.
Live(j) == Active(j) \/ (job[j].cause \notin {None, "client"} /\ sub[j].pc = "idle")

\* A job that was not launched has no past, and one that has not ended was not
\* completed.
Fresh ==
  \A j \in Job :
    /\ job[j].pc = "unused" => job[j].cause = None /\ ~job[j].watched
    /\ job[j].pc # "ended" => sub[j].pc = "idle"

\* Requests and the shutdown cancel for the client, failed readers do not.
Caller(x) ==
  ~Idle(unsub[x]) =>
    \/ x \in Request /\ unsub[x].error = "client"
    \/ x \in Job /\ unsub[x].error = "disrupted"
    \/ x = Stop /\ stage # "running"
Callers == \A x \in Unsubscriber : Caller(x)

Owned == \A a \in Account, j \in Job : subscriptions[a] = j => job[j].account = a

\* The job that a call of subscribe is about to announce was not cancelled.
Announced(x, j) ==
  job[j].account = sub[x].account /\ ~job[j].watched /\ Live(j) /\ sub[j].pc = "idle"
Starting ==
  \A x \in Subscriber : sub[x].pc \in {"register", "announce"} => Announced(x, sub[x].job)

\* A failed reader that was not cancelled waits for the call that cancels it.
FailingCalls ==
  \A j \in Job : job[j].pc = "failing" /\ job[j].cause = None =>
    unsub[j].pc \in {"shutdown", "cancel"} /\ unsub[j].account = job[j].account

Forgotten ==
  \A x \in Unsubscriber : unsub[x].pc = "forgetPipe" => subscriptions[unsub[x].account] = None

\* A request has cancelled the account's job and not been answered.
Leaving(a) ==
  \E x \in Request : unsub[x].account = a /\ unsub[x].pc \in {"forget", "forgetPipe"}

ToldSubscribed ==
  \A a \in Account : stage = "running" /\ heard[a] = "subscribed" =>
    (\E j \in Job : job[j].account = a /\ Live(j)) \/ Leaving(a)

ToldUnsubscribed ==
  \A a \in Account, j \in Job :
    heard[a] = "unsubscribed" /\ Active(j) /\ job[j].account = a => Between(a) # {}

HeardTyped ==
  heard \in [Account -> {"nothing", "subscribed", "failed", "disrupted", "unsubscribed"}]

Facts ==
  /\ HeardTyped
  /\ Fresh /\ Callers /\ Owned /\ Starting /\ FailingCalls /\ Forgotten
  /\ ToldSubscribed /\ ToldUnsubscribed

TruthInv == ~raced => Facts

(* Steps that leave a part of it alone.                                    *)

\* Job j goes on or ends; it does not end as one that was cancelled for its
\* client unless it was.
Advances(j) ==
  /\ job[j].pc \notin {"unused", "ended"} /\ job'[j].pc # "unused"
  /\ job'[j].account = job[j].account /\ job'[j].watched = job[j].watched
  /\ \/ job'[j].cause = job[j].cause
     \/ job'[j].pc = "ended" /\ job'[j].cause \notin {None, "client"}
  /\ job'[j].pc = "ended" => job'[j].cause # None
  /\ job'[j].pc = "failing" =>
       unsub'[j].pc = "shutdown" /\ unsub'[j].account = job'[j].account

JobsKept == \A j \in Job : job'[j] = job[j] \/ Advances(j)

SubKept ==
  /\ \A x \in Subscriber :
       sub[x].pc \in {"register", "announce"} \/ sub'[x].pc \in {"register", "announce"}
         => sub'[x] = sub[x]
  /\ \A j \in Job : sub'[j].pc = "idle" <=> sub[j].pc = "idle"

\* Calls of unsubscribe begin, at most.
UnsubKept ==
  \A x \in Unsubscriber :
    \/ unsub'[x] = unsub[x]
    \/ /\ unsub'[x].pc = "shutdown" /\ Caller(x)'
       /\ x \in Request => unsub[x].pc = "idle"
       /\ x \in Job => unsub'[x].account = job'[x].account

HeardKept ==
  /\ HeardTyped => HeardTyped'
  /\ \A a \in Account : heard'[a] \in {"subscribed", "unsubscribed"} => heard'[a] = heard[a]

StageKept == stage # "running" => stage' # "running"

LEMMA BetweenKept == ASSUME SubKept, NEW a PROVE Between(a)' = Between(a)
BY DEF SubKept, Between

LEMMA JobsLive ==
  ASSUME Types, Types', Facts, JobsKept, SubKept, NEW j \in Job
  PROVE  /\ Live(j) => Live(j)'
         /\ Active(j)' => Active(j)
         /\ job[j].pc # "unused" => job'[j].account = job[j].account
         /\ job'[j].watched = job[j].watched
<1>1. CASE job'[j] = job[j]
  BY <1>1 DEF SubKept, Live, Active
<1>2. CASE Advances(j)
  <2>1. /\ job[j].pc \in {"opening", "created", "reading", "failing"}
        /\ job'[j].pc \in {"opening", "created", "reading", "failing", "ended"}
        /\ job'[j].account = job[j].account /\ job'[j].watched = job[j].watched
    BY <1>2 DEF Advances, Types, JobRecord
  <2>2. Active(j)' => Active(j)
    BY <1>2, <2>1 DEF Advances, Active
  <2>3. sub[j].pc = "idle" /\ sub'[j].pc = "idle"
    BY <2>1 DEF Facts, Fresh, SubKept
  <2>4. Live(j) => Live(j)'
    BY <1>2, <2>1, <2>3 DEF Advances, Active, Live
  <2> QED
    BY <2>1, <2>2, <2>4
<1> QED
  BY <1>1, <1>2 DEF JobsKept

\* Such steps of several parts keep all of it.
LEMMA KeptFacts ==
  ASSUME Books, Types', Facts, JobsKept, SubKept, UnsubKept, HeardKept, StageKept,
         UNCHANGED subscriptions, ~raced
  PROVE  Facts'
<1> USE DEF Books
<1>1. \A j \in Job : /\ Live(j) => Live(j)'
                     /\ Active(j)' => Active(j)
                     /\ job[j].pc # "unused" => job'[j].account = job[j].account
                     /\ job'[j].watched = job[j].watched
  BY JobsLive
<1>2. \A j \in Job : Live(j) => job[j].pc # "unused"
  BY DEF Live, Active, Facts, Fresh
<1>11. HeardTyped'
  BY DEF Facts, HeardKept
<1>3. Fresh'
  BY DEF Facts, Fresh, JobsKept, SubKept, Advances
<1>4. Callers'
  BY DEF Facts, Callers, Caller, Idle, UnsubKept, StageKept
<1>5. Owned'
  BY <1>1 DEF Facts, Owned, Launches
<1>6. Starting'
  <2> SUFFICES ASSUME NEW x \in Subscriber, sub'[x].pc \in {"register", "announce"}
               PROVE  Announced(x, sub[x].job)' /\ sub'[x] = sub[x]
    BY DEF Starting, Announced
  <2>1. sub'[x] = sub[x] /\ sub[x].pc \in {"register", "announce"} /\ sub[x].job \in Job
    BY DEF SubKept, Types, Called
  <2>2. Announced(x, sub[x].job)
    BY <2>1 DEF Facts, Starting
  <2> QED
    BY <2>1, <2>2, <1>1, <1>2 DEF Announced, SubKept
<1>7. FailingCalls'
  <2> SUFFICES ASSUME NEW j \in Job, job'[j].pc = "failing", job'[j].cause = None
               PROVE  unsub'[j].pc \in {"shutdown", "cancel"} /\ unsub'[j].account = job'[j].account
    BY DEF FailingCalls
  <2>1. CASE Advances(j)
    BY <2>1 DEF Advances
  <2>2. CASE job'[j] = job[j]
    BY <2>2, Inclusions DEF Facts, FailingCalls, UnsubKept
  <2> QED
    BY <2>1, <2>2 DEF JobsKept
<1>8. Forgotten'
  BY DEF Facts, Forgotten, UnsubKept
<1>9. ToldSubscribed'
  <2> SUFFICES ASSUME NEW a \in Account, stage' = "running", heard'[a] = "subscribed"
               PROVE  (\E j \in Job : job'[j].account = a /\ Live(j)') \/ Leaving(a)'
    BY DEF ToldSubscribed
  <2>1. stage = "running" /\ heard[a] = "subscribed"
    BY DEF StageKept, HeardKept
  <2>2. ASSUME NEW j \in Job, job[j].account = a, Live(j)
        PROVE  job'[j].account = a /\ Live(j)'
    BY <2>2, <1>1, <1>2
  <2>3. Leaving(a) => Leaving(a)'
    BY Inclusions DEF Leaving, UnsubKept
  <2> QED
    BY <2>1, <2>2, <2>3 DEF Facts, ToldSubscribed
<1>10. ToldUnsubscribed'
  <2> SUFFICES ASSUME NEW a \in Account, NEW j \in Job, heard'[a] = "unsubscribed",
                      Active(j)', job'[j].account = a
               PROVE  Between(a)' # {}
    BY DEF ToldUnsubscribed
  <2>1. heard[a] = "unsubscribed" /\ Active(j) /\ job[j].account = a
    BY <1>1 DEF HeardKept, Active
  <2> QED
    BY <2>1, BetweenKept DEF Facts, ToldUnsubscribed
<1> QED
  BY <1>3, <1>4, <1>5, <1>6, <1>7, <1>8, <1>9, <1>10, <1>11 DEF Facts

(* Step by step.                                                           *)

LEMMA SameKept ==
  /\ UNCHANGED job => JobsKept
  /\ UNCHANGED sub => SubKept
  /\ UNCHANGED unsub => UnsubKept
  /\ UNCHANGED heard => HeardKept
  /\ UNCHANGED stage => StageKept
<1>1. UNCHANGED job => JobsKept
  BY DEF JobsKept
<1>2. UNCHANGED sub => SubKept
  BY DEF SubKept
<1>3. UNCHANGED unsub => UnsubKept
  BY DEF UnsubKept
<1>4. (UNCHANGED heard => HeardKept) /\ (UNCHANGED stage => StageKept)
  BY DEF HeardKept, HeardTyped, StageKept
<1> QED
  BY <1>1, <1>2, <1>3, <1>4

LEMMA RequestsTruth ==
  ASSUME Books, Books', Facts, ~raced, NEW r \in Request,
         RequestSubscribe(r) \/ RequestUnsubscribe(r)
  PROVE  Facts'
<1> USE DEF Books
<1>1. UNCHANGED <<job, heard, stage, subscriptions>>
  BY DEF RequestSubscribe, RequestUnsubscribe, maps, shutdown
<1>2. JobsKept /\ HeardKept /\ StageKept
  BY <1>1, SameKept
<1>3. CASE RequestSubscribe(r)
  <2>1. PICK a \in Account : sub' = [sub EXCEPT ![r] = [pc |-> "check", account |-> a, job |-> None]]
    BY <1>3 DEF RequestSubscribe
  <2>2. r \in Subscriber /\ r \notin Job /\ sub[r].pc = "idle"
    BY <1>3, Inclusions, ConstantsAssumption DEF RequestSubscribe, Unsent
  <2>3. sub'[r].pc = "check" /\ \A y \in Subscriber : y # r => sub'[y] = sub[y]
    BY <2>1, <2>2 DEF Types
  <2>4. SubKept
    BY <2>2, <2>3, Inclusions DEF SubKept
  <2>5. UnsubKept
    BY <1>3, SameKept DEF RequestSubscribe
  <2> QED
    BY <1>1, <1>2, <2>4, <2>5, KeptFacts
<1>4. CASE RequestUnsubscribe(r)
  <2>1. PICK a \in Account :
          unsub' = [unsub EXCEPT ![r] = [pc |-> "shutdown", account |-> a, error |-> "client"]]
    BY <1>4 DEF RequestUnsubscribe
  <2>2. r \in Unsubscriber /\ r \notin Job /\ unsub[r].pc = "idle"
    BY <1>4, Inclusions, ConstantsAssumption DEF RequestUnsubscribe, Unsent
  <2>3. /\ unsub'[r].pc = "shutdown" /\ unsub'[r].error = "client"
        /\ \A y \in Unsubscriber : y # r => unsub'[y] = unsub[y]
    BY <2>1, <2>2 DEF Types
  <2>4. UnsubKept
    BY <2>2, <2>3 DEF UnsubKept, Caller
  <2>5. SubKept
    BY <1>4, SameKept DEF RequestUnsubscribe
  <2> QED
    BY <1>1, <1>2, <2>4, <2>5, KeptFacts
<1> QED
  BY <1>3, <1>4

\* Each step of a job is one of those.
LEMMA JobAdvances ==
  ASSUME Types, Facts, NEW j \in Job,
         JobStep(j) \/ ReadMessage(j) \/ ReadFails(j) \/ ReadThrows(j)
  PROVE  job'[j] = job[j] \/ Advances(j)
<1>1. job \in [Job -> JobRecord] /\ job[j] \in JobRecord
  BY DEF Types
<1>2. ASSUME NEW pipe, Reading(j, pipe), job[j].pc \notin {"unused", "ended"}
      PROVE  Advances(j)
  <2>1. CASE job[j].cause = None
    <3>1. job' = [job EXCEPT ![j].pipe = pipe, ![j].pc = "reading"]
      BY <1>2, <2>1 DEF Reading
    <3> QED
      BY <3>1, <1>1, <1>2 DEF JobRecord, Advances
  <2>2. CASE job[j].cause # None
    <3>1. job' = [job EXCEPT ![j].pipe = pipe, ![j].pc = "ended"]
      BY <1>2, <2>2 DEF Reading
    <3> QED
      BY <3>1, <2>2, <1>1, <1>2 DEF JobRecord, Advances
  <2> QED
    BY <2>1, <2>2
<1>3. ASSUME NEW c, End(j, c), c # None, c = job[j].cause \/ c # "client",
             job[j].pc \notin {"unused", "ended"}
      PROVE  Advances(j)
  <2>1. /\ job'[j].pc = "ended" /\ job'[j].cause = c /\ job'[j].account = job[j].account
        /\ job'[j].watched = job[j].watched
    BY <1>1, <1>3 DEF JobRecord, End
  <2> QED
    BY <2>1, <1>3 DEF Advances
<1>4. None \notin Causes
  BY ConstantsAssumption
<1>5. CASE Open(j)
  <2>1. CASE Reading(j, pipes[job[j].account])
    BY <2>1, <1>2, <1>5 DEF Open
  <2>2. CASE job' = [job EXCEPT ![j].pc = "created"]
    BY <2>2, <1>1, <1>5 DEF Open, JobRecord, Advances
  <2>3. CASE End(j, "pipe")
    BY <2>3, <1>3, <1>4, <1>5 DEF Open, Causes
  <2>4. CASE job[j].cause # None /\ End(j, job[j].cause)
    BY <2>4, <1>3, <1>5 DEF Open
  <2> QED
    BY <1>5, <2>1, <2>2, <2>3, <2>4 DEF Open
<1>6. CASE CachePipe(j) \/ ReadMessage(j)
  BY <1>6, <1>2 DEF CachePipe, ReadMessage
<1>7. CASE ReadTimesOut(j)
  BY <1>7, <1>3 DEF ReadTimesOut
<1>8. CASE ReadThrows(j)
  BY <1>8, <1>3, <1>4 DEF ReadThrows, Causes
<1>9. CASE FailingReturns(j)
  <2>1. job[j].cause # None
    BY <1>9 DEF FailingReturns, Facts, FailingCalls, Idle
  <2> QED
    BY <2>1, <1>3, <1>9 DEF FailingReturns
<1>10. CASE ReadFails(j)
  <2>1. CASE /\ job' = [job EXCEPT ![j].pc = "failing"]
             /\ unsub' = [unsub EXCEPT ![j] = [pc |-> "shutdown", account |-> job[j].account,
                                               error |-> "disrupted"]]
    <3>1. unsub'[j].pc = "shutdown" /\ unsub'[j].account = job[j].account
      BY <2>1, Inclusions DEF Types
    <3>2. /\ job'[j].pc = "failing" /\ job'[j].cause = job[j].cause
          /\ job'[j].account = job[j].account /\ job'[j].watched = job[j].watched
      BY <2>1, <1>1 DEF JobRecord
    <3> QED
      BY <3>1, <3>2, <1>10 DEF ReadFails, Advances
  <2>2. CASE job[j].cause = None /\ End(j, "shutdown")
    BY <2>2, <1>3, <1>4, <1>10 DEF ReadFails, Causes
  <2>3. CASE job[j].cause # None /\ End(j, job[j].cause)
    BY <2>3, <1>3, <1>10 DEF ReadFails
  <2> QED
    BY <1>10, <2>1, <2>2, <2>3 DEF ReadFails
<1> QED
  BY <1>5, <1>6, <1>7, <1>8, <1>9, <1>10 DEF JobStep

LEMMA JobStepsTruth ==
  ASSUME Books, Books', Facts, ~raced, NEW j \in Job,
         JobStep(j) \/ ReadMessage(j) \/ ReadFails(j) \/ ReadThrows(j)
  PROVE  Facts'
<1> USE DEF Books
<1>1. /\ UNCHANGED <<sub, heard, stage, subscriptions>>
      /\ UNCHANGED unsub \/ ReadFails(j)
  BY DEF JobStep, Open, CachePipe, ReadTimesOut, FailingReturns, ReadMessage, ReadFails,
         ReadThrows, maps, shutdown
<1>2. SubKept /\ HeardKept /\ StageKept
  BY <1>1, SameKept
<1>3. \A k \in Job : k # j => job'[k] = job[k]
  BY DEF JobStep, Open, CachePipe, ReadTimesOut, FailingReturns, ReadMessage, ReadFails,
         ReadThrows, Reading, End, Types
<1>4. JobsKept
  BY <1>3, JobAdvances DEF JobsKept
<1>5. UnsubKept
  <2>1. CASE UNCHANGED unsub
    BY <2>1, SameKept
  <2>2. CASE /\ job' = [job EXCEPT ![j].pc = "failing"]
             /\ unsub' = [unsub EXCEPT ![j] = [pc |-> "shutdown", account |-> job[j].account,
                                               error |-> "disrupted"]]
    <3>1. /\ unsub'[j].pc = "shutdown" /\ unsub'[j].account = job[j].account
          /\ unsub'[j].error = "disrupted"
          /\ \A y \in Unsubscriber : y # j => unsub'[y] = unsub[y]
      BY <2>2, Inclusions DEF Types
    <3>2. job'[j].account = job[j].account
      BY <2>2 DEF Types, JobRecord
    <3>3. j \notin Request
      BY ConstantsAssumption
    <3> QED
      BY <3>1, <3>2, <3>3 DEF UnsubKept, Caller
  <2> QED
    BY <1>1, <2>1, <2>2 DEF ReadFails
<1> QED
  BY <1>1, <1>2, <1>4, <1>5, KeptFacts

LEMMA StopTruth ==
  ASSUME Books, Books', Facts, ~raced,
         UnsubscribeAll \/ StopStep \/ \E m \in Message : BeginMessage(m) \/ EndMessage(m)
  PROVE  Facts'
<1> USE DEF Books
<1>1. /\ UNCHANGED <<job, sub, heard, subscriptions>>
      /\ UNCHANGED unsub \/ UnsubscribeNext
      /\ UNCHANGED stage \/ stage' # "running"
  BY DEF UnsubscribeAll, StopStep, UnsubscribeNext, AllUnsubscribed, Drain, StopSockets,
         BeginMessage, EndMessage, maps, shutdown
<1>2. JobsKept /\ SubKept /\ HeardKept /\ StageKept
  BY <1>1, SameKept DEF StageKept
<1>3. UnsubKept
  <2>1. CASE UnsubscribeNext
    <3>1. PICK a \in toUnsubscribe :
            unsub' = [unsub EXCEPT ![Stop] = [pc |-> "shutdown", account |-> a, error |-> "client"]]
      BY <2>1 DEF UnsubscribeNext
    <3>2. stage' # "running"
      BY <2>1 DEF UnsubscribeNext
    <3>3. unsub'[Stop].pc = "shutdown" /\ \A y \in Unsubscriber : y # Stop => unsub'[y] = unsub[y]
      BY <3>1, Inclusions DEF Types
    <3>4. Stop \notin Request /\ Stop \notin Job
      BY Inclusions
    <3> QED
      BY <3>2, <3>3, <3>4 DEF UnsubKept, Caller
  <2> QED
    BY <1>1, <2>1, SameKept
<1> QED
  BY <1>1, <1>2, <1>3, KeptFacts

\* A completed job that says nothing was cancelled for its client.
LEMMA CompletionTruth ==
  ASSUME Books, Books', Facts, ~raced, NEW j \in Job, CompletionStep(j)
  PROVE  Facts'
<1> USE DEF Books
<1>1. UNCHANGED <<job, unsub, stage, subscriptions>>
  BY DEF CompletionStep, Complete, SubscribeAgain, maps, shutdown
<1>2. JobsKept /\ UnsubKept /\ StageKept
  BY <1>1, SameKept
<1>3. j \in Subscriber
  BY Inclusions
<1>4. CASE SubscribeAgain(j)
  <2>1. /\ sub[j].pc = "delay" /\ sub'[j].pc = "check"
        /\ \A y \in Subscriber : y # j => sub'[y] = sub[y]
    BY <1>3, <1>4 DEF SubscribeAgain, Going, Types, SubRecord
  <2>2. SubKept
    BY <2>1, Inclusions DEF SubKept
  <2>3. HeardKept
    BY <1>4, SameKept DEF SubscribeAgain
  <2> QED
    BY <1>1, <1>2, <2>2, <2>3, KeptFacts
<1>5. CASE Complete(j)
  <2> DEFINE a == job[j].account
  <2>1. /\ job[j].pc = "ended" /\ job[j].watched /\ sub[j].pc = "idle" /\ a \in Account
    BY <1>5 DEF Complete, Types, Launched
  <2>2. /\ sub'[j].pc \in {"delay", "done"}
        /\ \A y \in Subscriber : y # j => sub'[y] = sub[y]
    <3>1. CASE Going(j, "done")
      BY <3>1, <1>3 DEF Going, Types, SubRecord
    <3>2. CASE sub' = [sub EXCEPT ![j].pc = "delay", ![j].account = job[j].account]
      BY <3>2, <1>3 DEF Types, SubRecord
    <3> QED
      BY <1>5, <3>1, <3>2 DEF Complete
  <2>3. /\ job[j].cause \in {None, "client"} => UNCHANGED heard
        /\ job[j].cause \notin {None, "client"} => heard'[a] \notin {"subscribed", "unsubscribed"}
        /\ \A b \in Account : b # a => heard'[b] = heard[b]
    <3>1. /\ None \notin {"client", "disrupted", "shutdown", "error", "pipe"}
          /\ heard \in [Account -> {"nothing", "subscribed", "failed", "disrupted", "unsubscribed"}]
      BY ConstantsAssumption DEF Causes, Facts, HeardTyped
    <3>2. CASE job[j].cause \in {None, "client"} /\ UNCHANGED heard
      BY <3>2
    <3>3. CASE job[j].cause = "disrupted" /\ heard' = [heard EXCEPT ![a] = "disrupted"]
      BY <2>1, <3>1, <3>3
    <3>4. CASE /\ job[j].cause \in {"shutdown", "error", "pipe"}
               /\ heard' = [heard EXCEPT ![a] = "failed"]
      BY <2>1, <3>1, <3>4
    <3> QED
      BY <1>5, <3>2, <3>3, <3>4 DEF Complete, Say
  <2>4. HeardKept
    BY <1>5, <2>3 DEF HeardKept, HeardTyped, Complete, Say
  <2>5. \A x \in Subscriber :
          sub[x].pc \in {"register", "announce"} \/ sub'[x].pc \in {"register", "announce"}
            => sub'[x] = sub[x]
    BY <2>1, <2>2
  <2>6. \A b : Between(b)' = Between(b)
    BY <2>5 DEF Between
  <2>7. \A k \in Job : Active(k)' <=> Active(k)
    BY <1>1 DEF Active
  <2>8. \A k \in Job : k # j => (Live(k) => Live(k)')
    BY <1>1, <2>2, <2>7, Inclusions DEF Live
  <2>9. Fresh' /\ Callers' /\ Owned' /\ FailingCalls' /\ Forgotten'
    <3>1. Fresh'
      BY <1>1, <2>1, <2>2, Inclusions DEF Facts, Fresh
    <3>2. Callers' /\ Owned'
      BY <1>1 DEF Facts, Callers, Caller, Owned
    <3>3. FailingCalls' /\ Forgotten'
      BY <1>1 DEF Facts, FailingCalls, Forgotten
    <3> QED
      BY <3>1, <3>2, <3>3
  <2>10. Starting'
    <3> SUFFICES ASSUME NEW x \in Subscriber, sub'[x].pc \in {"register", "announce"}
                 PROVE  Announced(x, sub[x].job)' /\ sub'[x] = sub[x]
      BY DEF Starting, Announced
    <3>1. sub'[x] = sub[x] /\ sub[x].pc \in {"register", "announce"} /\ sub[x].job \in Job
      BY <2>5 DEF Types, Called
    <3>2. Announced(x, sub[x].job)
      BY <3>1 DEF Facts, Starting
    <3>3. sub[x].job # j
      BY <2>1, <3>2 DEF Announced
    <3> QED
      BY <1>1, <2>2, <2>8, <3>1, <3>2, <3>3, Inclusions DEF Announced
  <2>11. ToldSubscribed'
    <3> SUFFICES ASSUME NEW b \in Account, stage = "running", heard'[b] = "subscribed"
                 PROVE  (\E k \in Job : job[k].account = b /\ Live(k)') \/ Leaving(b)
      BY <1>1 DEF ToldSubscribed, Leaving
    <3>1. heard[b] = "subscribed"
      BY <2>4 DEF HeardKept
    <3>2. ~(b = a /\ Live(j))
      BY <2>1, <2>3 DEF Live, Active
    <3>3. \A k \in Job : job[k].account = b /\ Live(k) => Live(k)'
      BY <2>8, <3>2
    <3> QED
      BY <3>1, <3>3 DEF Facts, ToldSubscribed
  <2>12. ToldUnsubscribed'
    BY <1>1, <2>4, <2>6, <2>7 DEF Facts, ToldUnsubscribed, HeardKept
  <2> QED
    BY <2>4, <2>9, <2>10, <2>11, <2>12 DEF Facts, HeardKept
<1> QED
  BY <1>4, <1>5 DEF CompletionStep

LEMMA CheckTruth ==
  ASSUME Books, Books', Facts, ~raced, ~raced', NEW x \in Subscriber, Check(x)
  PROVE  Facts'
<1> USE DEF Books
<1> DEFINE a == sub[x].account
<1>1. a \in Account /\ sub[x] \in SubRecord /\ sub[x].pc = "check"
  BY DEF Types, Called, Check
<1>2. UNCHANGED <<unsub, stage, subscriptions>>
  BY DEF Check, maps, shutdown
<1>3. CASE Say(a, "failed") /\ Going(x, "done") /\ UNCHANGED <<job, raced>>
  <2>1. /\ sub'[x].pc = "done"
        /\ \A y \in Subscriber : y # x => sub'[y] = sub[y]
    BY <1>1, <1>3 DEF Going, Types, SubRecord
  <2>2. SubKept
    BY <1>1, <2>1, Inclusions DEF SubKept
  <2>3. HeardKept
    BY <1>1, <1>3 DEF Say, HeardKept, HeardTyped
  <2>4. JobsKept /\ UnsubKept /\ StageKept
    BY <1>2, <1>3, SameKept
  <2> QED
    BY <1>2, <2>2, <2>3, <2>4, KeptFacts
<1>4. ASSUME NEW j \in Job, job[j].pc = "unused", subscriptions[a] = None,
             job' = [job EXCEPT ![j].pc = "opening", ![j].account = a],
             sub' = [sub EXCEPT ![x].pc = "register", ![x].job = j],
             UNCHANGED heard
      PROVE  Facts'
  <2>1. /\ job'[j].pc = "opening" /\ job'[j].account = a /\ job'[j].cause = job[j].cause
        /\ job'[j].watched = job[j].watched
        /\ \A k \in Job : k # j => job'[k] = job[k]
    BY <1>4 DEF Types, JobRecord
  <2>2. /\ sub'[x].pc = "register" /\ sub'[x].account = a /\ sub'[x].job = j
        /\ \A y \in Subscriber : y # x => sub'[y] = sub[y]
    BY <1>4, <1>1 DEF Types, SubRecord
  <2>3. job[j].cause = None /\ ~job[j].watched /\ sub[j].pc = "idle"
    BY <1>4 DEF Facts, Fresh
  <2>4. \A k \in Job : sub'[k].pc = "idle" <=> sub[k].pc = "idle"
    BY <1>1, <2>2, Inclusions
  <2>5. Live(j)' /\ Active(j)' /\ ~Live(j) /\ ~Active(j)
    BY <1>4, <2>1, <2>3 DEF Live, Active
  <2>6. \A k \in Job : k # j => (Live(k)' <=> Live(k)) /\ (Active(k)' <=> Active(k))
    BY <2>1, <2>4 DEF Live, Active
  <2>7. \A b : (b = a => x \in Between(b)') /\ Between(b) \subseteq Between(b)'
    <3>1. \A b : b = a => x \in Between(b)'
      BY <2>2 DEF Between
    <3>2. \A y \in Subscriber : sub[y].pc \in {"register", "announce"} => sub'[y] = sub[y]
      BY <1>1, <2>2
    <3>3. \A b : Between(b) \subseteq Between(b)'
      BY <3>2 DEF Between
    <3> QED
      BY <3>1, <3>3
  <2>8. Fresh'
    <3> SUFFICES ASSUME NEW k \in Job
                 PROVE  /\ job'[k].pc = "unused" => job'[k].cause = None /\ ~job'[k].watched
                        /\ job'[k].pc # "ended" => sub'[k].pc = "idle"
      BY DEF Fresh
    <3>1. CASE k = j
      BY <3>1, <2>1, <2>3, <2>4
    <3>2. CASE k # j
      BY <3>2, <2>1, <2>4 DEF Facts, Fresh
    <3> QED
      BY <3>1, <3>2
  <2>9. Callers' /\ Forgotten'
    BY <1>2 DEF Facts, Callers, Caller, Forgotten
  <2>10. Owned'
    <3> SUFFICES ASSUME NEW b \in Account, NEW k \in Job, subscriptions[b] = k
                 PROVE  job'[k].account = b
      BY <1>2 DEF Owned
    <3>1. k # j /\ job[k].account = b
      BY <1>4 DEF Facts, Owned, Launches
    <3> QED
      BY <3>1, <2>1
  <2>11. Starting'
    <3> SUFFICES ASSUME NEW y \in Subscriber, sub'[y].pc \in {"register", "announce"}
                 PROVE  Announced(y, sub[y].job)'
      BY DEF Starting, Announced
    <3>1. CASE y = x
      BY <3>1, <2>1, <2>2, <2>3, <2>4, <2>5 DEF Announced
    <3>2. CASE y # x
      <4>1. sub'[y] = sub[y] /\ sub[y].job \in Job /\ Announced(y, sub[y].job)
        BY <3>2, <2>2 DEF Facts, Starting, Types, Called
      <4>2. sub[y].job # j
        BY <2>5, <4>1 DEF Announced
      <4> QED
        BY <4>1, <4>2, <2>1, <2>4, <2>6 DEF Announced
    <3> QED
      BY <3>1, <3>2
  <2>12. FailingCalls'
    BY <1>2, <2>1 DEF Facts, FailingCalls
  <2>13. ToldSubscribed'
    <3> SUFFICES ASSUME NEW b \in Account, stage = "running", heard[b] = "subscribed"
                 PROVE  (\E k \in Job : job'[k].account = b /\ Live(k)') \/ Leaving(b)
      BY <1>2, <1>4 DEF ToldSubscribed, Leaving
    <3>1. \A k \in Job : job[k].account = b /\ Live(k) => job'[k].account = b /\ Live(k)'
      BY <2>1, <2>5, <2>6
    <3> QED
      BY <3>1 DEF Facts, ToldSubscribed
  <2>14. ToldUnsubscribed'
    <3> SUFFICES ASSUME NEW b \in Account, NEW k \in Job, heard[b] = "unsubscribed",
                        Active(k)', job'[k].account = b
                 PROVE  Between(b)' # {}
      BY <1>4 DEF ToldUnsubscribed
    <3>1. CASE k = j
      <4>1. b = a
        BY <3>1, <2>1
      <4> QED
        BY <4>1, <2>7
    <3>2. CASE k # j
      BY <3>2, <2>1, <2>6, <2>7 DEF Facts, ToldUnsubscribed
    <3> QED
      BY <3>1, <3>2
  <2> QED
    BY <1>4, <2>8, <2>9, <2>10, <2>11, <2>12, <2>13, <2>14 DEF Facts, HeardTyped
<1> QED
  BY <1>3, <1>4 DEF Check

\* What is entered into the map is the account's own job.
LEMMA RegisterTruth ==
  ASSUME Books, Books', Facts, ~raced, NEW x \in Subscriber, Register(x)
  PROVE  Facts'
<1> USE DEF Books
<1>1. PICK a \in Account, j \in Job : a = sub[x].account /\ j = sub[x].job
  BY DEF Types, Called, Register
<1>2. UNCHANGED <<job, unsub, heard, stage>> /\ sub[x].pc = "register"
  BY DEF Register, shutdown
<1>3. /\ sub'[x].pc = "announce" /\ sub'[x].account = a /\ sub'[x].job = j
      /\ \A y \in Subscriber : y # x => sub'[y] = sub[y]
  BY <1>1 DEF Register, Going, Types, SubRecord
<1>4. subscriptions'[a] = j /\ \A b \in Account : b # a => subscriptions'[b] = subscriptions[b]
  BY <1>1 DEF Register, Types
<1>5. /\ \A b : Between(b)' = Between(b)
      /\ x \in Between(a)
  BY <1>1, <1>2, <1>3 DEF Between
<1>6. \A k \in Job : /\ sub'[k].pc = "idle" <=> sub[k].pc = "idle"
                     /\ Live(k)' <=> Live(k)
                     /\ Active(k)' <=> Active(k)
  BY <1>2, <1>3, Inclusions DEF Live, Active
<1>7. Announced(x, j)
  BY <1>1, <1>2 DEF Facts, Starting
<1>8. HeardTyped' /\ Fresh' /\ Callers' /\ FailingCalls'
  BY <1>2, <1>6 DEF Facts, HeardTyped, Fresh, Callers, Caller, FailingCalls
<1>9. Owned'
  BY <1>1, <1>2, <1>4, <1>7 DEF Facts, Owned, Announced
<1>10. Starting'
  <2> SUFFICES ASSUME NEW y \in Subscriber, sub'[y].pc \in {"register", "announce"}
               PROVE  Announced(y, sub[y].job)' 
    BY DEF Starting, Announced
  <2>1. /\ sub'[y].job = sub[y].job /\ sub'[y].account = sub[y].account
        /\ sub[y].job \in Job /\ Announced(y, sub[y].job)
    BY <1>1, <1>2, <1>3 DEF Facts, Starting, Types, Called
  <2> QED
    BY <2>1, <1>2, <1>6 DEF Announced
<1>11. Forgotten'
  <2> SUFFICES ASSUME NEW y \in Unsubscriber, unsub[y].pc = "forgetPipe"
               PROVE  subscriptions'[unsub[y].account] = None
    BY <1>2 DEF Forgotten
  <2>1. unsub[y].account # a /\ unsub[y].account \in Account
    BY <1>5 DEF ReaderInv, Undisturbed, Types, Asked
  <2> QED
    BY <2>1, <1>4 DEF Facts, Forgotten
<1>12. ToldSubscribed' /\ ToldUnsubscribed'
  BY <1>2, <1>5, <1>6 DEF Facts, ToldSubscribed, ToldUnsubscribed, Leaving
<1> QED
  BY <1>8, <1>9, <1>10, <1>11, <1>12 DEF Facts

\* The client is told of a job that reads or whose end it will hear of.
LEMMA AnnounceTruth ==
  ASSUME Books, Books', Facts, ~raced, NEW x \in Subscriber, Announce(x)
  PROVE  Facts'
<1> USE DEF Books
<1>1. PICK a \in Account, j \in Job : a = sub[x].account /\ j = sub[x].job
  BY DEF Types, Called, Announce
<1>2. UNCHANGED <<unsub, stage, subscriptions>> /\ sub[x].pc = "announce"
  BY DEF Announce, maps, shutdown
<1>3. sub'[x].pc = "done" /\ \A y \in Subscriber : y # x => sub'[y] = sub[y]
  BY <1>1 DEF Announce, Going, Types, SubRecord
<1>4. /\ heard'[a] = "subscribed" /\ \A b \in Account : b # a => heard'[b] = heard[b]
      /\ HeardTyped'
  BY <1>1 DEF Announce, Say, Facts, HeardTyped
<1>5. /\ \A k \in Job : /\ job'[k].pc = job[k].pc /\ job'[k].account = job[k].account
                        /\ job'[k].cause = job[k].cause
      /\ \A k \in Job : k # j => job'[k] = job[k]
  BY <1>1 DEF Announce, Types, JobRecord
<1>6. \A k \in Job : /\ sub'[k].pc = "idle" <=> sub[k].pc = "idle"
                     /\ Live(k)' <=> Live(k)
                     /\ Active(k)' <=> Active(k)
  BY <1>2, <1>3, <1>5, Inclusions DEF Live, Active
<1>7. \A b : b # a => Between(b)' = Between(b)
  BY <1>1, <1>3 DEF Between
<1>8. Announced(x, j) /\ x \in Between(a)
  BY <1>1, <1>2 DEF Facts, Starting, Between
<1>9. Fresh'
  <2>1. job[j].pc # "unused"
    BY <1>8 DEF Announced, Live, Active, Facts, Fresh
  <2> QED
    BY <2>1, <1>5, <1>6 DEF Facts, Fresh
<1>10. Callers' /\ Owned' /\ FailingCalls' /\ Forgotten'
  BY <1>2, <1>5 DEF Facts, Callers, Caller, Owned, FailingCalls, Forgotten
<1>11. Starting'
  <2> SUFFICES ASSUME NEW y \in Subscriber, sub'[y].pc \in {"register", "announce"}
               PROVE  Announced(y, sub[y].job)' /\ sub'[y] = sub[y]
    BY DEF Starting, Announced
  <2>1. /\ y # x /\ sub'[y] = sub[y] /\ sub[y].pc \in {"register", "announce"}
        /\ sub[y].job \in Job /\ Announced(y, sub[y].job)
    BY <1>3 DEF Facts, Starting, Types, Called
  <2>2. sub[y].job # j
    <3> SUFFICES ASSUME sub[y].job = j PROVE FALSE
      OBVIOUS
    <3>1. sub[y].account = a
      BY <1>1, <1>8, <2>1 DEF Announced
    <3>2. y \in Between(a)
      BY <2>1, <3>1 DEF Between
    <3> QED
      BY <1>1, <1>8, <2>1, <3>2 DEF ReaderInv, OneBetween
  <2> QED
    BY <2>1, <2>2, <1>5, <1>6 DEF Announced
<1>12. ToldSubscribed'
  <2> SUFFICES ASSUME NEW b \in Account, stage = "running", heard'[b] = "subscribed"
               PROVE  (\E k \in Job : job'[k].account = b /\ Live(k)') \/ Leaving(b)
    BY <1>2 DEF ToldSubscribed, Leaving
  <2>1. CASE b = a
    BY <2>1, <1>1, <1>5, <1>6, <1>8 DEF Announced
  <2>2. CASE b # a
    BY <2>2, <1>4, <1>5, <1>6 DEF Facts, ToldSubscribed
  <2> QED
    BY <2>1, <2>2
<1>13. ToldUnsubscribed'
  <2> SUFFICES ASSUME NEW b \in Account, NEW k \in Job, heard'[b] = "unsubscribed",
                      Active(k)', job'[k].account = b
               PROVE  Between(b)' # {}
    BY DEF ToldUnsubscribed
  <2>1. b # a /\ heard[b] = "unsubscribed" /\ Active(k) /\ job[k].account = b
    BY <1>4, <1>5, <1>6
  <2> QED
    BY <2>1, <1>7 DEF Facts, ToldUnsubscribed
<1> QED
  BY <1>4, <1>9, <1>10, <1>11, <1>12, <1>13 DEF Facts

\* The jobs that read for an account with no call between a look at the map and
\* an answer are in the map.
LEMMA InTheMap ==
  ASSUME ReaderKnown, NEW a, Between(a) = {}, NEW j \in Job, Active(j), job[j].account = a
  PROVE  subscriptions[a] = j
BY DEF ReaderKnown, Registering, Between

LEMMA UnsubscribeTruth ==
  ASSUME Books, Books', Facts, ~raced, ~raced', NEW x \in Unsubscriber, UnsubscribeStep(x)
  PROVE  Facts'
<1> USE DEF Books
<1>1. PICK a \in Account : a = unsub[x].account
  BY DEF Types, Asked, UnsubscribeStep, ShutdownPipe, CancelJob, Forget, ForgetPipe
<1>2. UNCHANGED <<sub, stage>> /\ Between(a) = {}
  BY <1>1 DEF UnsubscribeStep, ShutdownPipe, CancelJob, Forget, ForgetPipe, shutdown, Race
<1>3. ReaderKnown
  BY DEF ReaderInv
<1>4. \A b : Between(b)' = Between(b)
  BY <1>2 DEF Between
<1> DEFINE To(pc) == /\ unsub'[x].pc = pc /\ unsub'[x].account = a
                     /\ unsub'[x].error = unsub[x].error
                     /\ \A y \in Unsubscriber : y # x => unsub'[y] = unsub[y]
<1>5. ASSUME NEW pc, unsub' = [unsub EXCEPT ![x].pc = pc]
      PROVE  To(pc)
  BY <1>1, <1>5 DEF Types, UnsubRecord
<1>6. ASSUME NEW pc, To(pc), unsub[x].pc \notin {"idle", "done"}
      PROVE  Callers'
  BY <1>2, <1>6 DEF Facts, Callers, Caller, Idle
<1>7. CASE ShutdownPipe(x)
  <2>1. UNCHANGED <<job, heard, subscriptions>> /\ unsub[x].pc = "shutdown" /\ To("cancel")
    BY <1>5, <1>7 DEF ShutdownPipe, maps
  <2>2. HeardTyped' /\ Fresh' /\ Owned' /\ Starting'
    BY <1>2, <2>1 DEF Facts, HeardTyped, Fresh, Owned, Starting, Announced, Live, Active
  <2>3. Callers'
    BY <1>6, <2>1
  <2>4. FailingCalls'
    BY <1>1, <2>1, Inclusions DEF Facts, FailingCalls
  <2>5. Forgotten'
    BY <2>1 DEF Facts, Forgotten
  <2>6. ToldSubscribed'
    <3>1. \A b : Leaving(b) => Leaving(b)'
      BY <2>1, Inclusions DEF Leaving
    <3>2. \A j \in Job : Live(j)' <=> Live(j)
      BY <1>2, <2>1 DEF Live, Active
    <3> QED
      BY <1>2, <2>1, <3>1, <3>2 DEF Facts, ToldSubscribed
  <2>7. ToldUnsubscribed'
    BY <1>4, <2>1 DEF Facts, ToldUnsubscribed, Active
  <2> QED
    BY <2>2, <2>3, <2>4, <2>5, <2>6, <2>7 DEF Facts
<1>8. CASE CancelJob(x)
  <2>1. UNCHANGED <<heard, subscriptions>> /\ unsub[x].pc = "cancel" /\ To("forget")
    BY <1>5, <1>8 DEF CancelJob, maps
  <2> DEFINE Cancels(j) == subscriptions[a] = j /\ Active(j)
  <2>2. \A j \in Job :
          /\ job'[j].pc = job[j].pc /\ job'[j].account = job[j].account
          /\ job'[j].watched = job[j].watched
          /\ Cancels(j) => job'[j].cause = unsub[x].error
          /\ ~Cancels(j) => job'[j].cause = job[j].cause
    <3>1. CASE UNCHANGED job /\ \A j \in Job : ~Cancels(j)
      BY <3>1
    <3>2. ASSUME NEW k \in Job, Cancels(k), job' = [job EXCEPT ![k].cause = unsub[x].error]
          PROVE  \A j \in Job :
                   /\ job'[j].pc = job[j].pc /\ job'[j].account = job[j].account
                   /\ job'[j].watched = job[j].watched
                   /\ Cancels(j) => job'[j].cause = unsub[x].error
                   /\ ~Cancels(j) => job'[j].cause = job[j].cause
      BY <3>2 DEF Types, JobRecord
    <3>3. CASE subscriptions[a] = None
      BY <3>3, <3>1, <1>1, <1>8, Inclusions DEF CancelJob
    <3>4. ASSUME NEW k \in Job, subscriptions[a] = k
          PROVE  (UNCHANGED job /\ \A j \in Job : ~Cancels(j))
                 \/ (Cancels(k) /\ job' = [job EXCEPT ![k].cause = unsub[x].error])
      BY <3>4, <1>1, <1>8, Inclusions DEF CancelJob, Cancelled
    <3>5. subscriptions[a] \in Job \cup {None}
      BY DEF Types
    <3> QED
      BY <3>1, <3>2, <3>3, <3>4, <3>5
  <2>3. unsub[x].error # None /\ unsub[x].error \in Causes
    BY <2>1, ConstantsAssumption DEF Types, Asked
  <2>4. \A j \in Job : Active(j)' <=> Active(j) /\ ~Cancels(j)
    BY <2>2, <2>3 DEF Active
  <2>5. \A j \in Job : ~Cancels(j) => (Live(j)' <=> Live(j))
    BY <1>2, <2>2, <2>4 DEF Live
  <2>6. HeardTyped' /\ Owned' /\ Forgotten'
    BY <2>1, <2>2 DEF Facts, HeardTyped, Owned, Forgotten
  <2>7. Callers'
    BY <1>6, <2>1
  <2>8. Fresh'
    BY <1>2, <2>2 DEF Facts, Fresh, Active
  <2>9. Starting'
    <3> SUFFICES ASSUME NEW y \in Subscriber, sub[y].pc \in {"register", "announce"}
                 PROVE  Announced(y, sub[y].job)'
      BY <1>2 DEF Starting, Announced
    <3>1. Announced(y, sub[y].job) /\ sub[y].job \in Job
      BY DEF Facts, Starting, Types, Called
    <3>2. sub[y].account # a
      BY <1>2 DEF Between
    <3>3. ~Cancels(sub[y].job)
      BY <3>1, <3>2 DEF Announced, Facts, Owned
    <3> QED
      BY <1>2, <2>2, <2>5, <3>1, <3>3 DEF Announced
  <2>10. FailingCalls'
    <3> SUFFICES ASSUME NEW j \in Job, job'[j].pc = "failing", job'[j].cause = None
                 PROVE  unsub'[j].pc \in {"shutdown", "cancel"} /\ unsub'[j].account = job'[j].account
      BY DEF FailingCalls
    <3>1. ~Cancels(j) /\ job[j].pc = "failing" /\ job[j].cause = None
      BY <2>2, <2>3
    <3>2. unsub[j].pc \in {"shutdown", "cancel"} /\ unsub[j].account = job[j].account /\ Active(j)
      BY <3>1 DEF Facts, FailingCalls, Active
    <3>3. j # x
      BY <1>1, <1>2, <1>3, <3>1, <3>2, InTheMap
    <3> QED
      BY <2>1, <2>2, <3>2, <3>3, Inclusions
  <2>11. ToldSubscribed'
    <3> SUFFICES ASSUME NEW b \in Account, stage = "running", heard[b] = "subscribed"
                 PROVE  (\E k \in Job : job'[k].account = b /\ Live(k)') \/ Leaving(b)'
      BY <1>2, <2>1 DEF ToldSubscribed
    <3>1. Leaving(b) => Leaving(b)'
      BY <2>1, Inclusions DEF Leaving
    <3>2. ASSUME NEW j \in Job, job[j].account = b, Live(j), ~Cancels(j)
          PROVE  job'[j].account = b /\ Live(j)'
      BY <3>2, <2>2, <2>5
    <3>3. ASSUME NEW j \in Job, job[j].account = b, Cancels(j)
          PROVE  (job'[j].account = b /\ Live(j)') \/ Leaving(b)'
      <4>1. b = a
        BY <3>3 DEF Facts, Owned
      <4>2. CASE x \in Request
        BY <4>1, <4>2, <2>1, Inclusions DEF Leaving
      <4>3. CASE unsub[x].error = "disrupted"
        <5>1. sub[j].pc = "idle"
          BY <3>3 DEF Active, Facts, Fresh
        <5> QED
          BY <4>3, <5>1, <1>2, <2>2, <2>3, <3>3 DEF Live
      <4> QED
        BY <4>2, <4>3, <2>1 DEF Facts, Callers, Caller, Idle
    <3> QED
      BY <3>1, <3>2, <3>3 DEF Facts, ToldSubscribed
  <2>12. ToldUnsubscribed'
    BY <1>4, <2>1, <2>2, <2>4 DEF Facts, ToldUnsubscribed
  <2> QED
    BY <2>6, <2>7, <2>8, <2>9, <2>10, <2>11, <2>12 DEF Facts
<1>9. CASE Forget(x)
  <2>1. UNCHANGED <<job, heard>> /\ unsub[x].pc = "forget" /\ To("forgetPipe")
    BY <1>5, <1>9 DEF Forget
  <2>2. subscriptions'[a] = None /\ \A b \in Account : b # a => subscriptions'[b] = subscriptions[b]
    BY <1>1, <1>9 DEF Forget, Types
  <2>3. HeardTyped' /\ Fresh' /\ Starting'
    BY <1>2, <2>1 DEF Facts, HeardTyped, Fresh, Starting, Announced, Live, Active
  <2>4. Callers'
    BY <1>6, <2>1
  <2>5. Owned'
    BY <2>1, <2>2, Inclusions DEF Facts, Owned
  <2>6. FailingCalls'
    BY <2>1, Inclusions DEF Facts, FailingCalls
  <2>7. Forgotten'
    <3> SUFFICES ASSUME NEW y \in Unsubscriber, unsub'[y].pc = "forgetPipe"
                 PROVE  subscriptions'[unsub'[y].account] = None
      BY DEF Forgotten
    <3>1. CASE y = x
      BY <3>1, <2>1, <2>2
    <3>2. CASE y # x
      BY <3>2, <2>1, <2>2 DEF Facts, Forgotten, Types, Asked
    <3> QED
      BY <3>1, <3>2
  <2>8. ToldSubscribed'
    <3>1. \A b : Leaving(b) => Leaving(b)'
      BY <1>1, <2>1, Inclusions DEF Leaving
    <3>2. \A j \in Job : Live(j)' <=> Live(j)
      BY <1>2, <2>1 DEF Live, Active
    <3> QED
      BY <1>2, <2>1, <3>1, <3>2 DEF Facts, ToldSubscribed
  <2>9. ToldUnsubscribed'
    BY <1>4, <2>1 DEF Facts, ToldUnsubscribed, Active
  <2> QED
    BY <2>3, <2>4, <2>5, <2>6, <2>7, <2>8, <2>9 DEF Facts
<1>10. CASE ForgetPipe(x)
  <2>1. UNCHANGED <<job, subscriptions>> /\ unsub[x].pc = "forgetPipe" /\ To("done")
    BY <1>5, <1>10 DEF ForgetPipe
  <2>2. /\ HeardTyped'
        /\ \A b \in Account : heard'[b] = IF b = a /\ x \in Request THEN "unsubscribed" ELSE heard[b]
    BY <1>1, <1>10 DEF ForgetPipe, Say, Facts, HeardTyped
  <2>3. Fresh' /\ Owned' /\ Starting'
    BY <1>2, <2>1 DEF Facts, Fresh, Owned, Starting, Announced, Live, Active
  <2>4. Callers'
    BY <1>6, <2>1
  <2>5. FailingCalls' /\ Forgotten'
    BY <2>1, Inclusions DEF Facts, FailingCalls, Forgotten
  <2>6. ToldSubscribed'
    <3> SUFFICES ASSUME NEW b \in Account, stage = "running", heard'[b] = "subscribed"
                 PROVE  (\E k \in Job : job'[k].account = b /\ Live(k)') \/ Leaving(b)'
      BY <1>2 DEF ToldSubscribed
    <3>1. heard[b] = "subscribed" /\ ~(b = a /\ x \in Request)
      BY <2>2
    <3>2. \A j \in Job : Live(j)' <=> Live(j)
      BY <1>2, <2>1 DEF Live, Active
    <3>3. Leaving(b) => Leaving(b)'
      BY <1>1, <2>1, <3>1, Inclusions DEF Leaving
    <3> QED
      BY <2>1, <3>1, <3>2, <3>3 DEF Facts, ToldSubscribed
  <2>7. ToldUnsubscribed'
    <3> SUFFICES ASSUME NEW b \in Account, NEW j \in Job, heard'[b] = "unsubscribed",
                        Active(j), job[j].account = b
                 PROVE  Between(b) # {}
      BY <1>4, <2>1 DEF ToldUnsubscribed, Active
    <3>1. subscriptions[a] = None
      BY <1>1, <2>1 DEF Facts, Forgotten
    <3>2. b # a
      BY <1>2, <1>3, <3>1, InTheMap, Inclusions
    <3> QED
      BY <2>2, <3>2 DEF Facts, ToldUnsubscribed
  <2> QED
    BY <2>2, <2>3, <2>4, <2>5, <2>6, <2>7 DEF Facts
<1> QED
  BY <1>7, <1>8, <1>9, <1>10 DEF UnsubscribeStep

LEMMA TruthInit == Init => TruthInv
<1> SUFFICES ASSUME Init PROVE Facts
  BY DEF TruthInv
<1>1. /\ \A x \in Subscriber : sub[x].pc = "idle"
      /\ \A x \in Unsubscriber : unsub[x].pc = "idle"
      /\ \A j \in Job : job[j].pc = "unused" /\ job[j].cause = None /\ ~job[j].watched
      /\ \A a \in Account : subscriptions[a] = None
      /\ heard = [a \in Account |-> "nothing"]
  BY DEF Init
<1>2. HeardTyped /\ Fresh /\ Callers
  BY <1>1, Inclusions DEF HeardTyped, Fresh, Callers, Caller, Idle
<1>3. Owned /\ Starting /\ FailingCalls /\ Forgotten
  BY <1>1, Inclusions DEF Owned, Starting, FailingCalls, Forgotten
<1>4. ToldSubscribed /\ ToldUnsubscribed
  BY <1>1 DEF ToldSubscribed, ToldUnsubscribed
<1> QED
  BY <1>2, <1>3, <1>4 DEF Facts

LEMMA TruthNext == Books /\ Books' /\ TruthInv /\ [Next]_vars => TruthInv'
<1> SUFFICES ASSUME Books, Books', TruthInv, [Next]_vars, ~raced' PROVE Facts'
  BY DEF TruthInv
<1>1. CASE UNCHANGED vars
  <2>1. UNCHANGED <<job, sub, unsub, heard, stage, subscriptions, raced>>
    BY <1>1 DEF vars, maps, shutdown
  <2>2. ~raced /\ Facts
    BY <2>1 DEF TruthInv
  <2>3. JobsKept /\ SubKept /\ UnsubKept /\ HeardKept /\ StageKept
    BY <2>1, SameKept
  <2> QED
    BY <2>1, <2>2, <2>3, KeptFacts DEF Books
<1>2. CASE Next
  <2>1. ~raced /\ Facts
    BY <1>2 DEF Next, Explored, TruthInv
  <2>2. ASSUME NEW r \in Request, RequestSubscribe(r) \/ RequestUnsubscribe(r)
        PROVE  Facts'
    BY <2>1, <2>2, RequestsTruth
  <2>3. ASSUME NEW x \in Subscriber, SubscribeStep(x)
        PROVE  Facts'
    BY <2>1, <2>3, CheckTruth, RegisterTruth, AnnounceTruth DEF SubscribeStep
  <2>4. ASSUME NEW x \in Unsubscriber, UnsubscribeStep(x)
        PROVE  Facts'
    BY <2>1, <2>4, UnsubscribeTruth
  <2>5. ASSUME NEW j \in Job, CompletionStep(j)
        PROVE  Facts'
    BY <2>1, <2>5, CompletionTruth
  <2>6. ASSUME NEW j \in Job, JobStep(j) \/ ReadMessage(j) \/ ReadFails(j) \/ ReadThrows(j)
        PROVE  Facts'
    BY <2>1, <2>6, JobStepsTruth
  <2>7. ASSUME \/ UnsubscribeAll \/ StopStep
               \/ \E m \in Message : BeginMessage(m) \/ EndMessage(m)
        PROVE  Facts'
    BY <2>1, <2>7, StopTruth
  <2> QED
    BY <1>2, <2>2, <2>3, <2>4, <2>5, <2>6, <2>7 DEF Next
<1> QED
  BY <1>1, <1>2

\* As long as no call of subscribe meets another about its account, then once an
\* account's requests, readers and retries have settled, the last that its client
\* was told is true: it has a reader if that was "subscribed", none if it was
\* "unsubscribed", and a reader that there is can be found and cancelled.
THEOREM ClientsAreToldTheTruth == Spec => []BeliefMatches
<1>1. Books /\ TruthInv => BeliefMatches
  <2> SUFFICES ASSUME Books, Facts, NEW a \in Account, stage = "running", ~raced, Settled(a)
               PROVE  /\ heard[a] = "subscribed" => \E j \in Job : Active(j) /\ job[j].account = a
                      /\ heard[a] = "unsubscribed" =>
                           ~\E j \in Job : Active(j) /\ job[j].account = a
                      /\ \A j \in Job : Active(j) /\ job[j].account = a => subscriptions[a] = j
    BY DEF TruthInv, BeliefMatches
  <2>1. Between(a) = {}
    BY DEF Settled, Between, Idle
  <2>2. heard[a] = "subscribed" => \E j \in Job : Active(j) /\ job[j].account = a
    <3> SUFFICES ASSUME heard[a] = "subscribed"
                 PROVE  \E j \in Job : Active(j) /\ job[j].account = a
      OBVIOUS
    <3>1. ~Leaving(a)
      BY Inclusions DEF Leaving, Settled, Unsubscribing, Idle
    <3>2. PICK j \in Job : job[j].account = a /\ Live(j)
      BY <3>1 DEF Facts, ToldSubscribed
    <3>3. Active(j)
      BY <3>2 DEF Live, Settled, Active
    <3> QED
      BY <3>2, <3>3
  <2>3. heard[a] = "unsubscribed" => ~\E j \in Job : Active(j) /\ job[j].account = a
    BY <2>1 DEF Facts, ToldUnsubscribed
  <2>4. \A j \in Job : Active(j) /\ job[j].account = a => subscriptions[a] = j
    BY <2>1, InTheMap DEF Books, ReaderInv
  <2> QED
    BY <2>2, <2>3, <2>4
<1> QED
  BY <1>1, BooksInit, BooksNext, TruthInit, TruthNext, PTL DEF Spec

==============================================================================
