----------------------- MODULE ChannelDestructionProofs -----------------------
(***************************************************************************)
(* What ChannelDestruction promises for every set of channels and tasks,   *)
(* every grace period, with the job on time or not, and whatever fails.    *)
(***************************************************************************)
EXTENDS ChannelDestruction, TLAPS

\* A call of destroy is for a channel that exists; outside of one nothing is kept.
CallsOK ==
  \A d \in Task :
    IF pc[d] \in DestroyPc THEN target[d] \in Channel
    ELSE target[d] = NoChannel /\ found[d] = {} /\ deleted[d] = {}

\* Why a settled redemption holds: the request is gone, and no run of the job has
\* the channel on its list or in its hands.
SettledInv ==
  /\ channels \cap destroyedByJob = {}
  /\ \A c \in settled :
       /\ c \notin requests
       /\ c \notin destroyedByJob
       /\ \A j \in Job : ~Lists(j, c)

\* What call d has found and deleted so far.  Both rows of a channel exist or
\* neither does, and a call that deletes one deletes the other.
CallDeletesBoth(d) ==
  /\ pc[d] \in {"findChannel", "findPhoneNumber", "deletePhoneNumber"} => deleted[d] = {}
  /\ pc[d] \in DestroyPc \ {"findChannel"} /\ "channel" \notin found[d] =>
       target[d] \notin channels
  /\ "phoneNumber" \in deleted[d] => target[d] \in channels
  /\ "channel" \in deleted[d] => "phoneNumber" \in deleted[d]
  /\ pc[d] \in {"unsubscribe", "deleteKeystore", "commit"}
       /\ "phoneNumber" \in deleted[d] => "channel" \in deleted[d]
  /\ pc[d] \in {"release", "deleteChannel"} /\ target[d] \in channels =>
       "phoneNumber" \in deleted[d]

\* The lock on the number's row keeps other calls out.
Exclusive ==
  \A d, e \in Task :
    d # e /\ target[d] = target[e] =>
      ~("phoneNumber" \in deleted[d] /\ "phoneNumber" \in deleted[e])

DeletesBoth ==
  /\ phoneNumbers = channels
  /\ \A d \in Task : CallDeletesBoth(d)
  /\ Exclusive

\* Each service has been told before call d goes on to the next.
ServicesTold(d) ==
  /\ pc[d] \in {"deleteChannel", "unsubscribe", "deleteKeystore", "commit"}
       /\ "phoneNumber" \in deleted[d] => target[d] \notin owned
  /\ pc[d] \in {"deleteKeystore", "commit"} /\ "channel" \in deleted[d] =>
       target[d] \notin subscribed
  /\ pc[d] = "commit" => target[d] \notin keystore

\* Why nothing is left behind: a row is deleted only by a call that has told
\* every service, and nothing is given back to a channel without a row.
CleanInv ==
  /\ NothingLeftBehind
  /\ \A d \in Task : ServicesTold(d)

-----------------------------------------------------------------------------
(* Types. *)

\* The initial state has the right types.
LEMMA TypeInit == Init => TypeOK
  BY BoundAssumption, TimeAssumption DEF Init, TypeOK, JobPc, DestroyPc, Rows, Oldest

\* At first no call of destroy is in progress.
LEMMA CallsInit == Init => CallsOK
  BY DEF Init, CallsOK, DestroyPc

\* Every step keeps the calls of destroy on channels that exist.
LEMMA CallsNext == TypeOK /\ CallsOK /\ [Next]_vars => CallsOK'
  <1> SUFFICES ASSUME TypeOK, CallsOK, [Next]_vars PROVE CallsOK'
    OBVIOUS
  <1> USE DEF TypeOK, CallsOK, JobPc, DestroyPc, Task, Goto, Return, EndJob, CallDestroy,
               tables, services, lists, calls, handlers, history
  <1>1. ASSUME NEW r \in Request, ReceiveRequest(r) PROVE CallsOK'
    BY <1>1 DEF ReceiveRequest, Enqueue
  <1>2. ASSUME NEW r \in Request, NotifyRequested(r) PROVE CallsOK'
    BY <1>2 DEF NotifyRequested
  <1>3. ASSUME NEW m \in Message, ReceiveMessage(m) PROVE CallsOK'
    BY <1>3 DEF ReceiveMessage
  <1>4. ASSUME NEW m \in Message, Redeem(m) PROVE CallsOK'
    BY <1>4 DEF Redeem
  <1>5. ASSUME NEW j \in Job, StartJob(j) PROVE CallsOK'
    BY <1>5 DEF StartJob
  <1>6. ASSUME NEW j \in Job, Warn(j) PROVE CallsOK'
    BY <1>6 DEF Warn
  <1>7. ASSUME NEW j \in Job, RecordNotifications(j) PROVE CallsOK'
    BY <1>7 DEF RecordNotifications
  <1>8. ASSUME NEW j \in Job, GetMature(j) PROVE CallsOK'
    BY <1>8 DEF GetMature
  <1>9. ASSUME NEW j \in Job, DestroyNext(j) PROVE CallsOK'
    BY <1>9 DEF DestroyNext
  <1>10. ASSUME NEW j \in Job, DestroyMany(j) PROVE CallsOK'
    BY <1>10 DEF DestroyMany
  <1>11. ASSUME NEW j \in Job, JobFails(j) PROVE CallsOK'
    BY <1>11 DEF JobFails
  <1>12. ASSUME NEW a \in Admin, AdminDestroys(a) PROVE CallsOK'
    BY <1>12 DEF AdminDestroys
  <1>13. ASSUME NEW d \in Task, FindChannel(d) PROVE CallsOK'
    BY <1>13 DEF FindChannel
  <1>14. ASSUME NEW d \in Task, FindPhoneNumber(d) PROVE CallsOK'
    BY <1>14 DEF FindPhoneNumber
  <1>15. ASSUME NEW d \in Task, DeletePhoneNumber(d) PROVE CallsOK'
    BY <1>15 DEF DeletePhoneNumber
  <1>16. ASSUME NEW d \in Task, Release(d) PROVE CallsOK'
    BY <1>16 DEF Release
  <1>17. ASSUME NEW d \in Task, DeleteChannel(d) PROVE CallsOK'
    BY <1>17 DEF DeleteChannel
  <1>18. ASSUME NEW d \in Task, Unsubscribe(d) PROVE CallsOK'
    BY <1>18 DEF Unsubscribe
  <1>19. ASSUME NEW d \in Task, DeleteKeystore(d) PROVE CallsOK'
    BY <1>19 DEF DeleteKeystore
  <1>20. ASSUME NEW d \in Task, Commit(d) PROVE CallsOK'
    BY <1>20 DEF Commit, CommitDeletes
  <1>21. ASSUME NEW d \in Task, DestroyFails(d) PROVE CallsOK'
    BY <1>21 DEF DestroyFails
  <1>22. CASE Crash
    BY <1>22 DEF Crash
  <1>23. CASE Tick
    BY <1>23 DEF Tick
  <1>24. CASE UNCHANGED vars
    BY <1>24 DEF vars
  <1> QED
    BY <1>1, <1>2, <1>3, <1>4, <1>5, <1>6, <1>7, <1>8, <1>9, <1>10, <1>11,
       <1>12, <1>13, <1>14, <1>15, <1>16, <1>17, <1>18, <1>19, <1>20,
       <1>21, <1>22, <1>23, <1>24
    DEF Next, RequestStep, MessageStep, JobStep, DestroyStep

\* A notice is counted up to three.
LEMMA NotifyType ==
  ASSUME TypeOK, NEW cs, Notify(cs)
  PROVE  notices' \in [Channel -> 0..3]
  BY DEF TypeOK, Notify

\* A failure is counted up to the bound.
LEMMA FailType ==
  ASSUME TypeOK, CanFail
  PROVE  failures' \in 0..MaxFailures
  BY BoundAssumption DEF TypeOK, CanFail

\* Every step keeps the types.
LEMMA TypeNext == TypeOK /\ CallsOK /\ [Next]_vars => TypeOK'
  <1> SUFFICES ASSUME TypeOK, CallsOK, [Next]_vars PROVE TypeOK'
    OBVIOUS
  <1> USE BoundAssumption, TimeAssumption
         DEF TypeOK, CallsOK, JobPc, DestroyPc, Rows, Task, Oldest, Goto, Return,
             EndJob, CallDestroy, tables, services, lists, calls, handlers, history
  <1>1. ASSUME NEW r \in Request, ReceiveRequest(r) PROVE TypeOK'
    BY <1>1 DEF ReceiveRequest, Enqueue
  <1>2. ASSUME NEW r \in Request, NotifyRequested(r) PROVE TypeOK'
    <2>1. notices' \in [Channel -> 0..3]
      BY <1>2, NotifyType DEF NotifyRequested
    <2>2. failures' \in 0..MaxFailures
      BY <1>2, FailType DEF NotifyRequested
    <2> QED
      BY <1>2, <2>1, <2>2 DEF NotifyRequested
  <1>3. ASSUME NEW m \in Message, ReceiveMessage(m) PROVE TypeOK'
    BY <1>3 DEF ReceiveMessage
  <1>4. ASSUME NEW m \in Message, Redeem(m) PROVE TypeOK'
    BY <1>4 DEF Redeem, DeleteRequests, RecordRedemption, CanFail
  <1>5. ASSUME NEW j \in Job, StartJob(j) PROVE TypeOK'
    BY <1>5 DEF StartJob, Notifiable
  <1>6. ASSUME NEW j \in Job, Warn(j) PROVE TypeOK'
    <2>1. notices' \in [Channel -> 0..3]
      BY <1>6, NotifyType DEF Warn
    <2>2. failures' \in 0..MaxFailures
      BY <1>6, FailType DEF Warn
    <2>3. /\ pc' \in [Task -> JobPc \cup DestroyPc]
          /\ toNotify' \in [Job -> SUBSET Channel] /\ timestamp' \in [Job -> 0..Oldest]
          /\ toDestroy' \in [Job -> SUBSET Channel] /\ remaining' \in [Job -> SUBSET Channel]
      <3>1. CASE EndJob(j)
        BY <3>1 DEF EndJob
      <3>2. CASE Goto(j, "record") /\ UNCHANGED lists
        BY <3>2
      <3> QED
        BY <1>6, <3>1, <3>2 DEF Warn
    <2>4. UNCHANGED <<tables, services, calls, handlers, sinceJob, redeemed, settled,
                      destroyedByJob>>
      BY <1>6 DEF Warn
    <2> QED
      BY <2>1, <2>2, <2>3, <2>4
  <1>7. ASSUME NEW j \in Job, RecordNotifications(j) PROVE TypeOK'
    BY <1>7 DEF RecordNotifications
  <1>8. ASSUME NEW j \in Job, GetMature(j) PROVE TypeOK'
    BY <1>8 DEF GetMature, Mature
  <1>9. ASSUME NEW j \in Job, DestroyNext(j) PROVE TypeOK'
    BY <1>9 DEF DestroyNext
  <1>10. ASSUME NEW j \in Job, DestroyMany(j) PROVE TypeOK'
    BY <1>10 DEF DestroyMany, DeleteRequests
  <1>11. ASSUME NEW j \in Job, JobFails(j) PROVE TypeOK'
    BY <1>11 DEF JobFails, CanFail
  <1>12. ASSUME NEW a \in Admin, AdminDestroys(a) PROVE TypeOK'
    BY <1>12 DEF AdminDestroys
  <1>13. ASSUME NEW d \in Task, FindChannel(d) PROVE TypeOK'
    BY <1>13 DEF FindChannel
  <1>14. ASSUME NEW d \in Task, FindPhoneNumber(d) PROVE TypeOK'
    BY <1>14 DEF FindPhoneNumber
  <1>15. ASSUME NEW d \in Task, DeletePhoneNumber(d) PROVE TypeOK'
    BY <1>15 DEF DeletePhoneNumber
  <1>16. ASSUME NEW d \in Task, Release(d) PROVE TypeOK'
    BY <1>16 DEF Release
  <1>17. ASSUME NEW d \in Task, DeleteChannel(d) PROVE TypeOK'
    BY <1>17 DEF DeleteChannel
  <1>18. ASSUME NEW d \in Task, Unsubscribe(d) PROVE TypeOK'
    BY <1>18 DEF Unsubscribe
  <1>19. ASSUME NEW d \in Task, DeleteKeystore(d) PROVE TypeOK'
    BY <1>19 DEF DeleteKeystore
  <1>20. ASSUME NEW d \in Task, Commit(d) PROVE TypeOK'
    BY <1>20 DEF Commit, CommitDeletes, Gone
  <1>21. ASSUME NEW d \in Task, DestroyFails(d) PROVE TypeOK'
    BY <1>21 DEF DestroyFails, CanFail
  <1>22. CASE Crash
    BY <1>22 DEF Crash, CanFail
  <1>23. CASE Tick
    BY <1>23 DEF Tick, Older
  <1>24. CASE UNCHANGED vars
    BY <1>24 DEF vars
  <1> QED
    BY <1>1, <1>2, <1>3, <1>4, <1>5, <1>6, <1>7, <1>8, <1>9, <1>10, <1>11,
       <1>12, <1>13, <1>14, <1>15, <1>16, <1>17, <1>18, <1>19, <1>20,
       <1>21, <1>22, <1>23, <1>24
    DEF Next, RequestStep, MessageStep, JobStep, DestroyStep

\* Every variable keeps its type, whatever fails and whenever the job runs.
THEOREM TypeCorrect == Spec => []TypeOK
  <1>1. Init => TypeOK /\ CallsOK
    BY TypeInit, CallsInit
  <1>2. TypeOK /\ CallsOK /\ [Next]_vars => (TypeOK /\ CallsOK)'
    BY TypeNext, CallsNext
  <1> QED
    BY <1>1, <1>2, PTL DEF Spec

-----------------------------------------------------------------------------
(* Redemptions. *)

\* Every step keeps settled redemptions.
LEMMA SettledNext == TypeOK /\ CallsOK /\ SettledInv /\ [Next]_vars => SettledInv'
  <1> SUFFICES ASSUME TypeOK, CallsOK, SettledInv, [Next]_vars PROVE SettledInv'
    OBVIOUS
  <1> USE ChannelAssumption
         DEF TypeOK, CallsOK, SettledInv, Lists, DestroyPc, JobPc, Task,
             Goto, Return, EndJob, CallDestroy, tables, services, lists, calls, handlers, history
  <1>1. ASSUME NEW r \in Request, ReceiveRequest(r) PROVE SettledInv'
    BY <1>1 DEF ReceiveRequest, Enqueue
  <1>2. ASSUME NEW r \in Request, NotifyRequested(r) PROVE SettledInv'
    BY <1>2 DEF NotifyRequested
  <1>3. ASSUME NEW m \in Message, ReceiveMessage(m) PROVE SettledInv'
    BY <1>3 DEF ReceiveMessage
  <1>4. ASSUME NEW m \in Message, Redeem(m) PROVE SettledInv'
    BY <1>4 DEF Redeem, DeleteRequests, RecordRedemption
  <1>5. ASSUME NEW j \in Job, StartJob(j) PROVE SettledInv'
    BY <1>5 DEF StartJob
  <1>6. ASSUME NEW j \in Job, Warn(j) PROVE SettledInv'
    BY <1>6 DEF Warn
  <1>7. ASSUME NEW j \in Job, RecordNotifications(j) PROVE SettledInv'
    BY <1>7 DEF RecordNotifications
  <1>8. ASSUME NEW j \in Job, GetMature(j) PROVE SettledInv'
    BY <1>8 DEF GetMature, Mature
  <1>9. ASSUME NEW j \in Job, DestroyNext(j) PROVE SettledInv'
    BY <1>9 DEF DestroyNext
  <1>10. ASSUME NEW j \in Job, DestroyMany(j) PROVE SettledInv'
    BY <1>10 DEF DestroyMany, DeleteRequests
  <1>11. ASSUME NEW j \in Job, JobFails(j) PROVE SettledInv'
    BY <1>11 DEF JobFails
  <1>12. ASSUME NEW a \in Admin, AdminDestroys(a) PROVE SettledInv'
    BY <1>12, TaskAssumption DEF AdminDestroys
  <1>13. ASSUME NEW d \in Task, FindChannel(d) PROVE SettledInv'
    BY <1>13 DEF FindChannel
  <1>14. ASSUME NEW d \in Task, FindPhoneNumber(d) PROVE SettledInv'
    BY <1>14 DEF FindPhoneNumber
  <1>15. ASSUME NEW d \in Task, DeletePhoneNumber(d) PROVE SettledInv'
    BY <1>15 DEF DeletePhoneNumber
  <1>16. ASSUME NEW d \in Task, Release(d) PROVE SettledInv'
    BY <1>16 DEF Release
  <1>17. ASSUME NEW d \in Task, DeleteChannel(d) PROVE SettledInv'
    BY <1>17 DEF DeleteChannel
  <1>18. ASSUME NEW d \in Task, Unsubscribe(d) PROVE SettledInv'
    BY <1>18 DEF Unsubscribe
  <1>19. ASSUME NEW d \in Task, DeleteKeystore(d) PROVE SettledInv'
    BY <1>19 DEF DeleteKeystore
  <1>20. ASSUME NEW d \in Task, Commit(d) PROVE SettledInv'
    BY <1>20 DEF Commit, CommitDeletes, Gone
  <1>21. ASSUME NEW d \in Task, DestroyFails(d) PROVE SettledInv'
    BY <1>21 DEF DestroyFails
  <1>22. CASE Crash
    BY <1>22 DEF Crash
  <1>23. CASE Tick
    BY <1>23 DEF Tick
  <1>24. CASE UNCHANGED vars
    BY <1>24 DEF vars
  <1> QED
    BY <1>1, <1>2, <1>3, <1>4, <1>5, <1>6, <1>7, <1>8, <1>9, <1>10, <1>11,
       <1>12, <1>13, <1>14, <1>15, <1>16, <1>17, <1>18, <1>19, <1>20,
       <1>21, <1>22, <1>23, <1>24
    DEF Next, RequestStep, MessageStep, JobStep, DestroyStep

\* A channel redeemed while no run of the job had it on its list or in its hands
\* is not destroyed by the job, however many runs overlap.
THEOREM SettledRedemptions == Spec => []SettledRedemptionsHold
  <1>1. Init => TypeOK /\ CallsOK /\ SettledInv
    BY TypeInit, CallsInit DEF Init, SettledInv
  <1>2. TypeOK /\ CallsOK /\ SettledInv /\ [Next]_vars => (TypeOK /\ CallsOK /\ SettledInv)'
    BY TypeNext, CallsNext, SettledNext
  <1>3. SettledInv => SettledRedemptionsHold
    BY DEF SettledInv, SettledRedemptionsHold
  <1> QED
    BY <1>1, <1>2, <1>3, PTL DEF Spec

-----------------------------------------------------------------------------
(* What is left of a channel. *)

\* Every step keeps both rows together, and the calls apart.
LEMMA DeletesBothNext == TypeOK /\ CallsOK /\ DeletesBoth /\ [Next]_vars => DeletesBoth'
  <1> SUFFICES ASSUME TypeOK, CallsOK, DeletesBoth, [Next]_vars PROVE DeletesBoth'
    OBVIOUS
  <1> USE ChannelAssumption
         DEF TypeOK, CallsOK, DeletesBoth, CallDeletesBoth, Exclusive, DestroyPc, JobPc,
             Rows, Task, Goto, Return, EndJob, CallDestroy,
             tables, services, lists, calls, handlers, history
  <1>1. ASSUME NEW r \in Request, ReceiveRequest(r) PROVE DeletesBoth'
    BY <1>1 DEF ReceiveRequest, Enqueue
  <1>2. ASSUME NEW r \in Request, NotifyRequested(r) PROVE DeletesBoth'
    BY <1>2 DEF NotifyRequested
  <1>3. ASSUME NEW m \in Message, ReceiveMessage(m) PROVE DeletesBoth'
    BY <1>3 DEF ReceiveMessage
  <1>4. ASSUME NEW m \in Message, Redeem(m) PROVE DeletesBoth'
    BY <1>4 DEF Redeem, DeleteRequests
  <1>5. ASSUME NEW j \in Job, StartJob(j) PROVE DeletesBoth'
    BY <1>5 DEF StartJob
  <1>6. ASSUME NEW j \in Job, Warn(j) PROVE DeletesBoth'
    BY <1>6 DEF Warn
  <1>7. ASSUME NEW j \in Job, RecordNotifications(j) PROVE DeletesBoth'
    BY <1>7 DEF RecordNotifications
  <1>8. ASSUME NEW j \in Job, GetMature(j) PROVE DeletesBoth'
    BY <1>8 DEF GetMature
  <1>9. ASSUME NEW j \in Job, DestroyNext(j) PROVE DeletesBoth'
    BY <1>9 DEF DestroyNext
  <1>10. ASSUME NEW j \in Job, DestroyMany(j) PROVE DeletesBoth'
    BY <1>10 DEF DestroyMany, DeleteRequests
  <1>11. ASSUME NEW j \in Job, JobFails(j) PROVE DeletesBoth'
    BY <1>11 DEF JobFails
  <1>12. ASSUME NEW a \in Admin, AdminDestroys(a) PROVE DeletesBoth'
    BY <1>12 DEF AdminDestroys
  <1>13. ASSUME NEW d \in Task, FindChannel(d) PROVE DeletesBoth'
    BY <1>13 DEF FindChannel
  <1>14. ASSUME NEW d \in Task, FindPhoneNumber(d) PROVE DeletesBoth'
    BY <1>14, SMTT(30) DEF FindPhoneNumber
  <1>15. ASSUME NEW d \in Task, DeletePhoneNumber(d) PROVE DeletesBoth'
    BY <1>15 DEF DeletePhoneNumber, Locked
  <1>16. ASSUME NEW d \in Task, Release(d) PROVE DeletesBoth'
    BY <1>16 DEF Release
  <1>17. ASSUME NEW d \in Task, DeleteChannel(d) PROVE DeletesBoth'
    BY <1>17 DEF DeleteChannel, Locked
  <1>18. ASSUME NEW d \in Task, Unsubscribe(d) PROVE DeletesBoth'
    BY <1>18 DEF Unsubscribe
  <1>19. ASSUME NEW d \in Task, DeleteKeystore(d) PROVE DeletesBoth'
    BY <1>19 DEF DeleteKeystore
  <1>20. ASSUME NEW d \in Task, Commit(d) PROVE DeletesBoth'
    BY <1>20 DEF Commit, CommitDeletes, Gone
  <1>21. ASSUME NEW d \in Task, DestroyFails(d) PROVE DeletesBoth'
    BY <1>21 DEF DestroyFails
  <1>22. CASE Crash
    BY <1>22 DEF Crash
  <1>23. CASE Tick
    BY <1>23 DEF Tick
  <1>24. CASE UNCHANGED vars
    BY <1>24 DEF vars
  <1> QED
    BY <1>1, <1>2, <1>3, <1>4, <1>5, <1>6, <1>7, <1>8, <1>9, <1>10, <1>11,
       <1>12, <1>13, <1>14, <1>15, <1>16, <1>17, <1>18, <1>19, <1>20,
       <1>21, <1>22, <1>23, <1>24
    DEF Next, RequestStep, MessageStep, JobStep, DestroyStep

\* Every step keeps the order of services and rows.
LEMMA CleanNext ==
  TypeOK /\ CallsOK /\ DeletesBoth /\ CleanInv /\ [Next]_vars => CleanInv'
  <1> SUFFICES ASSUME TypeOK, CallsOK, DeletesBoth, CleanInv, [Next]_vars PROVE CleanInv'
    OBVIOUS
  <1> USE ChannelAssumption
         DEF TypeOK, CallsOK, DeletesBoth, CallDeletesBoth, Exclusive, CleanInv,
             NothingLeftBehind, ServicesTold, DestroyPc, JobPc, Rows, Task, Goto,
             Return, EndJob, CallDestroy, tables, services, lists, calls, handlers, history
  <1>1. ASSUME NEW r \in Request, ReceiveRequest(r) PROVE CleanInv'
    BY <1>1 DEF ReceiveRequest, Enqueue
  <1>2. ASSUME NEW r \in Request, NotifyRequested(r) PROVE CleanInv'
    BY <1>2 DEF NotifyRequested
  <1>3. ASSUME NEW m \in Message, ReceiveMessage(m) PROVE CleanInv'
    BY <1>3 DEF ReceiveMessage
  <1>4. ASSUME NEW m \in Message, Redeem(m) PROVE CleanInv'
    BY <1>4 DEF Redeem, DeleteRequests
  <1>5. ASSUME NEW j \in Job, StartJob(j) PROVE CleanInv'
    BY <1>5 DEF StartJob
  <1>6. ASSUME NEW j \in Job, Warn(j) PROVE CleanInv'
    BY <1>6 DEF Warn
  <1>7. ASSUME NEW j \in Job, RecordNotifications(j) PROVE CleanInv'
    BY <1>7 DEF RecordNotifications
  <1>8. ASSUME NEW j \in Job, GetMature(j) PROVE CleanInv'
    BY <1>8 DEF GetMature
  <1>9. ASSUME NEW j \in Job, DestroyNext(j) PROVE CleanInv'
    BY <1>9 DEF DestroyNext
  <1>10. ASSUME NEW j \in Job, DestroyMany(j) PROVE CleanInv'
    BY <1>10 DEF DestroyMany, DeleteRequests
  <1>11. ASSUME NEW j \in Job, JobFails(j) PROVE CleanInv'
    BY <1>11 DEF JobFails
  <1>12. ASSUME NEW a \in Admin, AdminDestroys(a) PROVE CleanInv'
    BY <1>12 DEF AdminDestroys
  <1>13. ASSUME NEW d \in Task, FindChannel(d) PROVE CleanInv'
    BY <1>13 DEF FindChannel
  <1>14. ASSUME NEW d \in Task, FindPhoneNumber(d) PROVE CleanInv'
    BY <1>14 DEF FindPhoneNumber
  <1>15. ASSUME NEW d \in Task, DeletePhoneNumber(d) PROVE CleanInv'
    BY <1>15 DEF DeletePhoneNumber
  <1>16. ASSUME NEW d \in Task, Release(d) PROVE CleanInv'
    BY <1>16 DEF Release
  <1>17. ASSUME NEW d \in Task, DeleteChannel(d) PROVE CleanInv'
    BY <1>17 DEF DeleteChannel
  <1>18. ASSUME NEW d \in Task, Unsubscribe(d) PROVE CleanInv'
    BY <1>18 DEF Unsubscribe
  <1>19. ASSUME NEW d \in Task, DeleteKeystore(d) PROVE CleanInv'
    BY <1>19 DEF DeleteKeystore
  <1>20. ASSUME NEW d \in Task, Commit(d) PROVE CleanInv'
    BY <1>20 DEF Commit, CommitDeletes, Gone
  <1>21. ASSUME NEW d \in Task, DestroyFails(d) PROVE CleanInv'
    BY <1>21 DEF DestroyFails
  <1>22. CASE Crash
    BY <1>22 DEF Crash
  <1>23. CASE Tick
    BY <1>23 DEF Tick
  <1>24. CASE UNCHANGED vars
    BY <1>24 DEF vars
  <1> QED
    BY <1>1, <1>2, <1>3, <1>4, <1>5, <1>6, <1>7, <1>8, <1>9, <1>10, <1>11,
       <1>12, <1>13, <1>14, <1>15, <1>16, <1>17, <1>18, <1>19, <1>20,
       <1>21, <1>22, <1>23, <1>24
    DEF Next, RequestStep, MessageStep, JobStep, DestroyStep

\* Once a channel's row is gone its number has been released, its keys deleted and
\* its subscription ended, whatever failed and however many calls raced.
THEOREM NothingLeft == Spec => []NothingLeftBehind
  <1> DEFINE IInv == TypeOK /\ CallsOK /\ DeletesBoth /\ CleanInv
  <1>1. Init => IInv
    <2>1. Init => DeletesBoth
      BY DEF Init, DeletesBoth, CallDeletesBoth, Exclusive, DestroyPc
    <2>2. Init => CleanInv
      BY DEF Init, CleanInv, NothingLeftBehind, ServicesTold
    <2> QED
      BY <2>1, <2>2, TypeInit, CallsInit
  <1>2. IInv /\ [Next]_vars => IInv'
    BY TypeNext, CallsNext, DeletesBothNext, CleanNext
  <1>3. IInv => NothingLeftBehind
    BY DEF CleanInv
  <1> QED
    BY <1>1, <1>2, <1>3, PTL DEF Spec

-----------------------------------------------------------------------------
(* Notices. *)

\* The job is on time, nobody redeems, and k runs of the job later a notice is
\* old enough for another, which leaves time for three in the grace period.
Timely(k) ==
  /\ Prompt /\ Message = {}
  /\ k \in Nat /\ k * Period >= NotificationInterval
  /\ NotificationInterval + Period + k * Period <= Grace

Listed(c) == \E j \in Job : c \in toNotify[j]
Warned(c, n) == notices[c] >= n
Told(c) == Warned(c, 1) \/ \E r \in Request : announcing[r] = c
Requested(c) == c \in requests \/ c \notin channels

\* Runs of the job take no time, so they do not overlap; a notice of a request
\* goes out in the tick the request came in.
RunsApart ==
  /\ \A j \in Job :
       /\ timestamp[j] = 0
       /\ pc[j] # "idle" => sinceJob = 0
       /\ pc[j] \notin {"warn", "record"} => toNotify[j] = {}
       /\ \A c \in toNotify[j] : Requested(c)
       /\ pc[j] \notin {"next"} \cup DestroyPc => remaining[j] = {}
  /\ \A j, l \in Job : pc[j] # "idle" /\ pc[l] # "idle" => j = l
  /\ \A r \in Request : announcing[r] # NoChannel => createdAt[announcing[r]] = 0

\* Which notices a request has had, by the age of it and of the last of them.
FirstDue(c) ==
  /\ ~Listed(c) /\ Told(c)
  /\ lastNotifiedAt[c] = createdAt[c]
  /\ createdAt[c] + 1 <= NotificationInterval + sinceJob
Second(c) ==
  /\ createdAt[c] + 1 <= NotificationInterval + Period
  /\ \E j \in Job :
       /\ c \in toNotify[j]
       /\ \/ pc[j] = "warn" /\ Warned(c, 1)
          \/ pc[j] = "record" /\ Warned(c, 2)
SecondDue(c, k) ==
  /\ ~Listed(c) /\ Warned(c, 2)
  /\ createdAt[c] + 1 <= NotificationInterval + Period + lastNotifiedAt[c]
  /\ \E m \in Nat : m < k /\ lastNotifiedAt[c] = m * Period + sinceJob
Third(c) == Warned(c, 2) /\ \E j \in Job : c \in toNotify[j] /\ pc[j] = "warn"
OnTime(c, k) == FirstDue(c) \/ Second(c) \/ SecondDue(c, k) \/ Third(c) \/ Warned(c, 3)

\* What the job destroys, or is about to, has had them all.
EnoughFor(c) == notices[c] = 3 /\ Requested(c)
Condemned ==
  /\ \A c \in destroyedByJob : notices[c] = 3
  /\ \A j \in Job :
       /\ \A c \in remaining[j] : EnoughFor(c)
       /\ target[j] # NoChannel => EnoughFor(target[j])

NoticesInv(k) ==
  failures = 0 => RunsApart /\ (\A c \in requests : OnTime(c, k)) /\ Condemned

\* At first there is no request.
LEMMA NoticesInit == ASSUME NEW k, Init PROVE NoticesInv(k)
  BY DEF Init, NoticesInv, RunsApart, Condemned, DestroyPc, JobPc, Task

\* While nothing has failed, a step was none of the failing ones.
LEMMA NothingFailed ==
  ASSUME TypeOK, [Next]_vars, failures' = 0
  PROVE  failures = 0 /\ ~CanFail
  <1> SUFFICES failures' = failures \/ CanFail
    BY DEF TypeOK, CanFail
  <1> USE DEF calls, handlers, history, lists
  <1>1. CASE \E r \in Request : RequestStep(r)
    BY <1>1 DEF RequestStep, ReceiveRequest, Enqueue, NotifyRequested
  <1>2. CASE \E m \in Message : MessageStep(m)
    BY <1>2 DEF MessageStep, ReceiveMessage, Redeem
  <1>3. CASE \E j \in Job : JobStep(j)
    BY <1>3 DEF JobStep, StartJob, Warn, RecordNotifications, GetMature, DestroyNext,
       DestroyMany, JobFails
  <1>4. CASE \E a \in Admin : AdminDestroys(a)
    BY <1>4 DEF AdminDestroys
  <1>5. CASE \E d \in Task : DestroyStep(d)
    BY <1>5 DEF DestroyStep, FindChannel, FindPhoneNumber, DeletePhoneNumber, Release,
       DeleteChannel, Unsubscribe, DeleteKeystore, Commit, DestroyFails
  <1>6. CASE Crash \/ Tick \/ UNCHANGED vars
    BY <1>6 DEF Crash, Tick, vars
  <1> QED
    BY <1>1, <1>2, <1>3, <1>4, <1>5, <1>6 DEF Next

\* A product grows with its factor.
LEMMA Monotone == \A a, b, p \in Nat : a <= b => a * p <= b * p
  <1> SUFFICES ASSUME NEW a \in Nat, NEW b \in Nat, NEW p \in Nat, a <= b
               PROVE  a * p <= b * p
    OBVIOUS
  <1>1. PICK d \in Nat : b = a + d
    BY b - a \in Nat
  <1>2. b * p = a * p + d * p /\ a * p \in Nat /\ d * p \in Nat
    BY <1>1
  <1> QED
    BY <1>1, <1>2

\* A notice that is not old enough for the next has fewer than k runs behind it.
LEMMA Rounds ==
  ASSUME NEW k, Timely(k), NEW m \in Nat, m < k
  PROVE  /\ m * Period + Period <= k * Period /\ k * Period \in Nat /\ m * Period \in Nat
         /\ (m + 1) * Period = m * Period + Period
         /\ m * Period + Period < NotificationInterval => m + 1 < k
  <1>1. k \in Nat /\ Period \in Nat /\ m + 1 \in Nat /\ m + 1 <= k
    BY TimeAssumption DEF Timely
  <1>2. (m + 1) * Period <= k * Period
    BY <1>1, Monotone
  <1>3. (m + 1) * Period = m * Period + Period /\ k * Period \in Nat /\ m * Period \in Nat
    BY <1>1
  <1>4. ASSUME m + 1 = k PROVE m * Period + Period >= NotificationInterval
    BY <1>3, <1>4 DEF Timely
  <1>5. NotificationInterval \in Nat
    BY TimeAssumption
  <1> QED
    BY <1>1, <1>2, <1>3, <1>4, <1>5

\* What a step leaves alone stays on time.
LEMMA Undisturbed ==
  ASSUME NEW c, NEW k, OnTime(c, k),
         createdAt'[c] = createdAt[c], lastNotifiedAt'[c] = lastNotifiedAt[c],
         notices'[c] = notices[c], toNotify' = toNotify, sinceJob' = sinceJob,
         Told(c) => Told(c)',
         \A j \in Job : c \in toNotify[j] => pc'[j] = pc[j]
  PROVE  OnTime(c, k)'
  <1>1. CASE FirstDue(c)
    BY <1>1 DEF OnTime, FirstDue, Listed
  <1>2. CASE Second(c)
    BY <1>2 DEF OnTime, Second, Warned
  <1>3. CASE SecondDue(c, k)
    BY <1>3 DEF OnTime, SecondDue, Listed, Warned
  <1>4. CASE Third(c)
    BY <1>4 DEF OnTime, Third, Warned
  <1>5. CASE Warned(c, 3)
    BY <1>5 DEF OnTime, Warned
  <1> QED
    BY <1>1, <1>2, <1>3, <1>4, <1>5 DEF OnTime

\* A step of a call of destroy, other than its commit.
LEMMA DestroyOnTime ==
  ASSUME TypeOK, CallsOK, RunsApart, Condemned, NEW k, \A c \in requests : OnTime(c, k),
         NEW d \in Task, pc[d] \in DestroyPc,
         pc' = [pc EXCEPT ![d] = pc'[d]],
         pc'[d] \in DestroyPc \cup (IF d \in Job THEN {"next"} ELSE {"idle"}),
         target' = target \/ target' = [target EXCEPT ![d] = NoChannel],
         channels' \subseteq channels, requests' \subseteq requests,
         \A c \in requests \ requests' : c \notin channels',
         \A c \in requests' : createdAt'[c] = createdAt[c] /\ lastNotifiedAt'[c] = lastNotifiedAt[c],
         \A c \in Channel : createdAt'[c] \in {0, createdAt[c]},
         destroyedByJob' = destroyedByJob
           \/ (d \in Job /\ destroyedByJob' = destroyedByJob \cup {target[d]}),
         UNCHANGED <<lists, handlers, sinceJob, notices>>
  PROVE  RunsApart' /\ (\A c \in requests' : OnTime(c, k)') /\ Condemned'
  <1>1. RunsApart'
    BY DEF RunsApart, Requested, TypeOK, DestroyPc, JobPc, Task, lists, handlers
  <1>2. ASSUME NEW c \in requests' PROVE OnTime(c, k)'
    <2>1. \A j \in Job : c \in toNotify[j] => pc'[j] = pc[j]
      BY DEF RunsApart, TypeOK, DestroyPc, JobPc, Task
    <2> QED
      BY <2>1, Undisturbed DEF Told, Warned, lists, handlers
  <1>3. Condemned'
    <2>1. \A c : EnoughFor(c) => EnoughFor(c)'
      BY DEF EnoughFor, Requested
    <2>2. \A j \in Job : target'[j] # NoChannel => target'[j] = target[j]
      BY DEF TypeOK, Task
    <2>3. d \in Job => notices[target[d]] = 3
      BY ChannelAssumption DEF Condemned, CallsOK, EnoughFor
    <2> QED
      BY <2>1, <2>2, <2>3 DEF Condemned, lists
  <1> QED
    BY <1>1, <1>2, <1>3

\* A notice, whoever it is about, puts nothing off.
LEMMA Louder ==
  ASSUME NEW c, NEW k, OnTime(c, k),
         createdAt'[c] = createdAt[c], lastNotifiedAt'[c] = lastNotifiedAt[c],
         toNotify' = toNotify, sinceJob' = sinceJob, pc' = pc,
         \A n \in 1..3 : Warned(c, n) => Warned(c, n)', Told(c) => Told(c)'
  PROVE  OnTime(c, k)'
  BY DEF OnTime, FirstDue, Second, SecondDue, Third, Listed

\* Every step keeps the notices on time, as long as nothing fails.
LEMMA NoticesNext ==
  ASSUME NEW k, Timely(k), TypeOK, CallsOK, SettledInv, NoticesInv(k), [Next]_vars
  PROVE  NoticesInv(k)'
  <1> SUFFICES ASSUME failures' = 0
               PROVE  RunsApart' /\ (\A c \in requests' : OnTime(c, k)') /\ Condemned'
    BY DEF NoticesInv
  <1>0. /\ failures = 0 /\ ~CanFail
        /\ RunsApart /\ Condemned /\ (\A c \in requests : OnTime(c, k))
    BY NothingFailed DEF NoticesInv
  <1> DEFINE Goal == RunsApart' /\ (\A c \in requests' : OnTime(c, k)') /\ Condemned'
  <1>1. ASSUME NEW r \in Request, ReceiveRequest(r) PROVE Goal
    <2>1. PICK c \in channels \ requests : Enqueue(r, c)
      BY <1>1 DEF ReceiveRequest
    <2>2. RunsApart'
      BY <1>0, <2>1 DEF RunsApart, Requested, Enqueue, TypeOK, lists, DestroyPc, JobPc, Task
    <2>3. ASSUME NEW e \in requests PROVE OnTime(e, k)'
      <3>1. e # c /\ (Told(e) => Told(e)')
        BY <2>1, <2>3, ChannelAssumption DEF Enqueue, Told, Warned, TypeOK
      <3> QED
        BY <1>0, <2>1, <2>3, <3>1, Undisturbed DEF Enqueue, TypeOK, lists
    <2>4. ~Listed(c)
      BY <1>0, <2>1 DEF RunsApart, Requested, Listed
    <2>5. FirstDue(c)'
      BY <2>1, <2>4, TimeAssumption DEF Enqueue, FirstDue, Listed, Told, TypeOK, lists
    <2>6. Condemned'
      BY <1>0, <2>1 DEF Condemned, EnoughFor, Requested, Enqueue, SettledInv, TypeOK, lists, calls
    <2> QED
      BY <2>1, <2>2, <2>3, <2>5, <2>6 DEF Enqueue, OnTime
  <1>2. ASSUME NEW r \in Request, NotifyRequested(r) PROVE Goal
    <2>1. PICK c \in Channel : c = announcing[r]
      BY <1>2 DEF NotifyRequested, TypeOK
    <2>2. /\ notices' = [e \in Channel |-> IF e = c /\ notices[e] < 3 THEN notices[e] + 1
                                          ELSE notices[e]]
          /\ announcing' = [announcing EXCEPT ![r] = NoChannel]
          /\ UNCHANGED <<tables, services, pc, lists, calls, redeeming, sinceJob, redeemed,
                         settled, destroyedByJob>>
      BY <1>0, <1>2, <2>1 DEF NotifyRequested, Notify
    <2>3. RunsApart'
      BY <1>0, <2>2, ChannelAssumption DEF RunsApart, Requested, TypeOK, tables, lists
    <2>4. ASSUME NEW e \in requests PROVE OnTime(e, k)'
      <3>1. \A n \in 1..3 : Warned(e, n) => Warned(e, n)'
        BY <2>2 DEF Warned, TypeOK
      <3>2. Told(e) => Told(e)'
        BY <2>1, <2>2, <3>1 DEF Told, Warned, TypeOK
      <3> QED
        BY <1>0, <2>2, <2>4, <3>1, <3>2, Louder DEF tables, lists
    <2>5. Condemned'
      <3>1. \A e \in Channel : notices[e] = 3 => notices'[e] = 3
        BY <2>2
      <3>2. \A e \in Channel : EnoughFor(e) => EnoughFor(e)'
        BY <2>2, <3>1 DEF EnoughFor, Requested, tables
      <3> QED
        BY <1>0, <2>2, <3>1, <3>2 DEF Condemned, TypeOK, lists, calls, Task
    <2> QED
      BY <2>2, <2>3, <2>4, <2>5 DEF tables
  <1>3. ASSUME NEW m \in Message, MessageStep(m) PROVE Goal
    BY <1>3 DEF Timely
  <1>5. ASSUME NEW j \in Job, StartJob(j) PROVE Goal
    <2>1. /\ pc[j] = "idle" /\ sinceJob = Period /\ sinceJob' = 0
          /\ pc' = [pc EXCEPT ![j] = "warn"]
          /\ toNotify' = [toNotify EXCEPT ![j] = Notifiable]
          /\ UNCHANGED <<tables, services, timestamp, toDestroy, remaining, calls, handlers,
                         failures, history>>
      BY <1>5 DEF StartJob, Timely, Goto
    <2>2. \A l \in Job : pc[l] = "idle" /\ toNotify[l] = {}
      BY <1>0, <2>1, TimeAssumption DEF RunsApart
    <2>3. RunsApart'
      BY <1>0, <2>1, <2>2 DEF RunsApart, Requested, Notifiable, TypeOK, DestroyPc, JobPc, Task,
         tables, handlers
    <2>4. ASSUME NEW c \in requests PROVE OnTime(c, k)'
      <3>1. OnTime(c, k)
        BY <1>0
      <3>2. c \in Notifiable => c \in toNotify'[j] /\ pc'[j] = "warn"
        BY <2>1 DEF TypeOK, Task
      <3>3. c \notin Notifiable => ~Listed(c)'
        BY <2>1, <2>2 DEF Listed, TypeOK
      <3>4. ~Second(c) /\ ~Third(c)
        BY <2>2 DEF Second, Third
      <3>5. \A n : Warned(c, n)' <=> Warned(c, n)
        BY <2>1 DEF Warned, history
      <3>6. createdAt' = createdAt /\ lastNotifiedAt' = lastNotifiedAt /\ requests' = requests
        BY <2>1 DEF tables
      <3>7. createdAt[c] \in Nat /\ lastNotifiedAt[c] \in Nat /\ k * Period \in Nat
        BY TimeAssumption DEF TypeOK, Timely, Oldest
      <3>8. CASE FirstDue(c)
        <4>1. createdAt[c] > 0 => ~\E r \in Request : announcing[r] = c
          BY <1>0, ChannelAssumption DEF RunsApart, TypeOK
        <4>2. ASSUME c \in Notifiable PROVE Second(c)'
          <5>1. createdAt[c] >= NotificationInterval /\ createdAt[c] > 0
            BY <3>7, <3>8, <4>2, TimeAssumption DEF Notifiable, FirstDue
          <5>2. Warned(c, 1)'
            BY <3>5, <3>8, <4>1, <5>1 DEF FirstDue, Told
          <5> QED
            BY <2>1, <3>2, <3>6, <3>8, <4>2, <5>2 DEF Second, FirstDue
        <4>3. ASSUME c \notin Notifiable PROVE FirstDue(c)'
          <5>1. createdAt[c] + 1 <= NotificationInterval + Period
            BY <2>1, <3>8 DEF FirstDue
          <5>2. createdAt[c] < NotificationInterval
            BY <3>7, <3>8, <4>3, <5>1, TimeAssumption DEF Notifiable, FirstDue, Timely
          <5>3. Told(c)'
            BY <2>1, <3>5, <3>8 DEF FirstDue, Told, handlers
          <5> QED
            BY <2>1, <3>3, <3>6, <3>7, <3>8, <4>3, <5>2, <5>3, TimeAssumption DEF FirstDue
        <4> QED
          BY <4>2, <4>3 DEF OnTime
      <3>9. CASE SecondDue(c, k)
        <4>1. PICK m \in Nat : m < k /\ lastNotifiedAt[c] = m * Period + Period
          BY <2>1, <3>9 DEF SecondDue
        <4>2. ASSUME c \in Notifiable PROVE Third(c)'
          BY <3>2, <3>5, <3>9, <4>2 DEF Third, SecondDue
        <4>3. ASSUME c \notin Notifiable PROVE SecondDue(c, k)'
          <5>1. /\ lastNotifiedAt[c] <= k * Period
                /\ lastNotifiedAt[c] = (m + 1) * Period /\ (m + 1) * Period \in Nat
                /\ lastNotifiedAt[c] < NotificationInterval => m + 1 < k
            BY <3>7, <4>1, Rounds
          <5>2. createdAt[c] < Grace
            BY <3>7, <3>9, <5>1, TimeAssumption DEF SecondDue, Timely
          <5>3. m + 1 < k /\ m + 1 \in Nat
            BY <3>7, <4>1, <4>3, <5>1, <5>2, TimeAssumption DEF Notifiable
          <5>4. lastNotifiedAt'[c] = (m + 1) * Period + sinceJob'
            BY <2>1, <3>6, <5>1
          <5> QED
            BY <3>3, <3>5, <3>6, <3>9, <4>3, <5>3, <5>4 DEF SecondDue
        <4> QED
          BY <4>2, <4>3 DEF OnTime
      <3> QED
        BY <3>1, <3>4, <3>5, <3>8, <3>9 DEF OnTime
    <2>5. Condemned'
      BY <1>0, <2>1 DEF Condemned, EnoughFor, Requested, TypeOK, tables, calls, history
    <2> QED
      BY <2>1, <2>3, <2>4, <2>5 DEF tables
  <1>6. ASSUME NEW j \in Job, Warn(j) PROVE Goal
    <2>1. /\ pc[j] = "warn" /\ pc' = [pc EXCEPT ![j] = "record"]
          /\ notices' = [c \in Channel |-> IF c \in toNotify[j] /\ notices[c] < 3
                                          THEN notices[c] + 1 ELSE notices[c]]
          /\ UNCHANGED <<tables, services, lists, calls, handlers, sinceJob, destroyedByJob>>
      BY <1>0, <1>6 DEF Warn, Notify, Goto
    <2>2. RunsApart'
      BY <1>0, <2>1 DEF RunsApart, Requested, TypeOK, DestroyPc, JobPc, Task,
         tables, lists, handlers
    <2>3. \A c \in Channel : notices[c] = 3 => notices'[c] = 3
      BY <2>1
    <2>4. Condemned'
      <3>1. \A c \in Channel : EnoughFor(c) => EnoughFor(c)'
        BY <2>1, <2>3 DEF EnoughFor, Requested, tables
      <3> QED
        BY <1>0, <2>1, <2>3, <3>1 DEF Condemned, TypeOK, lists, calls, Task
    <2>5. ASSUME NEW c \in requests PROVE OnTime(c, k)'
      <3>1. OnTime(c, k) /\ c \in Channel /\ notices[c] \in 0..3
        BY <1>0 DEF TypeOK
      <3>2. /\ createdAt'[c] = createdAt[c] /\ lastNotifiedAt'[c] = lastNotifiedAt[c]
            /\ toNotify' = toNotify /\ sinceJob' = sinceJob
        BY <2>1 DEF tables, lists
      <3>3. CASE c \notin toNotify[j]
        <4>1. notices'[c] = notices[c] /\ (Told(c) => Told(c)')
          BY <2>1, <3>1, <3>3 DEF Told, Warned, handlers
        <4>2. \A l \in Job : c \in toNotify[l] => pc'[l] = pc[l]
          BY <2>1, <3>3 DEF TypeOK, Task
        <4> QED
          BY <3>1, <3>2, <4>1, <4>2, Undisturbed
      <3>4. CASE c \in toNotify[j]
        <4>1. /\ \A l \in Job : c \in toNotify[l] => l = j
              /\ pc'[j] = "record" /\ Listed(c)
          BY <1>0, <2>1, <3>4 DEF RunsApart, Listed, TypeOK, Task
        <4>2. \A n \in 1..2 : Warned(c, n) => Warned(c, n + 1)'
          BY <2>1, <3>1, <3>4 DEF Warned
        <4>3. CASE Second(c)
          <5>1. Warned(c, 1)
            BY <2>1, <4>1, <4>3 DEF Second
          <5>2. Warned(c, 2)'
            BY <4>2, <5>1
          <5> QED
            BY <3>2, <3>4, <4>1, <4>3, <5>2 DEF Second, OnTime
        <4>4. CASE Third(c)
          <5>1. Warned(c, 3)'
            BY <4>2, <4>4 DEF Third
          <5> QED
            BY <5>1 DEF OnTime
        <4>5. CASE Warned(c, 3)
          BY <2>3, <3>1, <4>5 DEF OnTime, Warned
        <4> QED
          BY <3>1, <4>1, <4>3, <4>4, <4>5 DEF OnTime, FirstDue, SecondDue
      <3> QED
        BY <3>3, <3>4
    <2> QED
      BY <2>1, <2>2, <2>4, <2>5 DEF tables
  <1>7. ASSUME NEW j \in Job, RecordNotifications(j) PROVE Goal
    <2>1. /\ pc[j] = "record" /\ pc' = [pc EXCEPT ![j] = "getMature"] /\ timestamp[j] = 0
          /\ lastNotifiedAt' = [c \in Channel |-> IF c \in toNotify[j] \cap requests
                                                 THEN 0 ELSE lastNotifiedAt[c]]
          /\ toNotify' = [toNotify EXCEPT ![j] = {}]
          /\ timestamp' = [timestamp EXCEPT ![j] = 0]
          /\ UNCHANGED <<channels, requests, createdAt, remaining, calls, handlers, sinceJob,
                         history>>
      BY <1>0, <1>7 DEF RecordNotifications, Goto, RunsApart
    <2>2. RunsApart'
      BY <1>0, <2>1 DEF RunsApart, Requested, TypeOK, DestroyPc, JobPc, Task, handlers
    <2>3. Condemned'
      BY <1>0, <2>1 DEF Condemned, EnoughFor, Requested, calls, history
    <2>4. ASSUME NEW c \in requests PROVE OnTime(c, k)'
      <3>1. OnTime(c, k) /\ c \in Channel /\ (\A n : Warned(c, n) <=> Warned(c, n)')
        BY <1>0, <2>1 DEF TypeOK, Warned, history
      <3>2. \A l \in Job : l # j => toNotify[l] = {}
        BY <1>0, <2>1 DEF RunsApart
      <3>3. ~Listed(c)'
        BY <2>1, <3>2 DEF Listed, TypeOK
      <3>4. CASE c \notin toNotify[j]
        <4>1. ~Listed(c) /\ lastNotifiedAt'[c] = lastNotifiedAt[c]
          BY <2>1, <3>1, <3>2, <3>4 DEF Listed
        <4>2. ~Second(c) /\ ~Third(c)
          BY <4>1 DEF Listed, Second, Third
        <4>3. Told(c) => Told(c)'
          BY <2>1, <3>1 DEF Told, handlers
        <4> QED
          BY <2>1, <3>1, <3>3, <4>1, <4>2, <4>3 DEF OnTime, FirstDue, SecondDue
      <3>5. CASE c \in toNotify[j]
        <4>1. ~FirstDue(c) /\ ~SecondDue(c, k) /\ ~Third(c)
          BY <2>1, <3>2, <3>5 DEF FirstDue, SecondDue, Third, Listed
        <4>2. CASE Second(c)
          <5>1. Warned(c, 2) /\ createdAt[c] + 1 <= NotificationInterval + Period
            BY <2>1, <3>2, <4>2 DEF Second
          <5>2. sinceJob' = 0 /\ lastNotifiedAt'[c] = 0
            BY <1>0, <2>1, <3>1, <3>5 DEF RunsApart
          <5>3. k > 0 /\ 0 * Period = 0
            BY TimeAssumption DEF Timely
          <5>4. 0 \in Nat /\ 0 < k /\ lastNotifiedAt'[c] = 0 * Period + sinceJob'
            BY <5>2, <5>3 DEF Timely
          <5>5. createdAt'[c] + 1 <= NotificationInterval + Period + lastNotifiedAt'[c]
            BY <2>1, <5>1, <5>2, TimeAssumption
          <5> QED
            BY <3>1, <3>3, <5>1, <5>4, <5>5 DEF SecondDue, OnTime
        <4> QED
          BY <3>1, <4>1, <4>2 DEF OnTime
      <3> QED
        BY <3>4, <3>5
    <2> QED
      BY <2>1, <2>2, <2>3, <2>4
  <1>8. ASSUME NEW j \in Job, GetMature(j) PROVE Goal
    <2>1. /\ pc[j] = "getMature" /\ pc' = [pc EXCEPT ![j] = "next"]
          /\ remaining' = [remaining EXCEPT ![j] = Mature]
          /\ UNCHANGED <<tables, toNotify, timestamp, calls, handlers, sinceJob, history>>
      BY <1>8 DEF GetMature, Goto
    <2>2. RunsApart'
      BY <1>0, <2>1 DEF RunsApart, Requested, TypeOK, DestroyPc, JobPc, Task, tables, handlers
    <2>3. \A c : ~Listed(c)
      BY <1>0, <2>1 DEF RunsApart, Listed
    <2>4. ASSUME NEW c \in requests PROVE OnTime(c, k)'
      <3>1. Told(c) => Told(c)'
        BY <2>1 DEF Told, Warned, handlers, history
      <3> QED
        BY <1>0, <2>1, <2>3, <3>1, Undisturbed DEF Listed, tables, history
    <2>5. ASSUME NEW c \in Mature PROVE EnoughFor(c)'
      <3>1. c \in requests /\ c \in Channel /\ OnTime(c, k) /\ createdAt[c] >= Grace
            /\ createdAt[c] \in Nat /\ lastNotifiedAt[c] \in Nat /\ sinceJob \in 0..Period
        BY <1>0, TimeAssumption DEF Mature, TypeOK, Oldest
      <3>2. ~Second(c) /\ ~Third(c)
        BY <2>3 DEF Second, Third, Listed
      <3>3. ~FirstDue(c)
        BY <3>1, TimeAssumption DEF FirstDue, Timely
      <3>4. ~SecondDue(c, k)
        <4>1. SUFFICES ASSUME SecondDue(c, k) PROVE FALSE
          OBVIOUS
        <4>2. PICK m \in Nat : m < k /\ lastNotifiedAt[c] = m * Period + sinceJob
          BY <4>1 DEF SecondDue
        <4>3. m * Period + Period <= k * Period /\ k * Period \in Nat /\ m * Period \in Nat
          BY <4>2, Rounds
        <4>4. lastNotifiedAt[c] <= k * Period
          BY <3>1, <4>2, <4>3, TimeAssumption
        <4> QED
          BY <3>1, <4>1, <4>3, <4>4, TimeAssumption DEF SecondDue, Timely
      <3>5. notices[c] = 3
        BY <3>1, <3>2, <3>3, <3>4 DEF OnTime, Warned, TypeOK
      <3> QED
        BY <2>1, <3>1, <3>5 DEF EnoughFor, Requested, tables, history
    <2>6. Condemned'
      <3>1. \A c : EnoughFor(c) => EnoughFor(c)'
        BY <2>1 DEF EnoughFor, Requested, tables, history
      <3> QED
        BY <1>0, <2>1, <2>5, <3>1 DEF Condemned, TypeOK, calls, history
    <2> QED
      BY <2>1, <2>2, <2>4, <2>6 DEF tables
  <1>9. ASSUME NEW j \in Job, DestroyNext(j) PROVE Goal
    <2>1. PICK c \in remaining[j] :
            /\ pc[j] = "next" /\ pc' = [pc EXCEPT ![j] = "findChannel"]
            /\ remaining' = [remaining EXCEPT ![j] = remaining[j] \ {c}]
            /\ target' = [target EXCEPT ![j] = c]
            /\ UNCHANGED <<tables, toNotify, timestamp, handlers, sinceJob, history>>
      BY <1>9 DEF DestroyNext, CallDestroy, Goto
    <2>2. RunsApart'
      BY <1>0, <2>1 DEF RunsApart, Requested, TypeOK, DestroyPc, JobPc, Task, tables, handlers
    <2>3. ASSUME NEW e \in requests PROVE OnTime(e, k)'
      <3>1. Told(e) => Told(e)'
        BY <2>1 DEF Told, Warned, handlers, history
      <3>2. \A l \in Job : e \in toNotify[l] => pc'[l] = pc[l]
        BY <1>0, <2>1 DEF RunsApart
      <3> QED
        BY <1>0, <2>1, <2>3, <3>1, <3>2, Undisturbed DEF tables, history
    <2>4. Condemned'
      <3>1. \A e : EnoughFor(e) => EnoughFor(e)'
        BY <2>1 DEF EnoughFor, Requested, tables, history
      <3> QED
        BY <1>0, <2>1, <3>1 DEF Condemned, TypeOK, history, Task
    <2> QED
      BY <2>1, <2>2, <2>3, <2>4 DEF tables
  <1>10. ASSUME NEW j \in Job, DestroyMany(j) PROVE Goal
    <2>1. /\ pc[j] = "next" /\ remaining[j] = {} /\ pc' = [pc EXCEPT ![j] = "idle"]
          /\ requests' = requests \ toDestroy[j]
          /\ createdAt' = [c \in Channel |-> IF c \in toDestroy[j] THEN 0 ELSE createdAt[c]]
          /\ lastNotifiedAt' =
               [c \in Channel |-> IF c \in toDestroy[j] THEN 0 ELSE lastNotifiedAt[c]]
          /\ toNotify' = [toNotify EXCEPT ![j] = {}]
          /\ timestamp' = [timestamp EXCEPT ![j] = 0]
          /\ remaining' = [remaining EXCEPT ![j] = {}]
          /\ UNCHANGED <<channels, calls, handlers, sinceJob, history>>
      BY <1>10 DEF DestroyMany, DeleteRequests, EndJob, Goto
    <2>2. \A l \in Job : toNotify[l] = {} /\ remaining[l] = {} /\ target[l] = NoChannel
      <3>1. \A l \in Job : l # j => pc[l] = "idle"
        BY <1>0, <2>1 DEF RunsApart
      <3> QED
        BY <1>0, <2>1, <3>1 DEF RunsApart, CallsOK, DestroyPc, Task
    <2>3. toNotify' = toNotify
      BY <2>1, <2>2 DEF TypeOK
    <2>4. RunsApart'
      BY <1>0, <2>1, <2>2 DEF RunsApart, Requested, TypeOK, DestroyPc, JobPc, Task, handlers
    <2>5. ASSUME NEW c \in requests' PROVE OnTime(c, k)'
      <3>1. Told(c) => Told(c)'
        BY <2>1 DEF Told, Warned, handlers, history
      <3>2. c \in requests /\ createdAt'[c] = createdAt[c] /\ lastNotifiedAt'[c] = lastNotifiedAt[c]
        BY <2>1, <2>5 DEF TypeOK
      <3> QED
        BY <1>0, <2>1, <2>2, <2>3, <3>1, <3>2, Undisturbed DEF history
    <2>6. Condemned'
      BY <1>0, <2>1, <2>2 DEF Condemned, TypeOK, calls, history
    <2> QED
      BY <2>4, <2>5, <2>6
  <1>11. ASSUME NEW j \in Job, JobFails(j) PROVE Goal
    BY <1>0, <1>11 DEF JobFails
  <1>12. ASSUME NEW a \in Admin, AdminDestroys(a) PROVE Goal
    <2>1. a \notin Job /\ a \in Task
      BY TaskAssumption DEF Task
    <2>2. /\ pc' = [pc EXCEPT ![a] = "findChannel"]
          /\ \E c \in channels : target' = [target EXCEPT ![a] = c]
          /\ UNCHANGED <<tables, lists, handlers, sinceJob, history>>
      BY <1>12 DEF AdminDestroys, CallDestroy, Goto
    <2>3. \A j \in Job : pc'[j] = pc[j] /\ target'[j] = target[j]
      BY <2>1, <2>2 DEF TypeOK, Task
    <2>4. RunsApart' /\ Condemned'
      BY <1>0, <2>2, <2>3 DEF RunsApart, Condemned, EnoughFor, Requested, tables, lists,
         handlers, history
    <2>5. ASSUME NEW c \in requests PROVE OnTime(c, k)'
      <3>1. Told(c) => Told(c)'
        BY <2>2 DEF Told, Warned, handlers, history
      <3> QED
        BY <1>0, <2>2, <2>3, <2>5, <3>1, Undisturbed DEF tables, lists, history
    <2> QED
      BY <2>2, <2>4, <2>5 DEF tables
  <1>13. ASSUME NEW d \in Task, DestroyStep(d) PROVE Goal
    <2>1. CASE FindChannel(d) \/ DeletePhoneNumber(d) \/ Release(d) \/ DeleteChannel(d)
               \/ Unsubscribe(d) \/ DeleteKeystore(d)
      <3>1. /\ pc[d] \in DestroyPc /\ pc' = [pc EXCEPT ![d] = pc'[d]] /\ pc'[d] \in DestroyPc
            /\ target' = target
            /\ UNCHANGED <<tables, lists, handlers, sinceJob, history>>
        BY <2>1 DEF FindChannel, DeletePhoneNumber, Release, DeleteChannel, Unsubscribe,
           DeleteKeystore, Goto, DestroyPc, TypeOK, calls
      <3> QED
        BY <1>0, <3>1, DestroyOnTime DEF tables, history
    <2>2. CASE FindPhoneNumber(d)
      <3>1. /\ pc[d] \in DestroyPc /\ pc' = [pc EXCEPT ![d] = pc'[d]]
            /\ pc'[d] \in DestroyPc \cup (IF d \in Job THEN {"next"} ELSE {"idle"})
            /\ target' = target \/ target' = [target EXCEPT ![d] = NoChannel]
            /\ UNCHANGED <<tables, lists, handlers, sinceJob, history>>
        BY <2>2 DEF FindPhoneNumber, Goto, Return, DestroyPc, TypeOK, calls
      <3> QED
        BY <1>0, <3>1, DestroyOnTime DEF tables, history
    <2>3. CASE Commit(d)
      <3>1. /\ pc[d] \in DestroyPc /\ pc' = [pc EXCEPT ![d] = pc'[d]]
            /\ pc'[d] \in (IF d \in Job THEN {"next"} ELSE {"idle"})
            /\ target' = [target EXCEPT ![d] = NoChannel]
            /\ UNCHANGED <<lists, handlers, sinceJob, notices>>
        BY <2>3 DEF Commit, CommitDeletes, Goto, Return, DestroyPc, TypeOK
      <3>2. /\ channels' \subseteq channels /\ requests' \subseteq requests
            /\ \A c \in requests \ requests' : c \notin channels'
            /\ \A c \in Channel : createdAt'[c] \in {0, createdAt[c]}
            /\ \A c \in requests' :
                 createdAt'[c] = createdAt[c] /\ lastNotifiedAt'[c] = lastNotifiedAt[c]
        BY <2>3 DEF Commit, CommitDeletes, TypeOK
      <3>3. \/ destroyedByJob' = destroyedByJob
            \/ (d \in Job /\ destroyedByJob' = destroyedByJob \cup {target[d]})
        BY <2>3 DEF Commit, CommitDeletes, Gone
      <3> QED
        BY <1>0, <3>1, <3>2, <3>3, DestroyOnTime
    <2>4. CASE DestroyFails(d)
      BY <1>0, <2>4 DEF DestroyFails
    <2> QED
      BY <1>13, <2>1, <2>2, <2>3, <2>4 DEF DestroyStep
  <1>14. CASE Crash
    BY <1>0, <1>14 DEF Crash
  <1>15. CASE Tick
    <2>1. /\ Quiet /\ sinceJob < Period /\ sinceJob' = sinceJob + 1
          /\ createdAt' = [c \in Channel |-> IF c \in requests THEN Older(createdAt[c])
                                             ELSE createdAt[c]]
          /\ lastNotifiedAt' = [c \in Channel |-> IF c \in requests
                                  THEN Older(lastNotifiedAt[c]) ELSE lastNotifiedAt[c]]
          /\ timestamp' = [j \in Job |-> IF pc[j] \in {"warn", "record"}
                                         THEN Older(timestamp[j]) ELSE timestamp[j]]
          /\ UNCHANGED <<channels, requests, pc, toNotify, remaining, calls, handlers, history>>
      BY <1>15 DEF Tick, Timely
    <2>2. /\ \A j \in Job : pc[j] = "idle" /\ toNotify[j] = {} /\ remaining[j] = {}
          /\ \A r \in Request : announcing[r] = NoChannel
      BY <1>0, <2>1 DEF Quiet, RunsApart, DestroyPc, Task
    <2>3. RunsApart'
      BY <1>0, <2>1, <2>2 DEF RunsApart, handlers
    <2>4. Condemned'
      BY <1>0, <2>1 DEF Condemned, EnoughFor, Requested, calls, history
    <2>5. ASSUME NEW c \in requests PROVE OnTime(c, k)'
      <3>1. /\ OnTime(c, k) /\ ~Listed(c) /\ ~Listed(c)' /\ ~Second(c) /\ ~Third(c)
            /\ \A n : Warned(c, n) <=> Warned(c, n)'
        BY <1>0, <2>1, <2>2 DEF Listed, Second, Third, Warned, history
      <3>2. /\ createdAt[c] \in Nat /\ lastNotifiedAt[c] \in 0..Oldest /\ sinceJob \in Nat
            /\ createdAt'[c] = Older(createdAt[c]) /\ lastNotifiedAt'[c] = Older(lastNotifiedAt[c])
        BY <2>1, TimeAssumption DEF TypeOK, Oldest
      <3>3. CASE FirstDue(c)
        <4>1. createdAt[c] < Oldest
          BY <2>1, <3>2, <3>3, TimeAssumption DEF FirstDue, Timely, Oldest
        <4>2. createdAt'[c] = createdAt[c] + 1 /\ lastNotifiedAt'[c] = createdAt[c] + 1
          BY <3>2, <3>3, <4>1 DEF FirstDue, Older
        <4>3. Told(c)'
          BY <2>1, <3>1, <3>3 DEF FirstDue, Told, handlers
        <4> QED
          BY <2>1, <3>1, <3>2, <3>3, <4>2, <4>3, TimeAssumption DEF FirstDue, OnTime
      <3>4. CASE SecondDue(c, k)
        <4>1. PICK m \in Nat : m < k /\ lastNotifiedAt[c] = m * Period + sinceJob
          BY <3>4 DEF SecondDue
        <4>2. m * Period + Period <= k * Period /\ k * Period \in Nat /\ m * Period \in Nat
          BY <4>1, Rounds
        <4>3. lastNotifiedAt[c] < Oldest
          BY <2>1, <3>2, <4>1, <4>2, TimeAssumption DEF Timely, Oldest
        <4>4. lastNotifiedAt'[c] = lastNotifiedAt[c] + 1 /\ createdAt'[c] <= createdAt[c] + 1
          BY <3>2, <4>3 DEF Older
        <4>5. lastNotifiedAt'[c] = m * Period + sinceJob'
          BY <2>1, <3>2, <4>1, <4>2, <4>4
        <4>6. createdAt'[c] + 1 <= NotificationInterval + Period + lastNotifiedAt'[c]
          BY <3>2, <3>4, <4>4, TimeAssumption DEF SecondDue, Older, Oldest
        <4> QED
          BY <3>1, <3>4, <4>1, <4>5, <4>6 DEF SecondDue, OnTime
      <3> QED
        BY <3>1, <3>3, <3>4 DEF OnTime
    <2> QED
      BY <2>1, <2>3, <2>4, <2>5
  <1>16. CASE UNCHANGED vars
    <2>1. /\ UNCHANGED <<tables, pc, lists, calls, handlers, sinceJob, history>>
      BY <1>16 DEF vars
    <2>2. ASSUME NEW c \in requests PROVE OnTime(c, k)'
      <3>1. Told(c) => Told(c)'
        BY <2>1 DEF Told, Warned, handlers, history
      <3> QED
        BY <1>0, <2>1, <2>2, <3>1, Undisturbed DEF tables, lists, history
    <2>3. RunsApart' /\ Condemned'
      BY <1>0, <2>1 DEF RunsApart, Condemned, EnoughFor, Requested, tables, lists, calls,
         handlers, history
    <2> QED
      BY <2>1, <2>2, <2>3 DEF tables
  <1> QED
    BY <1>1, <1>2, <1>3, <1>5, <1>6, <1>7, <1>8, <1>9, <1>10, <1>11, <1>12, <1>13,
       <1>14, <1>15, <1>16 DEF Next, RequestStep, JobStep

\* As long as nothing failed, nobody redeems and the job runs on time, the admins of
\* a channel that the job destroys were told three times, whatever else goes on: for
\* any grace period with room for k runs of the job after each third of it.
THEOREM NoticesAreEnough ==
  ASSUME NEW k, Timely(k)
  PROVE  Spec => []EnoughNotices
  <1> DEFINE IInv == TypeOK /\ CallsOK /\ SettledInv /\ NoticesInv(k)
  <1>1. Init => IInv
    BY TypeInit, CallsInit, NoticesInit DEF Init, SettledInv
  <1>2. IInv /\ [Next]_vars => IInv'
    BY TypeNext, CallsNext, SettledNext, NoticesNext
  <1>3. IInv => EnoughNotices
    BY DEF NoticesInv, Condemned, EnoughNotices
  <1> QED
    BY <1>1, <1>2, <1>3, PTL DEF Spec

=============================================================================
