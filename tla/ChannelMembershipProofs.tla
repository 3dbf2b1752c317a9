----------------------- MODULE ChannelMembershipProofs -----------------------
(***************************************************************************)
(* What ChannelMembership promises for every set of numbers, handlers and  *)
(* commands.  The handlers' own variables have the same shape in every     *)
(* step, so their types are settled once, in the lemmas about Finish, Goto *)
(* and Proceed, and a step's case is left with the tables it writes.       *)
(***************************************************************************)
EXTENDS ChannelMembership, FiniteSetTheorems, TLAPS

USE DEF Invite, Ban, Deauthorization

\* The part of TypeOK about the tasks.
HandlersTypeOK ==
  /\ pc \in [Task -> Pc]
  /\ job \in [Task -> Job]
  /\ snap \in [Task -> Snap]
  /\ pending \in [Task -> SUBSET {"channel", "sender", "member", "invites",
                                  "insert", "update"}]
  /\ readId \in [Task -> Nat]

\* The commands whose handlers pass through a label.
CommandsAt(label) ==
  CASE label \in {"fetch", "execute"} -> AllCommands
    [] label \in {"countInvites", "findInviter", "acceptWrites"} -> {"ACCEPT"}
    [] label \in {"inviteMember", "inviteIssue"} -> {"INVITE"}
    [] label \in {"clearDeauth", "addBanCheck"} -> {"ADD"}
    [] label \in {"addRead", "addFind", "addPromote", "addAdvance", "addCommit"}
         -> {"ADD", "API_ADD"}
    [] label = "removeWrite" -> {"REMOVE"}
    [] label \in {"banCreate", "banDestroy"} -> {"BAN"}
    [] OTHER -> {"REKEY"}

\* A task in flight is where its command leads, on numbers that exist.
ControlOK ==
  \A t \in Task : pc[t] # "idle" =>
    /\ job[t].cmd \in CommandsAt(pc[t])
    /\ job[t].target \in Phone
    /\ job[t].cmd \in AllCommands => job[t].sender \in Phone

\* Why admins are appointed: an ADD that got past its first lines was sent by a
\* number that was an admin when the sender was read.
AppointInv ==
  \A t \in Task :
    job[t].cmd = "ADD" /\ pc[t] \notin {"fetch", "execute"} =>
      snap[t].senderType = "ADMIN"

\* Why settled bans hold: their rows exist, so every later handler is stopped at
\* its own ban check, and none that passed it earlier is in flight.
BansInv ==
  /\ \A t \in Task : pc[t] = "banDestroy" => job[t].target \in bans
  /\ \A p \in settledBans :
       /\ p \in bans
       /\ memberType[p] = "NONE"
       /\ \A t \in Task : ~Cleared(t, p)

\* Why settled deauthorizations hold: the row is there until an ADD deletes it,
\* so every ADD that reads the channel later sees it and trusts the key first.
DeauthsInv ==
  \A p \in settledDeauths :
    /\ p \in deauths
    /\ memberType[p] # "ADMIN"
    /\ \A t \in Task : Trusting(t, p) /\ job[t].cmd = "ADD" =>
         snap[t].deauthed /\ pc[t] \in {"fetch", "execute", "clearDeauth"}

-----------------------------------------------------------------------------
(* Types. *)

\* A task that returns keeps the handlers' types.
LEMMA FinishType ==
  ASSUME HandlersTypeOK, NEW t \in Task, Finish(t)
  PROVE  HandlersTypeOK'
  BY DEF HandlersTypeOK, Finish, Pc, Job, NoJob, Snap, NoSnap, MemberType,
     VouchMode

\* So does one that goes on to its next statement,
LEMMA GotoType ==
  ASSUME HandlersTypeOK, NEW t \in Task, NEW l \in Pc, Goto(t, l)
  PROVE  HandlersTypeOK'
  BY DEF HandlersTypeOK, Goto

\* one that goes on or returns, as what it read tells it,
LEMMA ProceedType ==
  ASSUME HandlersTypeOK, NEW t \in Task, NEW l \in Pc, NEW b \in BOOLEAN,
         Proceed(t, b, l)
  PROVE  HandlersTypeOK'
  BY FinishType, GotoType DEF Proceed

\* one whose Promise.all has one statement answered,
LEMMA SettleType ==
  ASSUME HandlersTypeOK, NEW t \in Task, NEW s, Settle(t, s)
  PROVE  HandlersTypeOK'
  <1>1. CASE pending[t] = {s}
    BY <1>1, FinishType DEF Settle
  <1>2. CASE pending[t] # {s}
    BY <1>2 DEF Settle, HandlersTypeOK
  <1> QED BY <1>1, <1>2

\* and one that takes a message.
LEMMA StartType ==
  ASSUME HandlersTypeOK, NEW t \in Task, NEW j \in Job, NEW l \in Pc,
         NEW reads \in SUBSET {"channel", "sender"}, Start(t, j, l, reads)
  PROVE  HandlersTypeOK'
  BY DEF HandlersTypeOK, Start

\* A channel just created has the right types.
LEMMA TypeInit == Init => TypeOK
  <1> SUFFICES ASSUME Init PROVE TypeOK
    OBVIOUS
  <1>1. \A p \in Phone : IsFounder(p) => FounderId(p) \in Nat
    BY FoundersAssumption DEF IsFounder, FounderId
  <1>2. Len(Founders) \in Nat
    BY FoundersAssumption
  <1>3. HandlersTypeOK
    BY DEF Init, HandlersTypeOK, Pc, Job, NoJob, Snap, NoSnap, MemberType,
       VouchMode
  <1> QED
    BY <1>1, <1>2, <1>3, VouchAssumption, BoundAssumption
    DEF Init, TypeOK, HandlersTypeOK, MemberType, VouchMode

\* The numbers a task in flight works on.
LEMMA TaskNumbers ==
  ASSUME ControlOK, NEW t \in Task, pc[t] # "idle"
  PROVE  /\ job[t].cmd \in CommandsAt(pc[t])
         /\ job[t].target \in Phone
         /\ job[t].cmd \in AllCommands => job[t].sender \in Phone
  BY DEF ControlOK

\* Every step keeps the types; where a number is written to a table, ControlOK says
\* that it is a number.
LEMMA TypeNext == TypeOK /\ ControlOK /\ [Next]_vars => TypeOK'
  <1> SUFFICES ASSUME TypeOK, ControlOK, [Next]_vars PROVE TypeOK'
    OBVIOUS
  <1> USE DEF TypeOK, HandlersTypeOK, tables, handlers, history, Pc, MemberType,
              AddSubscriber, DeleteMember
  <1>1. ASSUME NEW t \in Task, FetchChannel(t) PROVE TypeOK'
    <2>1. CanAddSubscribers \in BOOLEAN /\ vouchLevel \in Nat
      BY VouchAssumption DEF CanAddSubscribers
    <2>2. snap[t].senderType \in MemberType
      BY DEF Snap
    <2>3. snap' \in [Task -> Snap]
      BY <1>1, <2>1, <2>2 DEF FetchChannel, Snap
    <2> QED
      BY <1>1, <2>3 DEF FetchChannel
  <1>2. ASSUME NEW t \in Task, FetchSender(t) PROVE TypeOK'
    <2>1. memberType[job[t].sender] \in MemberType
      BY <1>2, TaskNumbers DEF FetchSender, CommandsAt
    <2> DEFINE new == [snap[t] EXCEPT !.senderType = memberType[job[t].sender]]
    <2>2. new \in Snap
      BY <2>1 DEF Snap
    <2>3. snap' = [snap EXCEPT ![t] = new]
      BY <1>2 DEF FetchSender
    <2> HIDE DEF new
    <2> QED
      BY <1>2, <2>2, <2>3 DEF FetchSender
  <1>3. ASSUME NEW t \in Task, DetectBanned(t) PROVE TypeOK'
    BY <1>3, ProceedType DEF DetectBanned
  <1>4. ASSUME NEW t \in Task, Refuse(t) PROVE TypeOK'
    BY <1>4, FinishType DEF Refuse
  <1>5. ASSUME NEW t \in Task, Join(t) PROVE TypeOK'
    BY <1>5, FinishType DEF Join
  <1>6. ASSUME NEW t \in Task, Leave(t) PROVE TypeOK'
    BY <1>6, FinishType DEF Leave
  <1>7. ASSUME NEW t \in Task, Decline(t) PROVE TypeOK'
    BY <1>7, FinishType DEF Decline
  <1>8. ASSUME NEW t \in Task, SetVouchMode(t) PROVE TypeOK'
    BY <1>8, FinishType DEF SetVouchMode, VouchMode
  <1>9. ASSUME NEW t \in Task, SetVouchLevel(t) PROVE TypeOK'
    BY <1>9, FinishType DEF SetVouchLevel
  <1>10. ASSUME NEW t \in Task, InviteFindBanned(t) PROVE TypeOK'
    BY <1>10, ProceedType DEF InviteFindBanned
  <1>11. ASSUME NEW t \in Task, InviteIsMember(t) PROVE TypeOK'
    BY <1>11, ProceedType DEF InviteIsMember
  <1>12. ASSUME NEW t \in Task, InviteIssue(t) PROVE TypeOK'
    <2>1. job[t].sender \in Phone /\ job[t].target \in Phone
      BY <1>12, TaskNumbers DEF InviteIssue, CommandsAt, AllCommands
    <2>2. <<job[t].sender, job[t].target>> \in Phone \X Phone
      BY <2>1
    <2>3. HandlersTypeOK'
      BY <1>12, FinishType DEF InviteIssue
    <2> QED
      BY <1>12, <2>2, <2>3 DEF InviteIssue
  <1>13. ASSUME NEW t \in Task, AcceptIsMember(t) PROVE TypeOK'
    BY <1>13, ProceedType DEF AcceptIsMember
  <1>14. ASSUME NEW t \in Task, AcceptCountInvites(t) PROVE TypeOK'
    BY <1>14, ProceedType DEF AcceptCountInvites, EnoughVouches
  <1>15. ASSUME NEW t \in Task, AcceptFindInviter(t) PROVE TypeOK'
    BY <1>15, FinishType DEF AcceptFindInviter
  <1>16. ASSUME NEW t \in Task, AcceptAddSubscriber(t) PROVE TypeOK'
    BY <1>16, SettleType DEF AcceptAddSubscriber
  <1>17. ASSUME NEW t \in Task, AcceptDeleteInvites(t) PROVE TypeOK'
    BY <1>17, SettleType DEF AcceptDeleteInvites
  <1>18. ASSUME NEW t \in Task, AddTrust(t) PROVE TypeOK'
    BY <1>18, GotoType DEF AddTrust
  <1>19. ASSUME NEW t \in Task, AddClearDeauth(t) PROVE TypeOK'
    BY <1>19, GotoType DEF AddClearDeauth
  <1>20. ASSUME NEW t \in Task, AddIsBanned(t) PROVE TypeOK'
    BY <1>20, ProceedType DEF AddIsBanned
  <1>21. ASSUME NEW t \in Task, AddReadChannel(t) PROVE TypeOK'
    BY <1>21 DEF AddReadChannel
  <1>22. ASSUME NEW t \in Task, AddFindOrCreate(t) PROVE TypeOK'
    BY <1>22, GotoType DEF AddFindOrCreate, Write
  <1>23. ASSUME NEW t \in Task, AddPromote(t) PROVE TypeOK'
    BY <1>23 DEF AddPromote, Write
  <1>24. ASSUME NEW t \in Task, AddAdvanceNextId(t) PROVE TypeOK'
    BY <1>24, GotoType DEF AddAdvanceNextId
  <1>25. ASSUME NEW t \in Task, AddCommit(t) PROVE TypeOK'
    BY <1>25, FinishType DEF AddCommit
  <1>26. ASSUME NEW t \in Task, RemoveResolveType(t) PROVE TypeOK'
    BY <1>26, ProceedType DEF RemoveResolveType
  <1>27. ASSUME NEW t \in Task, RemoveWrite(t) PROVE TypeOK'
    BY <1>27, FinishType DEF RemoveWrite
  <1>28. ASSUME NEW t \in Task, BanIsBanned(t) PROVE TypeOK'
    BY <1>28, ProceedType DEF BanIsBanned
  <1>29. ASSUME NEW t \in Task, BanCreate(t) PROVE TypeOK'
    <2>1. job[t].target \in Phone
      BY <1>29, TaskNumbers DEF BanCreate
    <2> QED
      BY <1>29, <2>1, ProceedType DEF BanCreate
  <1>30. ASSUME NEW t \in Task, BanDestroyMembership(t) PROVE TypeOK'
    BY <1>30, FinishType DEF BanDestroyMembership, ControlOK, CommandsAt,
       AllCommands, Job
  <1>31. ASSUME NEW t \in Task, RekeyResolveType(t) PROVE TypeOK'
    BY <1>31, ProceedType DEF RekeyResolveType
  <1>32. ASSUME NEW t \in Task, RekeyRemoveMember(t) PROVE TypeOK'
    BY <1>32, GotoType DEF RekeyRemoveMember
  <1>33. ASSUME NEW t \in Task, RekeyDeauthorize(t) PROVE TypeOK'
    BY <1>33, FinishType DEF RekeyDeauthorize, ControlOK, CommandsAt,
       AllCommands, Job
  <1>34. ASSUME NEW t \in Task, Abort(t) PROVE TypeOK'
    BY <1>34, FinishType DEF Abort
  <1>35. ASSUME NEW t \in Task, Receive(t) PROVE TypeOK'
    <2>1. HandlersTypeOK'
      BY <1>35, StartType DEF Receive, Targeted, Job, AllCommands
    <2> QED
      BY <1>35, <2>1, BoundAssumption DEF Receive, Start
  <1>36. ASSUME NEW t \in Task, ReceiveApiAdd(t) PROVE TypeOK'
    <2>1. HandlersTypeOK'
      BY <1>36, StartType DEF ReceiveApiAdd, Job, AllCommands
    <2> QED
      BY <1>36, <2>1, BoundAssumption DEF ReceiveApiAdd, Start
  <1>37. ASSUME NEW t \in Task, ReceiveIdentityFailure(t) PROVE TypeOK'
    <2>1. HandlersTypeOK'
      BY <1>37, StartType DEF ReceiveIdentityFailure, Job, AllCommands
    <2> QED
      BY <1>37, <2>1, BoundAssumption DEF ReceiveIdentityFailure, Start
  <1>38. CASE DeleteExpiredInvites
    BY <1>38 DEF DeleteExpiredInvites
  <1>39. CASE UNCHANGED vars
    BY <1>39 DEF vars
  <1> QED
    BY <1>1, <1>2, <1>3, <1>4, <1>5, <1>6, <1>7, <1>8, <1>9, <1>10, <1>11,
       <1>12, <1>13, <1>14, <1>15, <1>16, <1>17, <1>18, <1>19, <1>20, <1>21,
       <1>22, <1>23, <1>24, <1>25, <1>26, <1>27, <1>28, <1>29, <1>30, <1>31,
       <1>32, <1>33, <1>34, <1>35, <1>36, <1>37, <1>38, <1>39 DEF Next,
       Arrive, Step

-----------------------------------------------------------------------------
(* Where the tasks are. *)

\* No task is in flight at first.
LEMMA ControlInit == Init => ControlOK
  BY DEF Init, ControlOK

\* A task that returns, or goes on to a label its command leads to, leaves the
\* other tasks where they are.
LEMMA FinishControl ==
  ASSUME TypeOK, ControlOK, NEW t \in Task, Finish(t)
  PROVE  ControlOK'
  BY DEF TypeOK, ControlOK, Finish

\* The same for a step to the next statement,
LEMMA GotoControl ==
  ASSUME TypeOK, ControlOK, NEW t \in Task, NEW l \in Pc, Goto(t, l),
         pc[t] # "idle", job[t].cmd \in CommandsAt(l)
  PROVE  ControlOK'
  BY DEF TypeOK, ControlOK, Goto

\* for a step that goes on or returns,
LEMMA ProceedControl ==
  ASSUME TypeOK, ControlOK, NEW t \in Task, NEW l \in Pc, NEW b, Proceed(t, b, l),
         pc[t] # "idle", job[t].cmd \in CommandsAt(l)
  PROVE  ControlOK'
  BY FinishControl, GotoControl DEF Proceed

\* and for a message that arrives, on numbers that exist.
LEMMA StartControl ==
  ASSUME TypeOK, ControlOK, NEW t \in Task, NEW j \in Job, NEW l \in Pc, NEW reads,
         Start(t, j, l, reads), j.cmd \in CommandsAt(l), j.target \in Phone,
         j.cmd \in AllCommands => j.sender \in Phone
  PROVE  ControlOK'
  BY DEF TypeOK, ControlOK, Start

\* Every step keeps each task where its command leads.
LEMMA ControlNext == TypeOK /\ ControlOK /\ [Next]_vars => ControlOK'
  <1> SUFFICES ASSUME TypeOK, ControlOK, [Next]_vars PROVE ControlOK'
    OBVIOUS
  <1> USE DEF CommandsAt, AllCommands, Pc, Runs
  <1>1. ASSUME NEW t \in Task, FetchChannel(t) PROVE ControlOK'
    BY <1>1, FinishControl, TaskNumbers DEF FetchChannel, Goto, Write,
       ControlOK, TypeOK
  <1>2. ASSUME NEW t \in Task, FetchSender(t) PROVE ControlOK'
    BY <1>2, FinishControl, TaskNumbers DEF FetchSender, Goto, Write,
       ControlOK, TypeOK
  <1>3. ASSUME NEW t \in Task, DetectBanned(t) PROVE ControlOK'
    BY <1>3, ProceedControl, TaskNumbers DEF DetectBanned
  <1>4. ASSUME NEW t \in Task, Refuse(t) PROVE ControlOK'
    BY <1>4, FinishControl DEF Refuse
  <1>5. ASSUME NEW t \in Task, Join(t) PROVE ControlOK'
    BY <1>5, FinishControl DEF Join
  <1>6. ASSUME NEW t \in Task, Leave(t) PROVE ControlOK'
    BY <1>6, FinishControl DEF Leave
  <1>7. ASSUME NEW t \in Task, Decline(t) PROVE ControlOK'
    BY <1>7, FinishControl DEF Decline
  <1>8. ASSUME NEW t \in Task, SetVouchMode(t) PROVE ControlOK'
    BY <1>8, FinishControl DEF SetVouchMode
  <1>9. ASSUME NEW t \in Task, SetVouchLevel(t) PROVE ControlOK'
    BY <1>9, FinishControl DEF SetVouchLevel
  <1>10. ASSUME NEW t \in Task, InviteFindBanned(t) PROVE ControlOK'
    BY <1>10, ProceedControl, TaskNumbers DEF InviteFindBanned
  <1>11. ASSUME NEW t \in Task, InviteIsMember(t) PROVE ControlOK'
    BY <1>11, ProceedControl, TaskNumbers DEF InviteIsMember
  <1>12. ASSUME NEW t \in Task, InviteIssue(t) PROVE ControlOK'
    BY <1>12, FinishControl DEF InviteIssue
  <1>13. ASSUME NEW t \in Task, AcceptIsMember(t) PROVE ControlOK'
    BY <1>13, ProceedControl, TaskNumbers DEF AcceptIsMember
  <1>14. ASSUME NEW t \in Task, AcceptCountInvites(t) PROVE ControlOK'
    BY <1>14, ProceedControl, TaskNumbers DEF AcceptCountInvites
  <1>15. ASSUME NEW t \in Task, AcceptFindInviter(t) PROVE ControlOK'
    BY <1>15, FinishControl, TaskNumbers DEF AcceptFindInviter, Goto, Write,
       ControlOK, TypeOK
  <1>16. ASSUME NEW t \in Task, AcceptAddSubscriber(t) PROVE ControlOK'
    BY <1>16, FinishControl DEF AcceptAddSubscriber, Settle, ControlOK
  <1>17. ASSUME NEW t \in Task, AcceptDeleteInvites(t) PROVE ControlOK'
    BY <1>17, FinishControl DEF AcceptDeleteInvites, Settle, ControlOK
  <1>18. ASSUME NEW t \in Task, AddTrust(t) PROVE ControlOK'
    BY <1>18, GotoControl, TaskNumbers DEF AddTrust
  <1>19. ASSUME NEW t \in Task, AddClearDeauth(t) PROVE ControlOK'
    BY <1>19, GotoControl, TaskNumbers DEF AddClearDeauth
  <1>20. ASSUME NEW t \in Task, AddIsBanned(t) PROVE ControlOK'
    BY <1>20, ProceedControl, TaskNumbers DEF AddIsBanned
  <1>21. ASSUME NEW t \in Task, AddReadChannel(t) PROVE ControlOK'
    BY <1>21, FinishControl, TaskNumbers DEF AddReadChannel, Goto, Write,
       ControlOK, TypeOK
  <1>22. ASSUME NEW t \in Task, AddFindOrCreate(t) PROVE ControlOK'
    BY <1>22, FinishControl, TaskNumbers DEF AddFindOrCreate, Goto, Write,
       ControlOK, TypeOK
  <1>23. ASSUME NEW t \in Task, AddPromote(t) PROVE ControlOK'
    BY <1>23, FinishControl, TaskNumbers DEF AddPromote, Goto, Write,
       ControlOK, TypeOK
  <1>24. ASSUME NEW t \in Task, AddAdvanceNextId(t) PROVE ControlOK'
    BY <1>24, GotoControl, TaskNumbers DEF AddAdvanceNextId
  <1>25. ASSUME NEW t \in Task, AddCommit(t) PROVE ControlOK'
    BY <1>25, FinishControl DEF AddCommit
  <1>26. ASSUME NEW t \in Task, RemoveResolveType(t) PROVE ControlOK'
    BY <1>26, ProceedControl, TaskNumbers DEF RemoveResolveType
  <1>27. ASSUME NEW t \in Task, RemoveWrite(t) PROVE ControlOK'
    BY <1>27, FinishControl DEF RemoveWrite
  <1>28. ASSUME NEW t \in Task, BanIsBanned(t) PROVE ControlOK'
    BY <1>28, ProceedControl, TaskNumbers DEF BanIsBanned
  <1>29. ASSUME NEW t \in Task, BanCreate(t) PROVE ControlOK'
    BY <1>29, ProceedControl, TaskNumbers DEF BanCreate
  <1>30. ASSUME NEW t \in Task, BanDestroyMembership(t) PROVE ControlOK'
    BY <1>30, FinishControl DEF BanDestroyMembership
  <1>31. ASSUME NEW t \in Task, RekeyResolveType(t) PROVE ControlOK'
    BY <1>31, ProceedControl, TaskNumbers DEF RekeyResolveType
  <1>32. ASSUME NEW t \in Task, RekeyRemoveMember(t) PROVE ControlOK'
    BY <1>32, GotoControl, TaskNumbers DEF RekeyRemoveMember
  <1>33. ASSUME NEW t \in Task, RekeyDeauthorize(t) PROVE ControlOK'
    BY <1>33, FinishControl DEF RekeyDeauthorize
  <1>34. ASSUME NEW t \in Task, Abort(t) PROVE ControlOK'
    BY <1>34, FinishControl DEF Abort
  <1>35. ASSUME NEW t \in Task, Receive(t) PROVE ControlOK'
    BY <1>35, StartControl DEF Receive, Targeted, Job
  <1>36. ASSUME NEW t \in Task, ReceiveApiAdd(t) PROVE ControlOK'
    BY <1>36, StartControl DEF ReceiveApiAdd, Job
  <1>37. ASSUME NEW t \in Task, ReceiveIdentityFailure(t) PROVE ControlOK'
    BY <1>37, StartControl DEF ReceiveIdentityFailure, Job
  <1>38. CASE DeleteExpiredInvites
    BY <1>38 DEF DeleteExpiredInvites, handlers, ControlOK
  <1>39. CASE UNCHANGED vars
    BY <1>39 DEF vars, handlers, ControlOK
  <1> QED
    BY <1>1, <1>2, <1>3, <1>4, <1>5, <1>6, <1>7, <1>8, <1>9, <1>10, <1>11,
       <1>12, <1>13, <1>14, <1>15, <1>16, <1>17, <1>18, <1>19, <1>20, <1>21,
       <1>22, <1>23, <1>24, <1>25, <1>26, <1>27, <1>28, <1>29, <1>30, <1>31,
       <1>32, <1>33, <1>34, <1>35, <1>36, <1>37, <1>38, <1>39 DEF Next,
       Arrive, Step

-----------------------------------------------------------------------------
(* Bans: a settled ban's row stays, and stops every handler that starts late. *)

\* There are no bans at first.
LEMMA BansInit == Init => BansInv
  BY DEF Init, BansInv, NoJob, Cleared

\* Every step keeps the settled bans out of reach.
LEMMA BansNext == TypeOK /\ ControlOK /\ BansInv /\ [Next]_vars => BansInv'
  <1> SUFFICES ASSUME TypeOK, ControlOK, BansInv, [Next]_vars PROVE BansInv'
    OBVIOUS
  <1> USE DEF TypeOK, BansInv, Cleared, tables, handlers, history,
              Runs, Proceed, Goto, Finish, NoJob, Settle, Start, AddSubscriber,
              DeleteMember
  <1>1. ASSUME NEW t \in Task, FetchChannel(t) PROVE BansInv'
    BY <1>1 DEF FetchChannel
  <1>2. ASSUME NEW t \in Task, FetchSender(t) PROVE BansInv'
    BY <1>2 DEF FetchSender
  <1>3. ASSUME NEW t \in Task, DetectBanned(t) PROVE BansInv'
    BY <1>3 DEF DetectBanned
  <1>4. ASSUME NEW t \in Task, Refuse(t) PROVE BansInv'
    BY <1>4 DEF Refuse
  <1>5. ASSUME NEW t \in Task, Join(t) PROVE BansInv'
    BY <1>5 DEF Join
  <1>6. ASSUME NEW t \in Task, Leave(t) PROVE BansInv'
    BY <1>6 DEF Leave
  <1>7. ASSUME NEW t \in Task, Decline(t) PROVE BansInv'
    BY <1>7 DEF Decline
  <1>8. ASSUME NEW t \in Task, SetVouchMode(t) PROVE BansInv'
    BY <1>8 DEF SetVouchMode
  <1>9. ASSUME NEW t \in Task, SetVouchLevel(t) PROVE BansInv'
    BY <1>9 DEF SetVouchLevel
  <1>10. ASSUME NEW t \in Task, InviteFindBanned(t) PROVE BansInv'
    BY <1>10 DEF InviteFindBanned
  <1>11. ASSUME NEW t \in Task, InviteIsMember(t) PROVE BansInv'
    BY <1>11 DEF InviteIsMember
  <1>12. ASSUME NEW t \in Task, InviteIssue(t) PROVE BansInv'
    BY <1>12 DEF InviteIssue
  <1>13. ASSUME NEW t \in Task, AcceptIsMember(t) PROVE BansInv'
    BY <1>13 DEF AcceptIsMember
  <1>14. ASSUME NEW t \in Task, AcceptCountInvites(t) PROVE BansInv'
    BY <1>14 DEF AcceptCountInvites
  <1>15. ASSUME NEW t \in Task, AcceptFindInviter(t) PROVE BansInv'
    BY <1>15 DEF AcceptFindInviter
  <1>16. ASSUME NEW t \in Task, AcceptAddSubscriber(t) PROVE BansInv'
    BY <1>16, TaskNumbers DEF AcceptAddSubscriber, CommandsAt
  <1>17. ASSUME NEW t \in Task, AcceptDeleteInvites(t) PROVE BansInv'
    BY <1>17 DEF AcceptDeleteInvites
  <1>18. ASSUME NEW t \in Task, AddTrust(t) PROVE BansInv'
    BY <1>18 DEF AddTrust
  <1>19. ASSUME NEW t \in Task, AddClearDeauth(t) PROVE BansInv'
    BY <1>19 DEF AddClearDeauth
  <1>20. ASSUME NEW t \in Task, AddIsBanned(t) PROVE BansInv'
    BY <1>20 DEF AddIsBanned
  <1>21. ASSUME NEW t \in Task, AddReadChannel(t) PROVE BansInv'
    BY <1>21 DEF AddReadChannel
  <1>22. ASSUME NEW t \in Task, AddFindOrCreate(t) PROVE BansInv'
    BY <1>22 DEF AddFindOrCreate, Write
  <1>23. ASSUME NEW t \in Task, AddPromote(t) PROVE BansInv'
    BY <1>23 DEF AddPromote, Write
  <1>24. ASSUME NEW t \in Task, AddAdvanceNextId(t) PROVE BansInv'
    BY <1>24 DEF AddAdvanceNextId
  <1>25. ASSUME NEW t \in Task, AddCommit(t) PROVE BansInv'
    BY <1>25, TaskNumbers DEF AddCommit, CommandsAt
  <1>26. ASSUME NEW t \in Task, RemoveResolveType(t) PROVE BansInv'
    BY <1>26 DEF RemoveResolveType
  <1>27. ASSUME NEW t \in Task, RemoveWrite(t) PROVE BansInv'
    BY <1>27 DEF RemoveWrite
  <1>28. ASSUME NEW t \in Task, BanIsBanned(t) PROVE BansInv'
    BY <1>28 DEF BanIsBanned
  <1>29. ASSUME NEW t \in Task, BanCreate(t) PROVE BansInv'
    BY <1>29 DEF BanCreate
  <1>30. ASSUME NEW t \in Task, BanDestroyMembership(t) PROVE BansInv'
    BY <1>30 DEF BanDestroyMembership
  <1>31. ASSUME NEW t \in Task, RekeyResolveType(t) PROVE BansInv'
    BY <1>31 DEF RekeyResolveType
  <1>32. ASSUME NEW t \in Task, RekeyRemoveMember(t) PROVE BansInv'
    BY <1>32 DEF RekeyRemoveMember
  <1>33. ASSUME NEW t \in Task, RekeyDeauthorize(t) PROVE BansInv'
    BY <1>33 DEF RekeyDeauthorize
  <1>34. ASSUME NEW t \in Task, Abort(t) PROVE BansInv'
    BY <1>34 DEF Abort
  <1>35. ASSUME NEW t \in Task, Receive(t) PROVE BansInv'
    BY <1>35 DEF Receive
  <1>36. ASSUME NEW t \in Task, ReceiveApiAdd(t) PROVE BansInv'
    BY <1>36 DEF ReceiveApiAdd
  <1>37. ASSUME NEW t \in Task, ReceiveIdentityFailure(t) PROVE BansInv'
    BY <1>37 DEF ReceiveIdentityFailure
  <1>38. CASE DeleteExpiredInvites
    BY <1>38 DEF DeleteExpiredInvites
  <1>39. CASE UNCHANGED vars
    BY <1>39 DEF vars
  <1> QED
    BY <1>1, <1>2, <1>3, <1>4, <1>5, <1>6, <1>7, <1>8, <1>9, <1>10, <1>11,
       <1>12, <1>13, <1>14, <1>15, <1>16, <1>17, <1>18, <1>19, <1>20, <1>21,
       <1>22, <1>23, <1>24, <1>25, <1>26, <1>27, <1>28, <1>29, <1>30, <1>31,
       <1>32, <1>33, <1>34, <1>35, <1>36, <1>37, <1>38, <1>39 DEF Next,
       Arrive, Step

-----------------------------------------------------------------------------
(* Deauthorizations: only an ADD that saw the row can pass it. *)

\* There are no deauthorizations at first.
LEMMA DeauthsInit == Init => DeauthsInv
  BY DEF Init, DeauthsInv, NoJob, Trusting

\* Every step keeps the settled deauthorizations out of reach.
LEMMA DeauthsNext == TypeOK /\ ControlOK /\ DeauthsInv /\ [Next]_vars => DeauthsInv'
  <1> SUFFICES ASSUME TypeOK, ControlOK, DeauthsInv, [Next]_vars PROVE DeauthsInv'
    OBVIOUS
  <1> USE DEF TypeOK, DeauthsInv, Trusting, tables, handlers, history,
              Runs, Proceed, Goto, Finish, NoJob, Settle, Start, AddSubscriber,
              DeleteMember
  <1>1. ASSUME NEW t \in Task, FetchChannel(t) PROVE DeauthsInv'
    <2> SUFFICES ASSUME NEW p \in settledDeauths, NEW u \in Task,
                        Trusting(u, p)', job[u].cmd = "ADD"
                 PROVE  snap'[u].deauthed
      BY <1>1 DEF FetchChannel
    <2>1. CASE u = t
      BY <1>1, <2>1 DEF FetchChannel
    <2>2. CASE u # t
      BY <1>1, <2>2 DEF FetchChannel
    <2> QED
      BY <2>1, <2>2
  <1>2. ASSUME NEW t \in Task, FetchSender(t) PROVE DeauthsInv'
    BY <1>2 DEF FetchSender
  <1>3. ASSUME NEW t \in Task, DetectBanned(t) PROVE DeauthsInv'
    BY <1>3 DEF DetectBanned
  <1>4. ASSUME NEW t \in Task, Refuse(t) PROVE DeauthsInv'
    BY <1>4 DEF Refuse
  <1>5. ASSUME NEW t \in Task, Join(t) PROVE DeauthsInv'
    BY <1>5 DEF Join
  <1>6. ASSUME NEW t \in Task, Leave(t) PROVE DeauthsInv'
    BY <1>6 DEF Leave
  <1>7. ASSUME NEW t \in Task, Decline(t) PROVE DeauthsInv'
    BY <1>7 DEF Decline
  <1>8. ASSUME NEW t \in Task, SetVouchMode(t) PROVE DeauthsInv'
    BY <1>8 DEF SetVouchMode
  <1>9. ASSUME NEW t \in Task, SetVouchLevel(t) PROVE DeauthsInv'
    BY <1>9 DEF SetVouchLevel
  <1>10. ASSUME NEW t \in Task, InviteFindBanned(t) PROVE DeauthsInv'
    BY <1>10 DEF InviteFindBanned
  <1>11. ASSUME NEW t \in Task, InviteIsMember(t) PROVE DeauthsInv'
    BY <1>11 DEF InviteIsMember
  <1>12. ASSUME NEW t \in Task, InviteIssue(t) PROVE DeauthsInv'
    BY <1>12 DEF InviteIssue
  <1>13. ASSUME NEW t \in Task, AcceptIsMember(t) PROVE DeauthsInv'
    BY <1>13 DEF AcceptIsMember
  <1>14. ASSUME NEW t \in Task, AcceptCountInvites(t) PROVE DeauthsInv'
    BY <1>14 DEF AcceptCountInvites
  <1>15. ASSUME NEW t \in Task, AcceptFindInviter(t) PROVE DeauthsInv'
    BY <1>15 DEF AcceptFindInviter
  <1>16. ASSUME NEW t \in Task, AcceptAddSubscriber(t) PROVE DeauthsInv'
    BY <1>16 DEF AcceptAddSubscriber
  <1>17. ASSUME NEW t \in Task, AcceptDeleteInvites(t) PROVE DeauthsInv'
    BY <1>17 DEF AcceptDeleteInvites
  <1>18. ASSUME NEW t \in Task, AddTrust(t) PROVE DeauthsInv'
    BY <1>18 DEF AddTrust
  <1>19. ASSUME NEW t \in Task, AddClearDeauth(t) PROVE DeauthsInv'
    BY <1>19 DEF AddClearDeauth
  <1>20. ASSUME NEW t \in Task, AddIsBanned(t) PROVE DeauthsInv'
    BY <1>20 DEF AddIsBanned
  <1>21. ASSUME NEW t \in Task, AddReadChannel(t) PROVE DeauthsInv'
    BY <1>21 DEF AddReadChannel
  <1>22. ASSUME NEW t \in Task, AddFindOrCreate(t) PROVE DeauthsInv'
    BY <1>22 DEF AddFindOrCreate, Write
  <1>23. ASSUME NEW t \in Task, AddPromote(t) PROVE DeauthsInv'
    BY <1>23 DEF AddPromote, Write
  <1>24. ASSUME NEW t \in Task, AddAdvanceNextId(t) PROVE DeauthsInv'
    BY <1>24 DEF AddAdvanceNextId
  <1>25. ASSUME NEW t \in Task, AddCommit(t) PROVE DeauthsInv'
    BY <1>25, TaskNumbers DEF AddCommit, CommandsAt
  <1>26. ASSUME NEW t \in Task, RemoveResolveType(t) PROVE DeauthsInv'
    BY <1>26 DEF RemoveResolveType
  <1>27. ASSUME NEW t \in Task, RemoveWrite(t) PROVE DeauthsInv'
    BY <1>27 DEF RemoveWrite
  <1>28. ASSUME NEW t \in Task, BanIsBanned(t) PROVE DeauthsInv'
    BY <1>28 DEF BanIsBanned
  <1>29. ASSUME NEW t \in Task, BanCreate(t) PROVE DeauthsInv'
    BY <1>29 DEF BanCreate
  <1>30. ASSUME NEW t \in Task, BanDestroyMembership(t) PROVE DeauthsInv'
    BY <1>30 DEF BanDestroyMembership
  <1>31. ASSUME NEW t \in Task, RekeyResolveType(t) PROVE DeauthsInv'
    BY <1>31 DEF RekeyResolveType
  <1>32. ASSUME NEW t \in Task, RekeyRemoveMember(t) PROVE DeauthsInv'
    BY <1>32 DEF RekeyRemoveMember
  <1>33. ASSUME NEW t \in Task, RekeyDeauthorize(t) PROVE DeauthsInv'
    BY <1>33 DEF RekeyDeauthorize
  <1>34. ASSUME NEW t \in Task, Abort(t) PROVE DeauthsInv'
    BY <1>34 DEF Abort
  <1>35. ASSUME NEW t \in Task, Receive(t) PROVE DeauthsInv'
    BY <1>35 DEF Receive
  <1>36. ASSUME NEW t \in Task, ReceiveApiAdd(t) PROVE DeauthsInv'
    BY <1>36 DEF ReceiveApiAdd
  <1>37. ASSUME NEW t \in Task, ReceiveIdentityFailure(t) PROVE DeauthsInv'
    BY <1>37 DEF ReceiveIdentityFailure
  <1>38. CASE DeleteExpiredInvites
    BY <1>38 DEF DeleteExpiredInvites
  <1>39. CASE UNCHANGED vars
    BY <1>39 DEF vars
  <1> QED
    BY <1>1, <1>2, <1>3, <1>4, <1>5, <1>6, <1>7, <1>8, <1>9, <1>10, <1>11,
       <1>12, <1>13, <1>14, <1>15, <1>16, <1>17, <1>18, <1>19, <1>20, <1>21,
       <1>22, <1>23, <1>24, <1>25, <1>26, <1>27, <1>28, <1>29, <1>30, <1>31,
       <1>32, <1>33, <1>34, <1>35, <1>36, <1>37, <1>38, <1>39 DEF Next,
       Arrive, Step

-----------------------------------------------------------------------------
(* Promotions: what an ADD read of its sender is kept until it commits. *)

\* No ADD is in flight at first.
LEMMA AppointInit == Init => AppointInv
  BY DEF Init, AppointInv, NoJob

\* No step lets an ADD past its first lines unless an admin sent it.
LEMMA AppointNext == TypeOK /\ ControlOK /\ AppointInv /\ [Next]_vars => AppointInv'
  <1> SUFFICES ASSUME TypeOK, ControlOK, AppointInv, [Next]_vars PROVE AppointInv'
    OBVIOUS
  <1> USE DEF TypeOK, AppointInv, tables, handlers, history,
              Runs, Proceed, Goto, Finish, NoJob, Settle, Start, AddSubscriber,
              DeleteMember
  <1>1. ASSUME NEW t \in Task, FetchChannel(t) PROVE AppointInv'
    BY <1>1 DEF FetchChannel
  <1>2. ASSUME NEW t \in Task, FetchSender(t) PROVE AppointInv'
    BY <1>2 DEF FetchSender
  <1>3. ASSUME NEW t \in Task, DetectBanned(t) PROVE AppointInv'
    BY <1>3 DEF DetectBanned
  <1>4. ASSUME NEW t \in Task, Refuse(t) PROVE AppointInv'
    BY <1>4 DEF Refuse
  <1>5. ASSUME NEW t \in Task, Join(t) PROVE AppointInv'
    BY <1>5 DEF Join
  <1>6. ASSUME NEW t \in Task, Leave(t) PROVE AppointInv'
    BY <1>6 DEF Leave
  <1>7. ASSUME NEW t \in Task, Decline(t) PROVE AppointInv'
    BY <1>7 DEF Decline
  <1>8. ASSUME NEW t \in Task, SetVouchMode(t) PROVE AppointInv'
    BY <1>8 DEF SetVouchMode
  <1>9. ASSUME NEW t \in Task, SetVouchLevel(t) PROVE AppointInv'
    BY <1>9 DEF SetVouchLevel
  <1>10. ASSUME NEW t \in Task, InviteFindBanned(t) PROVE AppointInv'
    BY <1>10 DEF InviteFindBanned
  <1>11. ASSUME NEW t \in Task, InviteIsMember(t) PROVE AppointInv'
    BY <1>11 DEF InviteIsMember
  <1>12. ASSUME NEW t \in Task, InviteIssue(t) PROVE AppointInv'
    BY <1>12 DEF InviteIssue
  <1>13. ASSUME NEW t \in Task, AcceptIsMember(t) PROVE AppointInv'
    BY <1>13 DEF AcceptIsMember
  <1>14. ASSUME NEW t \in Task, AcceptCountInvites(t) PROVE AppointInv'
    BY <1>14 DEF AcceptCountInvites
  <1>15. ASSUME NEW t \in Task, AcceptFindInviter(t) PROVE AppointInv'
    BY <1>15 DEF AcceptFindInviter
  <1>16. ASSUME NEW t \in Task, AcceptAddSubscriber(t) PROVE AppointInv'
    BY <1>16 DEF AcceptAddSubscriber
  <1>17. ASSUME NEW t \in Task, AcceptDeleteInvites(t) PROVE AppointInv'
    BY <1>17 DEF AcceptDeleteInvites
  <1>18. ASSUME NEW t \in Task, AddTrust(t) PROVE AppointInv'
    <2>1. job[t].cmd = "ADD" /\ pc[t] = "execute" => snap[t].senderType = "ADMIN"
      BY <1>18 DEF AddTrust, Permitted, ValidSubscriberCommands
    <2> QED
      BY <1>18, <2>1 DEF AddTrust
  <1>19. ASSUME NEW t \in Task, AddClearDeauth(t) PROVE AppointInv'
    BY <1>19 DEF AddClearDeauth
  <1>20. ASSUME NEW t \in Task, AddIsBanned(t) PROVE AppointInv'
    <2>1. job[t].cmd = "ADD" /\ pc[t] = "execute" => snap[t].senderType = "ADMIN"
      BY <1>20 DEF AddIsBanned, Permitted, ValidSubscriberCommands
    <2> QED
      BY <1>20, <2>1 DEF AddIsBanned
  <1>21. ASSUME NEW t \in Task, AddReadChannel(t) PROVE AppointInv'
    BY <1>21 DEF AddReadChannel
  <1>22. ASSUME NEW t \in Task, AddFindOrCreate(t) PROVE AppointInv'
    BY <1>22 DEF AddFindOrCreate, Write
  <1>23. ASSUME NEW t \in Task, AddPromote(t) PROVE AppointInv'
    BY <1>23 DEF AddPromote, Write
  <1>24. ASSUME NEW t \in Task, AddAdvanceNextId(t) PROVE AppointInv'
    BY <1>24 DEF AddAdvanceNextId
  <1>25. ASSUME NEW t \in Task, AddCommit(t) PROVE AppointInv'
    BY <1>25 DEF AddCommit
  <1>26. ASSUME NEW t \in Task, RemoveResolveType(t) PROVE AppointInv'
    BY <1>26 DEF RemoveResolveType
  <1>27. ASSUME NEW t \in Task, RemoveWrite(t) PROVE AppointInv'
    BY <1>27 DEF RemoveWrite
  <1>28. ASSUME NEW t \in Task, BanIsBanned(t) PROVE AppointInv'
    BY <1>28 DEF BanIsBanned
  <1>29. ASSUME NEW t \in Task, BanCreate(t) PROVE AppointInv'
    BY <1>29 DEF BanCreate
  <1>30. ASSUME NEW t \in Task, BanDestroyMembership(t) PROVE AppointInv'
    BY <1>30 DEF BanDestroyMembership
  <1>31. ASSUME NEW t \in Task, RekeyResolveType(t) PROVE AppointInv'
    BY <1>31 DEF RekeyResolveType
  <1>32. ASSUME NEW t \in Task, RekeyRemoveMember(t) PROVE AppointInv'
    BY <1>32 DEF RekeyRemoveMember
  <1>33. ASSUME NEW t \in Task, RekeyDeauthorize(t) PROVE AppointInv'
    BY <1>33 DEF RekeyDeauthorize
  <1>34. ASSUME NEW t \in Task, Abort(t) PROVE AppointInv'
    BY <1>34 DEF Abort
  <1>35. ASSUME NEW t \in Task, Receive(t) PROVE AppointInv'
    BY <1>35 DEF Receive
  <1>36. ASSUME NEW t \in Task, ReceiveApiAdd(t) PROVE AppointInv'
    BY <1>36 DEF ReceiveApiAdd
  <1>37. ASSUME NEW t \in Task, ReceiveIdentityFailure(t) PROVE AppointInv'
    BY <1>37 DEF ReceiveIdentityFailure
  <1>38. CASE DeleteExpiredInvites
    BY <1>38 DEF DeleteExpiredInvites
  <1>39. CASE UNCHANGED vars
    BY <1>39 DEF vars
  <1> QED
    BY <1>1, <1>2, <1>3, <1>4, <1>5, <1>6, <1>7, <1>8, <1>9, <1>10, <1>11,
       <1>12, <1>13, <1>14, <1>15, <1>16, <1>17, <1>18, <1>19, <1>20, <1>21,
       <1>22, <1>23, <1>24, <1>25, <1>26, <1>27, <1>28, <1>29, <1>30, <1>31,
       <1>32, <1>33, <1>34, <1>35, <1>36, <1>37, <1>38, <1>39 DEF Next,
       Arrive, Step

\* No other statement than an ADD's commit makes anyone an admin.
LEMMA OnlyCommitPromotes ==
  ASSUME TypeOK, [Next]_vars, NEW p \in Phone, memberType[p] # "ADMIN",
         memberType'[p] = "ADMIN"
  PROVE  \E t \in Task : AddCommit(t)
  <1> SUFFICES ASSUME \A t \in Task : ~AddCommit(t) PROVE FALSE
    OBVIOUS
  <1> USE DEF TypeOK, tables, Start, AddSubscriber, DeleteMember
  <1>1. \A t \in Task : ~Arrive(t)
    BY DEF Arrive, Receive, ReceiveApiAdd, ReceiveIdentityFailure
  <1>2. ~DeleteExpiredInvites /\ ~UNCHANGED vars
    BY DEF DeleteExpiredInvites, vars
  <1>3. ASSUME NEW t \in Task
        PROVE  /\ ~FetchChannel(t) /\ ~FetchSender(t) /\ ~DetectBanned(t)
               /\ ~Refuse(t) /\ ~Abort(t)
               /\ ~Decline(t) /\ ~SetVouchMode(t) /\ ~SetVouchLevel(t)
    BY DEF FetchChannel, FetchSender, DetectBanned, Refuse, Abort, Decline,
           SetVouchMode, SetVouchLevel
  <1>4. ASSUME NEW t \in Task
        PROVE  /\ ~InviteFindBanned(t) /\ ~InviteIsMember(t) /\ ~InviteIssue(t)
               /\ ~AcceptIsMember(t) /\ ~AcceptCountInvites(t)
               /\ ~AcceptFindInviter(t) /\ ~AcceptDeleteInvites(t)
    BY DEF InviteFindBanned, InviteIsMember, InviteIssue, AcceptIsMember,
           AcceptCountInvites, AcceptFindInviter, AcceptDeleteInvites
  <1>5. ASSUME NEW t \in Task
        PROVE  /\ ~AddTrust(t) /\ ~AddClearDeauth(t) /\ ~AddIsBanned(t)
               /\ ~AddReadChannel(t) /\ ~AddFindOrCreate(t) /\ ~AddPromote(t)
               /\ ~AddAdvanceNextId(t)
    BY DEF AddTrust, AddClearDeauth, AddIsBanned, AddReadChannel,
       AddFindOrCreate,
           AddPromote, AddAdvanceNextId
  <1>6. ASSUME NEW t \in Task
        PROVE  /\ ~RemoveResolveType(t) /\ ~BanIsBanned(t) /\ ~BanCreate(t)
               /\ ~RekeyResolveType(t) /\ ~RekeyDeauthorize(t)
    BY DEF RemoveResolveType, BanIsBanned, BanCreate, RekeyResolveType,
           RekeyDeauthorize
  <1>7. ASSUME NEW t \in Task
        PROVE  /\ ~Leave(t) /\ ~RemoveWrite(t) /\ ~BanDestroyMembership(t)
               /\ ~RekeyRemoveMember(t)
    BY DEF Leave, RemoveWrite, BanDestroyMembership, RekeyRemoveMember
  <1>8. ASSUME NEW t \in Task PROVE ~Join(t) /\ ~AcceptAddSubscriber(t)
    BY DEF Join, AcceptAddSubscriber
  <1> QED
    BY <1>1, <1>2, <1>3, <1>4, <1>5, <1>6, <1>7, <1>8 DEF Next, Step

\* A promotion is the commit of an ADD that an admin sent, or of the HTTP API.
LEMMA AppointStep ==
  ASSUME TypeOK, ControlOK, AppointInv, [Next]_vars, NEW p \in Phone,
         memberType[p] # "ADMIN", memberType'[p] = "ADMIN"
  PROVE  \E t \in Task :
           /\ job[t].target = p
           /\ \/ job[t].cmd = "API_ADD"
              \/ job[t].cmd = "ADD" /\ snap[t].senderType = "ADMIN"
  <1>1. PICK t \in Task : AddCommit(t)
    BY OnlyCommitPromotes
  <1>2. job[t].target = p
    BY <1>1 DEF AddCommit, TypeOK
  <1>3. job[t].cmd \in {"ADD", "API_ADD"}
    BY <1>1, TaskNumbers DEF AddCommit, CommandsAt
  <1> QED
    BY <1>1, <1>2, <1>3 DEF AppointInv, AddCommit

-----------------------------------------------------------------------------
(* Entry: what a JOIN or an ACCEPT read holds until its insert.             *)

\* The labels a handler passes on its way to the insert of a subscriber.
Entering == {"fetch", "execute", "countInvites", "findInviter", "acceptWrites"}

\* Nothing of another task changes.
Alone(t) ==
  \A u \in Task : u # t =>
    pc'[u] = pc[u] /\ job'[u] = job[u] /\ snap'[u] = snap[u] /\ pending'[u] = pending[u]

\* A handler returns, or goes to a label from which it inserts no subscriber.
Returns(t) == pc'[t] = "idle" /\ snap'[t] = NoSnap
TurnsAway(t) == pc'[t] \in Pc \ (Entering \cup {"idle"}) /\ snap'[t] = snap[t]

\* The steps of a handler that may still insert a subscriber.
Enters(t) ==
  \/ Receive(t) \/ FetchChannel(t) \/ FetchSender(t) \/ DetectBanned(t)
  \/ AcceptIsMember(t) \/ AcceptCountInvites(t) \/ AcceptFindInviter(t)
  \/ AcceptAddSubscriber(t) \/ AcceptDeleteInvites(t)

\* Every other step returns or turns away.
LEMMA StepShape ==
  ASSUME TypeOK, NEW t \in Task, Arrive(t) \/ Step(t)
  PROVE  Enters(t) \/ (Alone(t) /\ (Returns(t) \/ TurnsAway(t)))
  <1> USE DEF Alone, Returns, TurnsAway, Entering, Pc
  <1>1. ASSUME Finish(t) PROVE Alone(t) /\ Returns(t)
    BY <1>1 DEF TypeOK, Finish
  <1>2. ASSUME NEW l \in Pc \ (Entering \cup {"idle"}), Goto(t, l) PROVE Alone(t) /\ TurnsAway(t)
    BY <1>2 DEF TypeOK, Goto
  <1>3. CASE Refuse(t) \/ Join(t) \/ Leave(t) \/ Decline(t) \/ SetVouchMode(t) \/ SetVouchLevel(t)
             \/ InviteIssue(t) \/ AddCommit(t) \/ RemoveWrite(t) \/ BanDestroyMembership(t)
             \/ RekeyDeauthorize(t) \/ Abort(t)
    <2>1. Finish(t)
      BY <1>3 DEF Refuse, Join, Leave, Decline, SetVouchMode, SetVouchLevel, InviteIssue,
         AddCommit, RemoveWrite, BanDestroyMembership, RekeyDeauthorize, Abort
    <2> QED
      BY <1>1, <2>1
  <1>4. CASE InviteFindBanned(t) \/ InviteIsMember(t) \/ AddTrust(t) \/ AddClearDeauth(t)
             \/ AddIsBanned(t) \/ AddAdvanceNextId(t) \/ RemoveResolveType(t) \/ BanIsBanned(t)
             \/ BanCreate(t) \/ RekeyResolveType(t) \/ RekeyRemoveMember(t)
    <2>1. Finish(t) \/ \E l \in Pc \ (Entering \cup {"idle"}) : Goto(t, l)
      BY <1>4 DEF InviteFindBanned, InviteIsMember, AddTrust, AddClearDeauth, AddIsBanned,
         AddAdvanceNextId, RemoveResolveType, BanIsBanned, BanCreate, RekeyResolveType,
         RekeyRemoveMember, Proceed
    <2> QED
      BY <1>1, <1>2, <2>1
  <1>5. CASE AddReadChannel(t)
    BY <1>5 DEF AddReadChannel, TypeOK
  <1>6. CASE AddFindOrCreate(t) \/ AddPromote(t)
    <2>1. (\E l \in Pc \ (Entering \cup {"idle"}) : Goto(t, l)) \/ \E w : Write(t, w)
      BY <1>6 DEF AddFindOrCreate, AddPromote
    <2>2. ASSUME NEW w, Write(t, w) PROVE Alone(t) /\ TurnsAway(t)
      BY <2>2 DEF Write, TypeOK
    <2> QED
      BY <1>2, <2>1, <2>2
  <1>7. CASE ReceiveApiAdd(t) \/ ReceiveIdentityFailure(t)
    BY <1>7 DEF ReceiveApiAdd, ReceiveIdentityFailure, Start, TypeOK
  <1> QED
    BY <1>3, <1>4, <1>5, <1>6, <1>7 DEF Arrive, Step, Enters

\* Whoever has ever invited p.
Vouchers(p) == {i \in Phone : <<i, p>> \in everInvited}
Vouched(t) == snap[t].mode = "OFF" \/ Cardinality(Vouchers(job[t].sender)) >= snap[t].level

\* Why entries are vouched for, and within the limit: past its first lines an
\* ACCEPT saw room, and past its count enough invites, which stay counted.
EntryInv ==
  /\ invites \subseteq everInvited
  /\ \A t \in Task :
       /\ pc[t] = "idle" => ~snap[t].room
       /\ pc[t] \in {"countInvites", "findInviter", "acceptWrites"} => snap[t].room
       /\ pc[t] \in {"findInviter", "acceptWrites"} => Vouched(t)

LEMMA EntryInit == Init => EntryInv
  BY DEF Init, EntryInv, NoSnap

LEMMA InvitedOnly ==
  ASSUME NEW S \in SUBSET Phone, NEW T \in SUBSET Phone, S \subseteq T
  PROVE  Cardinality(S) \in Nat /\ Cardinality(T) \in Nat /\ Cardinality(S) <= Cardinality(T)
  BY TaskAssumption, FS_Subset, FS_CardinalityType

\* Invites are only ever added to those ever issued.
LEMMA InvitesRecorded ==
  ASSUME EntryInv, [Next]_vars
  PROVE  invites' \subseteq everInvited' /\ everInvited \subseteq everInvited'
  <1> USE DEF EntryInv, tables, history, Start
  <1>1. ASSUME NEW t \in Task, Arrive(t) PROVE invites' = invites /\ everInvited' = everInvited
    BY <1>1 DEF Arrive, Receive, ReceiveApiAdd, ReceiveIdentityFailure
  <1>2. ASSUME NEW t \in Task, InviteIssue(t)
        PROVE  invites' \subseteq everInvited' /\ everInvited \subseteq everInvited'
    BY <1>2 DEF InviteIssue
  <1>3. ASSUME NEW t \in Task, Step(t), ~InviteIssue(t)
        PROVE  invites' \subseteq invites /\ everInvited' = everInvited
    <2>1. CASE FetchChannel(t) \/ FetchSender(t) \/ DetectBanned(t) \/ Refuse(t) \/ Join(t)
               \/ Leave(t) \/ Decline(t) \/ SetVouchMode(t) \/ SetVouchLevel(t) \/ Abort(t)
      BY <2>1 DEF FetchChannel, FetchSender, DetectBanned, Refuse, Join, Leave, Decline,
         SetVouchMode, SetVouchLevel, Abort
    <2>2. CASE InviteFindBanned(t) \/ InviteIsMember(t) \/ AcceptIsMember(t)
               \/ AcceptCountInvites(t) \/ AcceptFindInviter(t) \/ AcceptAddSubscriber(t)
               \/ AcceptDeleteInvites(t)
      BY <2>2 DEF InviteFindBanned, InviteIsMember, AcceptIsMember, AcceptCountInvites,
         AcceptFindInviter, AcceptAddSubscriber, AcceptDeleteInvites
    <2>3. CASE AddTrust(t) \/ AddClearDeauth(t) \/ AddIsBanned(t) \/ AddReadChannel(t)
               \/ AddFindOrCreate(t) \/ AddPromote(t) \/ AddAdvanceNextId(t) \/ AddCommit(t)
      BY <2>3 DEF AddTrust, AddClearDeauth, AddIsBanned, AddReadChannel, AddFindOrCreate,
         AddPromote, AddAdvanceNextId, AddCommit
    <2>4. CASE RemoveResolveType(t) \/ RemoveWrite(t) \/ BanIsBanned(t) \/ BanCreate(t)
               \/ BanDestroyMembership(t) \/ RekeyResolveType(t) \/ RekeyRemoveMember(t)
               \/ RekeyDeauthorize(t)
      BY <2>4 DEF RemoveResolveType, RemoveWrite, BanIsBanned, BanCreate, BanDestroyMembership,
         RekeyResolveType, RekeyRemoveMember, RekeyDeauthorize
    <2> QED
      BY <1>3, <2>1, <2>2, <2>3, <2>4 DEF Step
  <1>4. CASE DeleteExpiredInvites \/ UNCHANGED vars
    BY <1>4 DEF DeleteExpiredInvites, vars
  <1> QED
    BY <1>1, <1>2, <1>3, <1>4 DEF Next

\* A step of t leaves what holds of the others, whoever is invited meanwhile.
LEMMA EntryKept ==
  ASSUME TypeOK, EntryInv, NEW t \in Task, Alone(t),
         invites' \subseteq everInvited', everInvited \subseteq everInvited',
         pc'[t] = "idle" => ~snap'[t].room,
         pc'[t] \in {"countInvites", "findInviter", "acceptWrites"} => snap'[t].room,
         pc'[t] \in {"findInviter", "acceptWrites"} => Vouched(t)'
  PROVE  EntryInv'
  <1>1. ASSUME NEW u \in Task, u # t, Vouched(u) PROVE Vouched(u)'
    <2>1. job'[u] = job[u] /\ snap'[u] = snap[u] /\ snap[u].level \in Nat
      BY <1>1 DEF Alone, TypeOK, Snap
    <2> DEFINE S == {i \in Phone : <<i, job[u].sender>> \in everInvited}
               T == {i \in Phone : <<i, job[u].sender>> \in everInvited'}
    <2>2. S \in SUBSET Phone /\ T \in SUBSET Phone /\ S \subseteq T
      OBVIOUS
    <2>3. Cardinality(S) \in Nat /\ Cardinality(T) \in Nat /\ Cardinality(S) <= Cardinality(T)
      <3> HIDE DEF S, T
      <3> QED
        BY <2>2, InvitedOnly
    <2>4. Vouched(u) <=> (snap[u].mode = "OFF" \/ Cardinality(S) >= snap[u].level)
      BY DEF Vouched, Vouchers
    <2>5. Vouched(u)' <=> (snap[u].mode = "OFF" \/ Cardinality(T) >= snap[u].level)
      BY <2>1 DEF Vouched, Vouchers
    <2> HIDE DEF S, T
    <2> QED
      BY <1>1, <2>1, <2>3, <2>4, <2>5
  <1> QED
    BY <1>1 DEF EntryInv, Alone

LEMMA EntryNext == TypeOK /\ EntryInv /\ [Next]_vars => EntryInv'
  <1> SUFFICES ASSUME TypeOK, EntryInv, [Next]_vars PROVE EntryInv'
    OBVIOUS
  <1>1. invites' \subseteq everInvited' /\ everInvited \subseteq everInvited'
    BY InvitesRecorded
  <1>2. ASSUME NEW t \in Task, Alone(t), Returns(t) \/ TurnsAway(t) PROVE EntryInv'
    BY <1>1, <1>2, EntryKept DEF Returns, TurnsAway, Entering, NoSnap, Pc
  <1>3. ASSUME NEW t \in Task, Finish(t) PROVE EntryInv'
    <2>1. Alone(t) /\ Returns(t)
      BY <1>3 DEF TypeOK, Finish, Alone, Returns
    <2> QED
      BY <1>2, <2>1
  <1>4. ASSUME NEW t \in Task, Receive(t) PROVE EntryInv'
    <2>1. Alone(t) /\ pc'[t] = "fetch"
      BY <1>4 DEF Receive, Start, TypeOK, Alone
    <2> QED
      BY <1>1, <2>1, EntryKept
  <1>5. ASSUME NEW t \in Task, FetchChannel(t) \/ FetchSender(t) PROVE EntryInv'
    <2>1. Alone(t) /\ pc'[t] = "fetch"
      BY <1>5 DEF FetchChannel, FetchSender, TypeOK, Alone
    <2> QED
      BY <1>1, <2>1, EntryKept
  <1>6. ASSUME NEW t \in Task, NEW l \in Pc \ {"idle"}, Goto(t, l),
               l \in {"countInvites", "findInviter", "acceptWrites"} => snap[t].room,
               l \in {"findInviter", "acceptWrites"} => Vouched(t)'
        PROVE  EntryInv'
    <2>1. Alone(t) /\ pc'[t] = l /\ snap' = snap
      BY <1>6 DEF Goto, TypeOK, Alone
    <2> QED
      BY <1>1, <1>6, <2>1, EntryKept
  <1>7. ASSUME NEW t \in Task, DetectBanned(t) PROVE EntryInv'
    <2>1. Finish(t) \/ Goto(t, "execute")
      BY <1>7 DEF DetectBanned, Proceed
    <2> QED
      BY <1>3, <1>6, <2>1 DEF Pc
  <1>8. ASSUME NEW t \in Task, AcceptIsMember(t) PROVE EntryInv'
    <2>1. Finish(t) \/ (Goto(t, "countInvites") /\ snap[t].room)
      BY <1>8 DEF AcceptIsMember, Proceed, Runs, Permitted
    <2> QED
      BY <1>3, <1>6, <2>1 DEF Pc
  <1>9. ASSUME NEW t \in Task, AcceptCountInvites(t) PROVE EntryInv'
    <2>1. Finish(t) \/ (Goto(t, "findInviter") /\ EnoughVouches(t))
      BY <1>9 DEF AcceptCountInvites, Proceed
    <2>2. pc[t] = "countInvites" /\ snap[t].room /\ snap[t].level \in Nat
      BY <1>9 DEF AcceptCountInvites, EntryInv, TypeOK, Snap
    <2>3. ASSUME Goto(t, "findInviter"), EnoughVouches(t) PROVE Vouched(t)'
      <3>1. job' = job /\ snap' = snap
        BY <2>3 DEF Goto
      <3> DEFINE S == {i \in Phone : <<i, job[t].sender>> \in invites}
                 T == {i \in Phone : <<i, job[t].sender>> \in everInvited'}
      <3>2. S \in SUBSET Phone /\ T \in SUBSET Phone /\ S \subseteq T
        BY <1>1, <1>9 DEF EntryInv
      <3>3. Cardinality(S) \in Nat /\ Cardinality(T) \in Nat /\ Cardinality(S) <= Cardinality(T)
        <4> HIDE DEF S, T
        <4> QED
          BY <3>2, InvitedOnly
      <3>4. EnoughVouches(t) <=> (snap[t].mode = "OFF" \/ Cardinality(S) >= snap[t].level)
        BY DEF EnoughVouches, Inviters
      <3>5. Vouched(t)' <=> (snap[t].mode = "OFF" \/ Cardinality(T) >= snap[t].level)
        BY <3>1 DEF Vouched, Vouchers
      <3> HIDE DEF S, T
      <3> QED
        BY <2>2, <2>3, <3>3, <3>4, <3>5
    <2> QED
      BY <1>3, <1>6, <2>1, <2>2, <2>3 DEF Pc
  <1>10. ASSUME NEW t \in Task, AcceptFindInviter(t) \/ AcceptDeleteInvites(t) \/ AcceptAddSubscriber(t)
         PROVE  EntryInv'
    <2>1. pc[t] \in {"findInviter", "acceptWrites"} /\ snap[t].room /\ Vouched(t)
      BY <1>10 DEF AcceptFindInviter, AcceptDeleteInvites, AcceptAddSubscriber, EntryInv
    <2>2. Finish(t) \/ (Alone(t) /\ pc'[t] = "acceptWrites" /\ job' = job /\ snap' = snap
                          /\ everInvited' = everInvited)
      BY <1>10 DEF AcceptFindInviter, AcceptDeleteInvites, AcceptAddSubscriber, Settle, TypeOK,
         Alone, history
    <2>3. CASE Alone(t) /\ pc'[t] = "acceptWrites" /\ job' = job /\ snap' = snap
               /\ everInvited' = everInvited
      <3>1. Vouched(t)'
        BY <2>1, <2>3 DEF Vouched, Vouchers
      <3> QED
        BY <1>1, <2>1, <2>3, <3>1, EntryKept
    <2> QED
      BY <1>3, <2>2, <2>3
  <1>11. CASE DeleteExpiredInvites \/ UNCHANGED vars
    <2>1. pc' = pc /\ job' = job /\ snap' = snap /\ everInvited' = everInvited
      BY <1>11 DEF DeleteExpiredInvites, vars, handlers, history
    <2> QED
      BY <1>1, <2>1 DEF EntryInv, Vouched, Vouchers
  <1>12. ASSUME NEW t \in Task, Arrive(t) \/ Step(t) PROVE EntryInv'
    BY <1>2, <1>4, <1>5, <1>7, <1>8, <1>9, <1>10, <1>12, StepShape DEF Enters
  <1> QED
    BY <1>11, <1>12 DEF Next

\* No other statement than the insert of a JOIN or an ACCEPT makes a subscriber.
LEMMA OnlyEntrySubscribes ==
  ASSUME TypeOK, [Next]_vars, NEW p \in Phone, memberType[p] # "SUBSCRIBER",
         memberType'[p] = "SUBSCRIBER"
  PROVE  \E t \in Task : (Join(t) \/ AcceptAddSubscriber(t)) /\ job[t].sender = p
  <1> USE DEF TypeOK, tables, Start, DeleteMember
  <1>1. \A t \in Task : ~Arrive(t)
    BY DEF Arrive, Receive, ReceiveApiAdd, ReceiveIdentityFailure
  <1>2. ~DeleteExpiredInvites /\ ~UNCHANGED vars
    BY DEF DeleteExpiredInvites, vars
  <1>3. ASSUME NEW t \in Task
        PROVE  /\ ~FetchChannel(t) /\ ~FetchSender(t) /\ ~DetectBanned(t)
               /\ ~Refuse(t) /\ ~Abort(t)
               /\ ~Decline(t) /\ ~SetVouchMode(t) /\ ~SetVouchLevel(t)
    BY DEF FetchChannel, FetchSender, DetectBanned, Refuse, Abort, Decline,
           SetVouchMode, SetVouchLevel
  <1>4. ASSUME NEW t \in Task
        PROVE  /\ ~InviteFindBanned(t) /\ ~InviteIsMember(t) /\ ~InviteIssue(t)
               /\ ~AcceptIsMember(t) /\ ~AcceptCountInvites(t)
               /\ ~AcceptFindInviter(t) /\ ~AcceptDeleteInvites(t)
    BY DEF InviteFindBanned, InviteIsMember, InviteIssue, AcceptIsMember,
           AcceptCountInvites, AcceptFindInviter, AcceptDeleteInvites
  <1>5. ASSUME NEW t \in Task
        PROVE  /\ ~AddTrust(t) /\ ~AddClearDeauth(t) /\ ~AddIsBanned(t)
               /\ ~AddReadChannel(t) /\ ~AddFindOrCreate(t) /\ ~AddPromote(t)
               /\ ~AddAdvanceNextId(t)
    BY DEF AddTrust, AddClearDeauth, AddIsBanned, AddReadChannel, AddFindOrCreate,
           AddPromote, AddAdvanceNextId
  <1>6. ASSUME NEW t \in Task
        PROVE  /\ ~RemoveResolveType(t) /\ ~BanIsBanned(t) /\ ~BanCreate(t)
               /\ ~RekeyResolveType(t) /\ ~RekeyDeauthorize(t) /\ ~AddCommit(t)
    BY DEF RemoveResolveType, BanIsBanned, BanCreate, RekeyResolveType,
           RekeyDeauthorize, AddCommit
  <1>7. ASSUME NEW t \in Task
        PROVE  /\ ~Leave(t) /\ ~RemoveWrite(t) /\ ~BanDestroyMembership(t)
               /\ ~RekeyRemoveMember(t)
    BY DEF Leave, RemoveWrite, BanDestroyMembership, RekeyRemoveMember
  <1>8. ASSUME NEW t \in Task, Join(t) \/ AcceptAddSubscriber(t) PROVE job[t].sender = p
    BY <1>8 DEF Join, AcceptAddSubscriber, AddSubscriber
  <1> QED
    BY <1>1, <1>2, <1>3, <1>4, <1>5, <1>6, <1>7, <1>8 DEF Next, Step

\* Whoever enters had joined while vouching was off, or had been vouched for.
LEMMA EntryStep ==
  ASSUME TypeOK, EntryInv, [Next]_vars, NEW p \in Phone,
         memberType[p] # "SUBSCRIBER", memberType'[p] = "SUBSCRIBER"
  PROVE  \E t \in Task :
           /\ job[t].sender = p
           /\ \/ snap[t].mode = "OFF"
              \/ Cardinality({i \in Phone : <<i, p>> \in everInvited}) >= snap[t].level
  <1>1. PICK t \in Task : (Join(t) \/ AcceptAddSubscriber(t)) /\ job[t].sender = p
    BY OnlyEntrySubscribes
  <1>2. CASE Join(t)
    BY <1>1, <1>2 DEF Join, Runs, Permitted
  <1>3. CASE AcceptAddSubscriber(t)
    BY <1>1, <1>3 DEF AcceptAddSubscriber, EntryInv, Vouched, Vouchers
  <1> QED
    BY <1>1, <1>2, <1>3

-----------------------------------------------------------------------------
(* The subscriber limit.                                                   *)

\* Handlers that saw room and may still insert a subscriber.
Admits(t) ==
  /\ snap[t].room
  /\ \/ pc[t] \in {"fetch", "execute", "countInvites", "findInviter"}
     \/ pc[t] = "acceptWrites" /\ "member" \in pending[t]
Admitting == {t \in Task : Admits(t)}

\* Why the limit is exceeded by less than the handlers there are: each of them,
\* when it saw room, left room for itself beside all the others.
LimitInv ==
  Cardinality(Subscribers) + Cardinality(Admitting) <= SubscriberLimit + Cardinality(Task) - 1

LEMMA Numbers ==
  /\ \A S \in SUBSET Phone : IsFiniteSet(S) /\ Cardinality(S) \in Nat
  /\ \A S \in SUBSET Task :
       IsFiniteSet(S) /\ Cardinality(S) \in Nat /\ Cardinality(S) <= Cardinality(Task)
  /\ Cardinality(Task) \in Nat /\ SubscriberLimit \in Nat \ {0}
  BY TaskAssumption, LimitAssumption, FS_Subset, FS_CardinalityType

LEMMA LimitInit == Init => LimitInv
  <1> SUFFICES ASSUME Init PROVE LimitInv
    OBVIOUS
  <1>1. Subscribers = {} /\ Admitting = {}
    BY DEF Init, Subscribers, Admitting, Admits, NoSnap
  <1> QED
    BY <1>1, Numbers, FS_EmptySet DEF LimitInv

\* Neither grows.
LEMMA LimitKept ==
  ASSUME LimitInv, Subscribers' \subseteq Subscribers, Admitting' \subseteq Admitting
  PROVE  LimitInv'
  <1>1. Subscribers \in SUBSET Phone /\ Admitting \in SUBSET Task
    BY DEF Subscribers, Admitting
  <1>2. PICK s \in Nat, a \in Nat, m \in Nat, b \in Nat :
          /\ s = Cardinality(Subscribers) /\ m = Cardinality(Subscribers)'
          /\ a = Cardinality(Admitting) /\ b = Cardinality(Admitting)'
          /\ m <= s /\ b <= a
    <2>1. IsFiniteSet(Subscribers) /\ IsFiniteSet(Admitting)
      BY <1>1, Numbers
    <2> QED
      BY <2>1, FS_Subset, FS_CardinalityType
  <1> QED
    BY <1>2, Numbers DEF LimitInv

\* One subscriber more, and one handler fewer that may insert one.
LEMMA LimitMoves ==
  ASSUME LimitInv, NEW p, Subscribers' \subseteq Subscribers \cup {p},
         NEW t \in Admitting, Admitting' \subseteq Admitting \ {t}
  PROVE  LimitInv'
  <1>1. Subscribers \in SUBSET Phone /\ Admitting \in SUBSET Task
    BY DEF Subscribers, Admitting
  <1>2. IsFiniteSet(Subscribers) /\ IsFiniteSet(Admitting)
    BY <1>1, Numbers
  <1>3. PICK s \in Nat, m \in Nat :
          s = Cardinality(Subscribers) /\ m = Cardinality(Subscribers') /\ m <= s + 1
    <2>1. PICK s \in Nat : s = Cardinality(Subscribers)
      BY <1>2, FS_CardinalityType
    <2>2. IsFiniteSet(Subscribers \cup {p})
          /\ (Cardinality(Subscribers \cup {p}) = s \/ Cardinality(Subscribers \cup {p}) = s + 1)
      BY <1>2, <2>1, FS_AddElement
    <2>3. PICK n \in Nat : n = Cardinality(Subscribers \cup {p}) /\ n <= s + 1
      BY <2>1, <2>2
    <2>4. IsFiniteSet(Subscribers') /\ Cardinality(Subscribers') <= n
      BY <2>2, <2>3, FS_Subset
    <2>5. PICK m \in Nat : m = Cardinality(Subscribers')
      BY <2>4, FS_CardinalityType
    <2> QED
      BY <2>1, <2>3, <2>4, <2>5
  <1>4. PICK a \in Nat, b \in Nat :
          a = Cardinality(Admitting) /\ b = Cardinality(Admitting)' /\ b + 1 <= a
    <2>1. IsFiniteSet(Admitting \ {t})
          /\ Cardinality(Admitting \ {t}) = Cardinality(Admitting) - 1
      BY <1>2, FS_RemoveElement
    <2> QED
      BY <1>2, <2>1, FS_Subset, FS_CardinalityType
  <1> QED
    BY <1>3, <1>4, Numbers DEF LimitInv

LEMMA LimitNext == TypeOK /\ EntryInv /\ LimitInv /\ [Next]_vars => LimitInv'
  <1> SUFFICES ASSUME TypeOK, EntryInv, LimitInv, [Next]_vars PROVE LimitInv'
    OBVIOUS
  <1>1. ASSUME NEW t \in Task, Alone(t), Admits(t)' => Admits(t) PROVE Admitting' \subseteq Admitting
    BY <1>1 DEF Admitting, Alone, Admits
  <1>2. ASSUME NEW t \in Task, Finish(t) PROVE Alone(t) /\ ~Admits(t)'
    BY <1>2 DEF TypeOK, Finish, Alone, Admits, NoSnap
  <1>3. CASE \E t \in Task : Join(t)
    <2>1. PICK t \in Task : Join(t)
      BY <1>3
    <2>2. t \in Admitting
      BY <2>1 DEF Join, Runs, Permitted, Admitting, Admits
    <2>3. Alone(t) /\ ~Admits(t)'
      BY <1>2, <2>1 DEF Join
    <2>4. Admitting' \subseteq Admitting \ {t}
      BY <1>1, <2>3 DEF Admitting
    <2>5. Subscribers' \subseteq Subscribers \cup {job[t].sender}
      BY <2>1 DEF Join, AddSubscriber, Subscribers, TypeOK
    <2> QED
      BY <2>2, <2>4, <2>5, LimitMoves
  <1>4. CASE \E t \in Task : AcceptAddSubscriber(t)
    <2>1. PICK t \in Task : AcceptAddSubscriber(t)
      BY <1>4
    <2>2. t \in Admitting
      BY <2>1 DEF AcceptAddSubscriber, EntryInv, Admitting, Admits
    <2>3. Alone(t) /\ ~Admits(t)'
      <3>1. CASE Finish(t)
        BY <1>2, <3>1
      <3>2. CASE pending' = [pending EXCEPT ![t] = @ \ {"member"}] /\ pc' = pc /\ job' = job
                 /\ snap' = snap
        BY <2>1, <3>2 DEF AcceptAddSubscriber, TypeOK, Alone, Admits
      <3> QED
        BY <2>1, <3>1, <3>2 DEF AcceptAddSubscriber, Settle
    <2>4. Admitting' \subseteq Admitting \ {t}
      BY <1>1, <2>3 DEF Admitting
    <2>5. Subscribers' \subseteq Subscribers \cup {job[t].sender}
      BY <2>1 DEF AcceptAddSubscriber, AddSubscriber, Subscribers, TypeOK
    <2> QED
      BY <2>2, <2>4, <2>5, LimitMoves
  <1>5. CASE \E t \in Task : FetchChannel(t)
    <2>1. PICK t \in Task : FetchChannel(t)
      BY <1>5
    <2>2. memberType' = memberType
      BY <2>1 DEF FetchChannel, tables
    <2>3. Subscribers' = Subscribers
      BY <2>2 DEF Subscribers
    <2>4. CASE CanAddSubscribers
      <3>1. Subscribers \in SUBSET Phone /\ Admitting' \in SUBSET Task
        BY DEF Subscribers, Admitting
      <3>2. PICK s \in Nat, b \in Nat, n \in Nat :
              s = Cardinality(Subscribers) /\ b = Cardinality(Admitting') /\ n = Cardinality(Task)
                /\ b <= n
        BY <3>1, Numbers
      <3>3. s + 1 <= SubscriberLimit
        BY <2>4, <3>2 DEF CanAddSubscribers
      <3>4. s + b <= SubscriberLimit + n - 1
        BY <3>2, <3>3, Numbers
      <3> QED
        BY <2>3, <3>2, <3>4 DEF LimitInv
    <2>5. CASE ~CanAddSubscribers
      <3>1. Alone(t) /\ ~snap'[t].room
        BY <2>1, <2>5 DEF FetchChannel, TypeOK, Alone
      <3> QED
        BY <1>1, <2>3, <3>1, LimitKept DEF Admits
    <2> QED
      BY <2>4, <2>5
  <1>6. ASSUME NEW t \in Task, Arrive(t) \/ Step(t), ~FetchChannel(t), ~AcceptAddSubscriber(t)
        PROVE  Alone(t) /\ (Admits(t)' => Admits(t))
    <2>1. CASE Alone(t) /\ (Returns(t) \/ TurnsAway(t))
      BY <2>1 DEF Returns, TurnsAway, Entering, Admits, NoSnap
    <2>2. CASE Receive(t)
      BY <2>2 DEF Receive, Start, TypeOK, Alone, Admits, EntryInv
    <2>3. CASE FetchSender(t)
      <3>1. Alone(t) /\ pc' = pc
        BY <2>3 DEF FetchSender, TypeOK, Alone
      <3>2. snap'[t].room = snap[t].room /\ pc[t] = "fetch"
        BY <2>3 DEF FetchSender, TypeOK, Snap
      <3> QED
        BY <3>1, <3>2 DEF Admits
    <2>4. CASE DetectBanned(t) \/ AcceptIsMember(t) \/ AcceptCountInvites(t) \/ AcceptFindInviter(t)
      <3>1. pc[t] \in {"fetch", "execute", "countInvites", "findInviter"}
        BY <2>4 DEF DetectBanned, AcceptIsMember, Runs, AcceptCountInvites, AcceptFindInviter
      <3>2. Finish(t) \/ (Alone(t) /\ snap' = snap)
        BY <2>4 DEF DetectBanned, AcceptIsMember, AcceptCountInvites, AcceptFindInviter, Proceed,
           Goto, TypeOK, Alone
      <3> QED
        BY <1>2, <3>1, <3>2 DEF Admits
    <2>5. CASE AcceptDeleteInvites(t)
      <3>1. CASE Finish(t)
        BY <1>2, <3>1
      <3>2. CASE pending' = [pending EXCEPT ![t] = @ \ {"invites"}] /\ pc' = pc /\ job' = job
                 /\ snap' = snap
        BY <3>2 DEF TypeOK, Alone, Admits
      <3> QED
        BY <2>5, <3>1, <3>2 DEF AcceptDeleteInvites, Settle
    <2> QED
      BY <1>6, <2>1, <2>2, <2>3, <2>4, <2>5, StepShape DEF Enters
  <1>7. CASE \E t \in Task : (Arrive(t) \/ Step(t)) /\ ~Join(t) /\ ~AcceptAddSubscriber(t)
                               /\ ~FetchChannel(t)
    <2>1. PICK t \in Task : (Arrive(t) \/ Step(t)) /\ ~FetchChannel(t) /\ ~AcceptAddSubscriber(t)
      BY <1>7
    <2>2. Admitting' \subseteq Admitting
      BY <1>1, <1>6, <2>1
    <2>3. CASE \A u \in Task : ~Join(u) /\ ~AcceptAddSubscriber(u)
      <3>1. Subscribers' \subseteq Subscribers
        BY <2>3, OnlyEntrySubscribes DEF Subscribers
      <3> QED
        BY <2>2, <3>1, LimitKept
    <2> QED
      BY <1>3, <1>4, <2>3
  <1>8. CASE DeleteExpiredInvites \/ UNCHANGED vars
    <2>1. memberType' = memberType /\ pc' = pc /\ snap' = snap /\ pending' = pending
      BY <1>8 DEF DeleteExpiredInvites, vars, handlers, tables
    <2> QED
      BY <2>1, LimitKept DEF Subscribers, Admitting, Admits
  <1> QED
    BY <1>3, <1>4, <1>5, <1>7, <1>8 DEF Next

-----------------------------------------------------------------------------
(* Ids of admins: while the ADDs do not overlap, no two admins share one.    *)

\* A task is in the transaction of an ADD, from its read of the channel on.
AddsNow(t) == pc[t] \in {"addFind", "addPromote", "addAdvance", "addCommit"}

\* No two ADDs are between their read of nextAdminId and their commit.
OneAddAtATime == \A t, u \in Task : AddsNow(t) /\ AddsNow(u) => t = u

\* The admins of the channel are told apart by their ids, and the next id is free.
AdminsNumbered ==
  \A p \in Phone : memberType[p] = "ADMIN" =>
    /\ adminId[p] \in 1..(nextAdminId - 1)
    /\ \A q \in Phone : memberType[q] = "ADMIN" /\ adminId[q] = adminId[p] => q = p

\* Why they are: an ADD in its transaction holds the next id, which nobody has.
IdsInv ==
  /\ AdminsNumbered
  /\ \A p \in Phone : memberType[p] # "ADMIN" => adminId[p] = 0
  /\ \A t \in Task : AddsNow(t) =>
       readId[t] = IF pc[t] = "addCommit" THEN nextAdminId - 1 ELSE nextAdminId
  /\ \A t \in Task : pc[t] = "addCommit" =>
       readId[t] > 0 /\ \A p \in Phone : adminId[p] < readId[t]

\* The founders are numbered in the order they were named.
LEMMA IdsInit == Init => IdsInv
  <1> SUFFICES ASSUME Init PROVE IdsInv
    OBVIOUS
  <1>1. \A p \in Phone : IsFounder(p) =>
          FounderId(p) \in DOMAIN Founders /\ Founders[FounderId(p)] = p
    BY DEF IsFounder, FounderId
  <1>2. DOMAIN Founders = 1..Len(Founders) /\ Len(Founders) \in Nat
    BY FoundersAssumption
  <1>3. ASSUME NEW p \in Phone, memberType[p] = "ADMIN"
        PROVE  IsFounder(p) /\ adminId[p] = FounderId(p)
    BY <1>3 DEF Init
  <1>4. AdminsNumbered
    <2>1. ASSUME NEW p \in Phone, memberType[p] = "ADMIN"
          PROVE  adminId[p] \in 1..(nextAdminId - 1)
      BY <1>1, <1>2, <1>3, <2>1 DEF Init
    <2>2. ASSUME NEW p \in Phone, NEW q \in Phone, memberType[p] = "ADMIN",
                 memberType[q] = "ADMIN", adminId[q] = adminId[p]
          PROVE  q = p
      BY <1>1, <1>3, <2>2
    <2> QED
      BY <2>1, <2>2 DEF AdminsNumbered
  <1>5. \A p \in Phone : memberType[p] # "ADMIN" => adminId[p] = 0
    BY DEF Init
  <1>6. \A t \in Task : ~AddsNow(t) /\ pc[t] # "addCommit"
    BY DEF Init, AddsNow
  <1> QED
    BY <1>4, <1>5, <1>6 DEF IdsInv

\* Whoever is deleted gives an id up, and a subscriber who joins has none.
LEMMA IdsKept ==
  ASSUME TypeOK, IdsInv,
         \/ UNCHANGED <<memberType, adminId>>
         \/ \E p \in Phone : DeleteMember(p)
         \/ \E p \in Phone : AddSubscriber(p) /\ UNCHANGED adminId,
         UNCHANGED nextAdminId,
         \A t \in Task : AddsNow(t)' => AddsNow(t) /\ readId'[t] = readId[t]
                            /\ (pc'[t] = "addCommit" <=> pc[t] = "addCommit")
  PROVE  IdsInv'
  <1> USE DEF TypeOK
  <1>1. \A p \in Phone : memberType'[p] = "ADMIN" =>
          memberType[p] = "ADMIN" /\ adminId'[p] = adminId[p]
    BY DEF DeleteMember, AddSubscriber
  <1>2. \A p \in Phone : memberType'[p] # "ADMIN" => adminId'[p] = 0
    BY DEF DeleteMember, AddSubscriber, IdsInv
  <1>3. AdminsNumbered'
    BY <1>1 DEF IdsInv, AdminsNumbered
  <1>4. \A p \in Phone : adminId'[p] \in {0, adminId[p]}
    BY DEF DeleteMember, AddSubscriber
  <1>5. \A t \in Task : pc'[t] = "addCommit" => AddsNow(t)'
    BY DEF AddsNow
  <1>6. \A t \in Task : AddsNow(t)' =>
          readId'[t] = IF pc'[t] = "addCommit" THEN nextAdminId' - 1 ELSE nextAdminId'
    BY DEF IdsInv
  <1>7. ASSUME NEW t \in Task, pc'[t] = "addCommit"
        PROVE  readId'[t] > 0 /\ \A p \in Phone : adminId'[p] < readId'[t]
    BY <1>4, <1>5, <1>7 DEF IdsInv
  <1> QED
    BY <1>2, <1>3, <1>6, <1>7 DEF IdsInv

\* Every step keeps the ids apart, if no two ADDs are in their transactions.
LEMMA IdsNext ==
  TypeOK /\ ControlOK /\ IdsInv /\ OneAddAtATime /\ [Next]_vars => IdsInv'
  <1> SUFFICES ASSUME TypeOK, ControlOK, IdsInv, OneAddAtATime, [Next]_vars
               PROVE  IdsInv'
    OBVIOUS
  <1> USE DEF TypeOK, AddsNow, tables, handlers, history,
              Runs, Proceed, Goto, Finish, NoJob, Settle, Start
  <1>1. ASSUME NEW t \in Task, FetchChannel(t) PROVE IdsInv'
    BY <1>1, IdsKept DEF FetchChannel
  <1>2. ASSUME NEW t \in Task, FetchSender(t) PROVE IdsInv'
    BY <1>2, IdsKept DEF FetchSender
  <1>3. ASSUME NEW t \in Task, DetectBanned(t) PROVE IdsInv'
    BY <1>3, IdsKept DEF DetectBanned
  <1>4. ASSUME NEW t \in Task, Refuse(t) PROVE IdsInv'
    BY <1>4, IdsKept DEF Refuse
  <1>5. ASSUME NEW t \in Task, Join(t) PROVE IdsInv'
    <2>1. PICK p \in Phone : p = job[t].sender
      BY <1>5, TaskNumbers DEF Join, CommandsAt, AllCommands
    <2>2. AddSubscriber(p) /\ UNCHANGED adminId
      BY <1>5, <2>1 DEF Join, AddSubscriber, DeleteMember
    <2> QED
      BY <1>5, <2>2, IdsKept DEF Join
  <1>6. ASSUME NEW t \in Task, Leave(t) PROVE IdsInv'
    <2>1. PICK p \in Phone : p = job[t].sender
      BY <1>6, TaskNumbers DEF Leave, CommandsAt, AllCommands
    <2>2. DeleteMember(p)
      BY <1>6, <2>1 DEF Leave, AddSubscriber, DeleteMember
    <2> QED
      BY <1>6, <2>2, IdsKept DEF Leave
  <1>7. ASSUME NEW t \in Task, Decline(t) PROVE IdsInv'
    BY <1>7, IdsKept DEF Decline
  <1>8. ASSUME NEW t \in Task, SetVouchMode(t) PROVE IdsInv'
    BY <1>8, IdsKept DEF SetVouchMode
  <1>9. ASSUME NEW t \in Task, SetVouchLevel(t) PROVE IdsInv'
    BY <1>9, IdsKept DEF SetVouchLevel
  <1>10. ASSUME NEW t \in Task, InviteFindBanned(t) PROVE IdsInv'
    BY <1>10, IdsKept DEF InviteFindBanned
  <1>11. ASSUME NEW t \in Task, InviteIsMember(t) PROVE IdsInv'
    BY <1>11, IdsKept DEF InviteIsMember
  <1>12. ASSUME NEW t \in Task, InviteIssue(t) PROVE IdsInv'
    BY <1>12, IdsKept DEF InviteIssue
  <1>13. ASSUME NEW t \in Task, AcceptIsMember(t) PROVE IdsInv'
    BY <1>13, IdsKept DEF AcceptIsMember
  <1>14. ASSUME NEW t \in Task, AcceptCountInvites(t) PROVE IdsInv'
    BY <1>14, IdsKept DEF AcceptCountInvites
  <1>15. ASSUME NEW t \in Task, AcceptFindInviter(t) PROVE IdsInv'
    BY <1>15, IdsKept DEF AcceptFindInviter
  <1>16. ASSUME NEW t \in Task, AcceptAddSubscriber(t) PROVE IdsInv'
    <2>1. PICK p \in Phone : p = job[t].sender
      BY <1>16, TaskNumbers DEF AcceptAddSubscriber, CommandsAt, AllCommands
    <2>2. AddSubscriber(p) /\ UNCHANGED adminId
      BY <1>16, <2>1 DEF AcceptAddSubscriber, AddSubscriber, DeleteMember
    <2> QED
      BY <1>16, <2>2, IdsKept DEF AcceptAddSubscriber
  <1>17. ASSUME NEW t \in Task, AcceptDeleteInvites(t) PROVE IdsInv'
    BY <1>17, IdsKept DEF AcceptDeleteInvites
  <1>18. ASSUME NEW t \in Task, AddTrust(t) PROVE IdsInv'
    BY <1>18, IdsKept DEF AddTrust
  <1>19. ASSUME NEW t \in Task, AddClearDeauth(t) PROVE IdsInv'
    BY <1>19, IdsKept DEF AddClearDeauth
  <1>20. ASSUME NEW t \in Task, AddIsBanned(t) PROVE IdsInv'
    BY <1>20, IdsKept DEF AddIsBanned
  <1>21. ASSUME NEW t \in Task, AddReadChannel(t) PROVE IdsInv'
    BY <1>21 DEF AddReadChannel, IdsInv, AdminsNumbered
  <1>22. ASSUME NEW t \in Task, AddFindOrCreate(t) PROVE IdsInv'
    BY <1>22 DEF AddFindOrCreate, Write, IdsInv, AdminsNumbered
  <1>23. ASSUME NEW t \in Task, AddPromote(t) PROVE IdsInv'
    BY <1>23 DEF AddPromote, Write, IdsInv, AdminsNumbered
  <1>24. ASSUME NEW t \in Task, AddAdvanceNextId(t) PROVE IdsInv'
    BY <1>24 DEF AddAdvanceNextId, IdsInv, AdminsNumbered, OneAddAtATime
  <1>25. ASSUME NEW t \in Task, AddCommit(t) PROVE IdsInv'
    BY <1>25, TaskNumbers DEF AddCommit, IdsInv, AdminsNumbered, OneAddAtATime
  <1>26. ASSUME NEW t \in Task, RemoveResolveType(t) PROVE IdsInv'
    BY <1>26, IdsKept DEF RemoveResolveType
  <1>27. ASSUME NEW t \in Task, RemoveWrite(t) PROVE IdsInv'
    <2>1. PICK p \in Phone : p = job[t].target
      BY <1>27, TaskNumbers DEF RemoveWrite, CommandsAt, AllCommands
    <2>2. DeleteMember(p)
      BY <1>27, <2>1 DEF RemoveWrite, AddSubscriber, DeleteMember
    <2> QED
      BY <1>27, <2>2, IdsKept DEF RemoveWrite
  <1>28. ASSUME NEW t \in Task, BanIsBanned(t) PROVE IdsInv'
    BY <1>28, IdsKept DEF BanIsBanned
  <1>29. ASSUME NEW t \in Task, BanCreate(t) PROVE IdsInv'
    BY <1>29, IdsKept DEF BanCreate
  <1>30. ASSUME NEW t \in Task, BanDestroyMembership(t) PROVE IdsInv'
    <2>1. PICK p \in Phone : p = job[t].target
      BY <1>30, TaskNumbers DEF BanDestroyMembership, CommandsAt, AllCommands
    <2>2. DeleteMember(p)
      BY <1>30, <2>1 DEF BanDestroyMembership, AddSubscriber, DeleteMember
    <2> QED
      BY <1>30, <2>2, IdsKept DEF BanDestroyMembership
  <1>31. ASSUME NEW t \in Task, RekeyResolveType(t) PROVE IdsInv'
    BY <1>31, IdsKept DEF RekeyResolveType
  <1>32. ASSUME NEW t \in Task, RekeyRemoveMember(t) PROVE IdsInv'
    <2>1. PICK p \in Phone : p = job[t].target
      BY <1>32, TaskNumbers DEF RekeyRemoveMember, CommandsAt, AllCommands
    <2>2. DeleteMember(p)
      BY <1>32, <2>1 DEF RekeyRemoveMember, AddSubscriber, DeleteMember
    <2> QED
      BY <1>32, <2>2, IdsKept DEF RekeyRemoveMember
  <1>33. ASSUME NEW t \in Task, RekeyDeauthorize(t) PROVE IdsInv'
    BY <1>33, IdsKept DEF RekeyDeauthorize
  <1>34. ASSUME NEW t \in Task, Abort(t) PROVE IdsInv'
    BY <1>34, IdsKept DEF Abort
  <1>35. ASSUME NEW t \in Task, Receive(t) PROVE IdsInv'
    BY <1>35, IdsKept DEF Receive
  <1>36. ASSUME NEW t \in Task, ReceiveApiAdd(t) PROVE IdsInv'
    BY <1>36, IdsKept DEF ReceiveApiAdd
  <1>37. ASSUME NEW t \in Task, ReceiveIdentityFailure(t) PROVE IdsInv'
    BY <1>37, IdsKept DEF ReceiveIdentityFailure
  <1>38. CASE DeleteExpiredInvites
    BY <1>38, IdsKept DEF DeleteExpiredInvites
  <1>39. CASE UNCHANGED vars
    BY <1>39, IdsKept DEF vars
  <1> QED
    BY <1>1, <1>2, <1>3, <1>4, <1>5, <1>6, <1>7, <1>8, <1>9, <1>10, <1>11,
       <1>12, <1>13, <1>14, <1>15, <1>16, <1>17, <1>18, <1>19, <1>20, <1>21,
       <1>22, <1>23, <1>24, <1>25, <1>26, <1>27, <1>28, <1>29, <1>30, <1>31,
       <1>32, <1>33, <1>34, <1>35, <1>36, <1>37, <1>38, <1>39 DEF Next,
       Arrive, Step

-----------------------------------------------------------------------------
(* The theorems. *)

\* The inductive invariant.
Inv ==
  /\ TypeOK /\ ControlOK /\ BansInv /\ DeauthsInv /\ AppointInv
  /\ EntryInv /\ LimitInv

\* The conjunction of the parts is inductive, and holds in every behaviour.
LEMMA Invariance == Spec => []Inv
  <1>1. Init => Inv
    BY TypeInit, ControlInit, BansInit, DeauthsInit, AppointInit, EntryInit, LimitInit DEF Inv
  <1>2. Inv /\ [Next]_vars => Inv'
    BY TypeNext, ControlNext, BansNext, DeauthsNext, AppointNext, EntryNext, LimitNext DEF Inv
  <1> QED
    BY <1>1, <1>2, PTL DEF Spec

\* Every variable keeps its type, whatever the handlers interleave.
THEOREM TypeCorrect == Spec => []TypeOK
  BY Invariance, PTL DEF Inv

\* No interleaving of commands undoes a ban that was carried out while no handler
\* of the number was past its ban check.
THEOREM BansHold == Spec => []SettledBansHold
  <1>1. Inv => SettledBansHold
    BY DEF Inv, BansInv, SettledBansHold
  <1> QED
    BY Invariance, <1>1, PTL

\* No interleaving of commands makes a deauthorized number an admin again without
\* an ADD that trusted its new safety number.
THEOREM DeauthsHold == Spec => []SettledDeauthsHold
  <1>1. Inv => SettledDeauthsHold
    BY DEF Inv, DeauthsInv, SettledDeauthsHold
  <1> QED
    BY Invariance, <1>1, PTL

\* Nobody becomes an admin but through an ADD sent by a number that was an admin
\* when its handler read it, or through the HTTP API.
THEOREM AdminsAreAppointed == Spec => AdminsAppointed
  <1>1. Inv /\ [Next]_vars =>
          [\A p \in Phone :
             memberType[p] # "ADMIN" /\ memberType'[p] = "ADMIN" =>
               \E t \in Task :
                 /\ job[t].target = p
                 /\ \/ job[t].cmd = "API_ADD"
                    \/ job[t].cmd = "ADD" /\ snap[t].senderType = "ADMIN"]_vars
    BY AppointStep DEF Inv
  <1> QED
    BY Invariance, <1>1, PTL DEF Spec, AdminsAppointed

\* Nobody becomes a subscriber but by a JOIN that saw vouching off, or by an ACCEPT
\* of somebody whom as many numbers had invited as that ACCEPT saw required.
THEOREM EntriesAreVouched == Spec => VouchedEntry
  <1>1. Inv /\ [Next]_vars =>
          [\A p \in Phone :
             memberType[p] # "SUBSCRIBER" /\ memberType'[p] = "SUBSCRIBER" =>
               \E t \in Task :
                 /\ job[t].sender = p
                 /\ \/ snap[t].mode = "OFF"
                    \/ Cardinality({i \in Phone : <<i, p>> \in everInvited})
                         >= snap[t].level]_vars
    BY EntryStep DEF Inv
  <1> QED
    BY Invariance, <1>1, PTL DEF Spec, VouchedEntry

\* The limit on subscribers, checked on what was read, is exceeded by no more than
\* the other handlers there are.
THEOREM OvershootIsBounded == Spec => []OvershootBounded
  <1>1. Inv => OvershootBounded
    <2> SUFFICES ASSUME LimitInv PROVE OvershootBounded
      BY DEF Inv
    <2>1. Subscribers \in SUBSET Phone /\ Admitting \in SUBSET Task
      BY DEF Subscribers, Admitting
    <2>2. Cardinality(Subscribers) \in Nat /\ Cardinality(Admitting) \in Nat
          /\ Cardinality(Task) \in Nat /\ SubscriberLimit \in Nat
      BY <2>1, Numbers
    <2> QED
      BY <2>2 DEF LimitInv, OvershootBounded
  <1> QED
    BY Invariance, <1>1, PTL

\* Two ADDs at once can give two admins one id (addAdmins reads nextAdminId outside
\* its transaction).  As long as no two are between that read and their commit,
\* the ids of the admins differ and the next one is free, whatever else is
\* handled in between, removed or rolled back.
THEOREM AdminsAreNumbered == Spec /\ []OneAddAtATime => []AdminsNumbered
  <1>1. Init => IdsInv
    BY IdsInit
  <1>2. Inv /\ IdsInv /\ OneAddAtATime /\ [Next]_vars => IdsInv'
    BY IdsNext DEF Inv
  <1>3. IdsInv => AdminsNumbered
    BY DEF IdsInv
  <1> QED
    BY <1>1, <1>2, <1>3, Invariance, PTL DEF Spec

====
