----------------------------- MODULE RelayProofs -----------------------------
(***************************************************************************)
(* What Relay promises for every set of people, handlers and messages.     *)
(* Everything a command does to the tables is settled once, in             *)
(* CommandOutcome, and each invariant is shown of that and of the steps    *)
(* before and after it.                                                    *)
(***************************************************************************)
EXTENDS Relay, FiniteSetTheorems, SequenceTheorems, TLAPS

USE DEF Status, MessageCount, ChannelRequest

-----------------------------------------------------------------------------
(* Types, and what a handler knows of itself.                              *)

MemberType == {"ADMIN", "SUBSCRIBER", "NONE"}
Pc == {"idle", "read", "banned", "timer", "others", "execute", "respond", "notify", "expire",
       "count", "end"}
Settings == [hotlineOn: BOOLEAN, vouchMode: Vouching, vouchLevel: 1..MaxVouchLevel, expiry: Expiry]
Arriving == UNION {x.messages : x \in Inboxes}
Needs == SUBSET {"channel", "sender"}
HandlerState ==
  [pc: Pc, msg: Arriving \cup {NoMessage}, needs: Needs,
   chan: [members: [Person -> MemberType], set: Settings], sender: MemberType,
   result: Result, told: BOOLEAN]
Row == [id: Nat, who: Person]

HandlersOK == handler \in [Handler -> HandlerState]

TablesOK ==
  /\ members \in [Person -> MemberType]
  /\ settings \in Settings
  /\ banned \subseteq Person /\ invites \subseteq Person \X Person /\ waitlist \subseteq Nat
  /\ hotline \subseteq Row /\ lastId \in Nat

TalliesOK ==
  /\ counts \in [broadcast: Nat, hotline: Nat, command: Nat]
  /\ out \in [copies: Nat, hotline: Nat, command: Nat, originals: Nat, resends: Nat]
  /\ air \in Nat /\ resend \in [interval: 0..MaxInterval, waiting: Nat]
  /\ faults \in Nat

RestOK ==
  /\ inbox \subseteq Arriving
  /\ timers \in [Person -> Expiry]
  /\ raced \in BOOLEAN

\* Handlers that run to their end let their sender hear something, or the channel
\* and the sender were read at different times.
Heard(s) ==
  \/ s.told
  \/ s.chan.members[s.msg.from] # s.sender
  \/ s.pc = "notify" /\ s.msg.from \in Notified(s.result.notes)

\* A relayed message goes to everybody it is counted for.
Reaches(s) ==
  s.result.status = "SUCCESS" =>
    /\ s.result.command = "BROADCAST" =>
         Len(s.result.notes) = Cardinality(MembersOf(s.chan.members))
    /\ s.result.command = "NONE" =>
         Len(s.result.notes) = Cardinality(AdminsOf(s.chan.members))

\* What holds of a handler's own variables.
LocalOK(s) ==
  /\ s.pc = "idle" => s = Idle
  /\ s.pc # "idle" => s.msg \in Arriving
  /\ s.pc # "read" => s.needs = {}
  /\ s.pc \in {"timer", "others"} => s.msg.timer > 0
  /\ s.pc \in Pc \ {"idle", "read", "banned", "timer", "others"} => s.msg.timer = 0
  /\ s.pc \in {"respond", "notify"} => Reaches(s)
  /\ s.pc = "notify" => s.result.status = "SUCCESS"
  /\ s.pc \in {"notify", "expire", "count", "end"} => Heard(s)

Sane ==
  /\ HandlersOK /\ TablesOK /\ TalliesOK /\ RestOK
  /\ \A h \in Handler : LocalOK(handler[h])

-----------------------------------------------------------------------------
(* Why the properties hold.                                                *)

\* Who is known by a hotline number: rows, what admins were told, and what the
\* notes of handlers in progress say.
HotlineNotes(s) ==
  {[id |-> s.result.notes[i].id, who |-> s.msg.from] :
     i \in {j \in DOMAIN s.result.notes : s.result.notes[j].about = "hotline"}}
ReplyNotes(s) ==
  {[id |-> s.result.notes[i].id, who |-> s.result.notes[i].to] :
     i \in {j \in DOMAIN s.result.notes : s.result.notes[j].about = "reply"}}
Claims ==
  hotline \cup announced
    \cup UNION {HotlineNotes(handler[h]) \cup ReplyNotes(handler[h]) : h \in Handler}

\* A number never stands for two people, because it is drawn from a sequence.
ClaimsInv ==
  /\ \A x \in Claims : x.id \in 0..lastId
  /\ \A x, y \in Claims : x.id = y.id => x.who = y.who

\* Whom a handler has yet to count, and of all handlers one pair for each of them.
BroadcastTo(s) ==
  IF s.pc = "count" /\ s.result.command = "BROADCAST" THEN MembersOf(s.chan.members) ELSE {}
AnnounceTo(s) ==
  IF s.pc = "count" /\ s.result.command # "BROADCAST" THEN AdminsOf(s.chan.members) ELSE {}
Broadcasting == {x \in Handler \X Person : x[2] \in BroadcastTo(handler[x[1]])}
Announcing == {x \in Handler \X Person : x[2] \in AnnounceTo(handler[x[1]])}

CountsInv ==
  /\ counts.broadcast + Cardinality(Broadcasting) <= out.copies
  /\ counts.hotline + Cardinality(Announcing) <= out.hotline
  /\ counts.command <= out.command
  /\ faults = 0 => /\ counts.broadcast + Cardinality(Broadcasting) = out.copies
                   /\ counts.hotline + Cardinality(Announcing) = out.hotline

\* Whose timers the messenger sets when m's command succeeded.
NewUsersOf(m, command) ==
  CASE command = "ADD" -> {CHOOSE p \in m.text.payload.phones : TRUE}
    [] command = "INVITE" -> m.text.payload.phones
    [] command \in {"JOIN", "ACCEPT"} -> {m.from}
    [] OTHER -> {}

\* A handler in state s will still see to p's timer: p has changed it, or is one
\* of those who have yet to hear of a change, or a new user.
Owes(s, p) ==
  /\ s.pc # "idle"
  /\ \/ s.msg.timer > 0 /\ s.msg.from = p
     \/ s.pc = "others" /\ p \in MembersOf(s.chan.members)
     \/ /\ s.pc \in {"respond", "notify"} /\ s.result.status = "SUCCESS"
        /\ p \in NewUsersOf(s.msg, s.result.command)
     \/ s.pc = "expire" /\ p \in NewUsersOf(s.msg, s.result.command)

\* What a handler has read is still so: the timer for every handler, and the
\* membership for one that handles a change of the timer.
Knows(s) ==
  /\ s.pc # "others" /\ "channel" \notin s.needs => s.chan.set.expiry = settings.expiry
  /\ s.pc = "others" => settings.expiry = s.msg.timer
  /\ s.msg.timer > 0 =>
       /\ timers[s.msg.from] = s.msg.timer
       /\ "channel" \notin s.needs => s.chan.members = members
       /\ "sender" \notin s.needs => s.sender = members[s.msg.from]

Calm == ~raced /\ faults = 0
Busy(h) == handler[h].pc # "idle"

TimersInv ==
  Calm =>
    /\ \A g, h \in Handler : g # h /\ Busy(g) /\ Busy(h) => handler[h].msg.timer = 0
    /\ \A h \in Handler : Busy(h) => Knows(handler[h])
    /\ \A p \in MembersOf(members) \ banned :
         timers[p] = settings.expiry \/ \E h \in Handler : Owes(handler[h], p)

\* Resends: g copies were given up, and each took at most the tries it had with it.
Shorter(i) == {j \in Intervals : j <= i}
ResendInv ==
  /\ resend.interval \in Intervals \cup {0}
  /\ \E g \in Nat :
       /\ air + resend.waiting + g <= out.originals
       /\ resend.interval > 0 => g < out.originals
       /\ out.resends + resend.waiting <= Tries * g + Cardinality(Shorter(resend.interval))

-----------------------------------------------------------------------------
(* Notes.                                                                  *)

\* A finite set's sequence has each of its elements once.
LEMMA SetToSeqLists ==
  ASSUME NEW S, IsFiniteSet(S)
  PROVE  /\ SetToSeq(S) \in Seq(S)
         /\ Len(SetToSeq(S)) = Cardinality(S)
         /\ \A x \in S : \E i \in DOMAIN SetToSeq(S) : SetToSeq(S)[i] = x
<1> DEFINE n == Cardinality(S)
<1>1. n \in Nat /\ ExistsBijection(1..n, S)
  BY FS_CardinalityType
<1>2. PICK b \in [1..n -> S] : IsInjective(b)
  BY <1>1 DEF ExistsBijection, Bijection, Injection
<1>3. SetToSeq(S) \in [1..n -> S] /\ IsInjective(SetToSeq(S))
  BY <1>2 DEF SetToSeq
<1>4. SetToSeq(S) \in Injection(1..n, S)
  BY <1>3 DEF Injection
<1>5. Cardinality(1..n) = n /\ IsFiniteSet(1..n)
  BY <1>1, FS_Interval
<1>6. SetToSeq(S) \in Surjection(1..n, S)
  BY <1>4, <1>5, FS_Injection
<1>7. \A x \in S : \E i \in 1..n : SetToSeq(S)[i] = x
  BY <1>6 DEF Surjection
<1>8. SetToSeq(S) \in Seq(S) /\ Len(SetToSeq(S)) = n
  BY <1>1, <1>3
<1> QED
  BY <1>3, <1>7, <1>8

\* As many notes as people, one to each.
OneToEach(notes, people, about, id) ==
  /\ notes \in Seq(Note)
  /\ Len(notes) = Cardinality(people)
  /\ \A p \in people : \E i \in DOMAIN notes : notes[i].to = p
  /\ \A i \in DOMAIN notes : notes[i].about = about /\ notes[i].id = id

LEMMA NotesToEach ==
  ASSUME NEW people \in SUBSET Person, NEW about \in {"notice", "copy", "hotline", "reply"},
         NEW id \in Nat
  PROVE  OneToEach(ToEach(people, about, id), people, about, id)
<1> DEFINE S == {NoteTo(p, about, id) : p \in people}
<1> DEFINE f == [p \in people |-> NoteTo(p, about, id)]
<1>1. IsFiniteSet(people)
  BY FS_Subset, FiniteAssumption
<1>2. f \in Bijection(people, S)
  <2>1. f \in [people -> S]
    OBVIOUS
  <2>2. ASSUME NEW p \in people, NEW q \in people, f[p] = f[q] PROVE p = q
    BY <2>2 DEF NoteTo
  <2>3. IsInjective(f)
    BY <2>2 DEF IsInjective
  <2>4. \A x \in S : \E p \in people : f[p] = x
    OBVIOUS
  <2> QED
    BY <2>1, <2>3, <2>4 DEF Bijection, Injection, Surjection
<1>3. IsFiniteSet(S) /\ Cardinality(S) = Cardinality(people)
  BY <1>1, <1>2, FS_Bijection DEF ExistsBijection
<1>4. S \subseteq Note
  BY DEF Note, NoteTo
<1>5. \A x \in S : x.about = about /\ x.id = id
  BY DEF NoteTo
<1>6. \A p \in people : \E x \in S : x.to = p
  <2> TAKE p \in people
  <2>1. NoteTo(p, about, id) \in S
    OBVIOUS
  <2>2. NoteTo(p, about, id).to = p
    BY DEF NoteTo
  <2> QED
    BY <2>1, <2>2
<1>7. ToEach(people, about, id) = SetToSeq(S)
  BY DEF ToEach
<1> HIDE DEF S
<1>8. SetToSeq(S) \in Seq(S) /\ Len(SetToSeq(S)) = Cardinality(people)
      /\ \A x \in S : \E i \in DOMAIN SetToSeq(S) : SetToSeq(S)[i] = x
  BY <1>3, SetToSeqLists
<1>9. SetToSeq(S) \in Seq(Note)
  BY <1>4, <1>8, SeqMonotonic
<1>10. \A i \in DOMAIN SetToSeq(S) : SetToSeq(S)[i] \in S
  BY <1>8
<1> QED
  BY <1>5, <1>6, <1>7, <1>8, <1>9, <1>10 DEF OneToEach

LEMMA AnnouncedToEach ==
  ASSUME NEW people \in SUBSET Person, NEW id \in Nat
  PROVE  LET notes == ToEach(people, "hotline", id) IN
         /\ notes \in Seq(Note) /\ Len(notes) = Cardinality(people)
         /\ \A i \in DOMAIN notes : notes[i].about = "hotline" /\ notes[i].id = id
<1>1. OneToEach(ToEach(people, "hotline", id), people, "hotline", id)
  BY NotesToEach
<1> QED
  BY <1>1 DEF OneToEach

\* Notes that claim nothing.
Plain(notes) ==
  /\ notes \in Seq(Note)
  /\ \A i \in DOMAIN notes : notes[i].about \notin {"hotline", "reply"}

LEMMA EmptyPlain == Plain(<< >>)
  BY DEF Plain

LEMMA NoticesPlain ==
  ASSUME NEW people \in SUBSET Person
  PROVE  Plain(Notices(people))
  BY NotesToEach, 0 \in Nat DEF OneToEach, Plain, Notices

LEMMA CopiesToEach ==
  ASSUME NEW people \in SUBSET Person
  PROVE  LET notes == ToEach(people, "copy", 0) IN
         /\ notes \in Seq(Note) /\ Len(notes) = Cardinality(people)
         /\ \A p \in people : \E i \in DOMAIN notes : notes[i].to = p
         /\ \A i \in DOMAIN notes : notes[i].about = "copy"
  BY NotesToEach, 0 \in Nat DEF OneToEach

LEMMA ConcatPlain ==
  ASSUME NEW a, NEW b, Plain(a), Plain(b)
  PROVE  Plain(a \o b)
<1>1. a \in Seq(Note) /\ b \in Seq(Note)
  BY DEF Plain
<1>2. /\ a \o b \in Seq(Note) /\ Len(a \o b) = Len(a) + Len(b)
      /\ \A i \in 1..(Len(a) + Len(b)) : (a \o b)[i] = IF i <= Len(a) THEN a[i] ELSE b[i - Len(a)]
  BY <1>1, ConcatProperties
<1>3. DOMAIN a = 1..Len(a) /\ DOMAIN b = 1..Len(b) /\ DOMAIN (a \o b) = 1..Len(a \o b)
      /\ Len(a) \in Nat /\ Len(b) \in Nat
  BY <1>1, <1>2, LenProperties
<1>4. ASSUME NEW i \in DOMAIN (a \o b) PROVE (a \o b)[i].about \notin {"hotline", "reply"}
  <2>1. CASE i <= Len(a)
    BY <1>2, <1>3, <2>1 DEF Plain
  <2>2. CASE ~(i <= Len(a))
    <3>1. i - Len(a) \in DOMAIN b
      BY <1>2, <1>3, <2>2
    <3> QED
      BY <1>2, <1>3, <2>2, <3>1 DEF Plain
  <2> QED
    BY <2>1, <2>2
<1> QED
  BY <1>2, <1>4 DEF Plain

-----------------------------------------------------------------------------
(* Messages, and the steps of a handler.                                   *)

LEMMA MessageOK ==
  ASSUME NEW m \in Arriving
  PROVE  /\ m.n \in Nat /\ m.from \in Person /\ m.timer \in 0..2
         /\ CommandOf(m.text) \in Command
         /\ m.text.payload \in Payload
<1>1. /\ m.n \in Nat /\ m.from \in Person /\ m.timer \in 0..2
      /\ m.text.hits \subseteq Keyword /\ m.text.payload \in Payload
      /\ m.text.hits # {} => PickLongestMatch(m.text.hits) \in m.text.hits
  BY InboxAssumption DEF Arriving, IsMessage
<1>2. \A k \in Keyword : k.command \in Command
  BY DEF Keyword
<1>3. "NONE" \in Command
  BY DEF Command, TakesText
<1> QED
  BY <1>1, <1>2, <1>3 DEF CommandOf

LEMMA IdleOK == Idle \in HandlerState /\ LocalOK(Idle)
<1>1. FirstSettings \in Settings
  BY LimitAssumption DEF FirstSettings, Settings, Vouching, Expiry
<1>2. NoResult \in Result
  BY DEF NoResult, Result, Command, TakesText
<1>3. Idle \in HandlerState
  BY <1>1, <1>2, MemberAssumption DEF Idle, HandlerState, Pc, MemberType, Needs
<1>4. Idle.pc = "idle" /\ Idle.needs = {}
  BY DEF Idle
<1> QED
  BY <1>3, <1>4 DEF LocalOK

\* A handler's fields have their types.
LEMMA HandlerFields ==
  ASSUME HandlersOK, NEW h \in Handler
  PROVE  /\ handler[h] \in HandlerState
         /\ handler[h].pc \in Pc /\ handler[h].needs \subseteq {"channel", "sender"}
         /\ handler[h].msg \in Arriving \cup {NoMessage}
         /\ handler[h].chan \in [members: [Person -> MemberType], set: Settings]
         /\ handler[h].chan.members \in [Person -> MemberType] /\ handler[h].chan.set \in Settings
         /\ handler[h].sender \in MemberType /\ handler[h].told \in BOOLEAN
         /\ handler[h].result \in Result
<1>1. handler[h] \in HandlerState
  BY DEF HandlersOK
<1> QED
  BY <1>1 DEF HandlerState, Needs

\* The other handlers stay where they are.
Others(h) == \A g \in Handler : g # h => handler'[g] = handler[g]

LEMMA FinishEffect ==
  ASSUME HandlersOK, NEW h \in Handler, NEW excused, Finish(h, excused)
  PROVE  HandlersOK' /\ Others(h) /\ handler'[h] = Idle
  BY IdleOK DEF HandlersOK, Others, Finish

\* All of a handler's variables but its place.
SameBut(s, t) ==
  /\ t.msg = s.msg /\ t.needs = s.needs /\ t.chan = s.chan /\ t.sender = s.sender
  /\ t.result = s.result /\ t.told = s.told

LEMMA StepEffect ==
  ASSUME HandlersOK, NEW h \in Handler, NEW p \in Pc, Step(h, p)
  PROVE  HandlersOK' /\ Others(h) /\ handler'[h].pc = p /\ SameBut(handler[h], handler'[h])
<1>1. handler[h] \in HandlerState /\ handler \in [Handler -> HandlerState]
  BY DEF HandlersOK
<1>2. [handler[h] EXCEPT !.pc = p] \in HandlerState
  BY <1>1 DEF HandlerState
<1>3. handler' = [handler EXCEPT ![h] = [handler[h] EXCEPT !.pc = p]]
  BY DEF Step
<1>4. handler'[h] = [handler[h] EXCEPT !.pc = p] /\ Others(h)
  BY <1>1, <1>3 DEF Others
<1>5. HandlersOK'
  BY <1>1, <1>2, <1>3 DEF HandlersOK
<1>6. handler'[h].pc = p /\ SameBut(handler[h], handler'[h])
  BY <1>1, <1>4 DEF HandlerState, SameBut
<1> QED
  BY <1>4, <1>5, <1>6

\* The place a command's result leads to.
After(result) == IF RelayedOnly(result) THEN "notify" ELSE "respond"

LEMMA ConcludedEffect ==
  ASSUME HandlersOK, NEW h \in Handler, NEW result \in Result, Concluded(h, result)
  PROVE  /\ HandlersOK' /\ Others(h)
         /\ handler'[h].pc = After(result) /\ handler'[h].result = result
         /\ handler'[h].msg = handler[h].msg /\ handler'[h].needs = handler[h].needs
         /\ handler'[h].chan = handler[h].chan /\ handler'[h].sender = handler[h].sender
         /\ handler'[h].told = handler[h].told
<1> DEFINE s == [handler[h] EXCEPT !.result = result, !.pc = After(result)]
<1>1. handler[h] \in HandlerState /\ handler \in [Handler -> HandlerState]
  BY DEF HandlersOK
<1>2. After(result) \in Pc
  BY DEF After, Pc
<1>3. s \in HandlerState
  BY <1>1, <1>2 DEF HandlerState
<1>4. /\ s.pc = After(result) /\ s.result = result /\ s.msg = handler[h].msg
      /\ s.needs = handler[h].needs /\ s.chan = handler[h].chan /\ s.sender = handler[h].sender
      /\ s.told = handler[h].told
  BY <1>1 DEF HandlerState
<1>5. handler' = [handler EXCEPT ![h] = s]
  <2> DEFINE f == [handler EXCEPT ![h].result = result]
  <2>1. f \in [Handler -> HandlerState] /\ f[h] = [handler[h] EXCEPT !.result = result]
        /\ \A g \in Handler : g # h => f[g] = handler[g]
    BY <1>1 DEF HandlerState
  <2>2. handler' = [f EXCEPT ![h].pc = After(result)]
    BY DEF Concluded, After
  <2> HIDE DEF f
  <2>3. handler' = [f EXCEPT ![h] = [f[h] EXCEPT !.pc = After(result)]]
    BY <2>1, <2>2
  <2>4. [f[h] EXCEPT !.pc = After(result)] = s
    BY <1>1, <2>1 DEF HandlerState
  <2> HIDE DEF s
  <2> QED
    BY <1>1, <2>1, <2>3, <2>4
<1> HIDE DEF s
<1>6. handler'[h] = s /\ Others(h) /\ HandlersOK'
  BY <1>1, <1>3, <1>5 DEF Others, HandlersOK
<1> QED
  BY <1>4, <1>6

\* One field of one handler is written.
LEMMA Set_pc ==
  ASSUME NEW f \in [Handler -> HandlerState], NEW h \in Handler, NEW v \in Pc
  PROVE  LET t == [f EXCEPT ![h].pc = v] IN
         /\ t \in [Handler -> HandlerState]
         /\ t[h].pc = v
         /\ t[h].msg = f[h].msg /\ t[h].needs = f[h].needs
              /\ t[h].chan = f[h].chan /\ t[h].sender = f[h].sender
              /\ t[h].result = f[h].result /\ t[h].told = f[h].told
         /\ \A g \in Handler : g # h => t[g] = f[g]
<1>1. [f[h] EXCEPT !.pc = v] \in HandlerState
  BY DEF HandlerState
<1>2. [f EXCEPT ![h].pc = v] = [f EXCEPT ![h] = [f[h] EXCEPT !.pc = v]]
  OBVIOUS
<1>3. [f EXCEPT ![h].pc = v][h] = [f[h] EXCEPT !.pc = v]
  BY <1>2
<1>4. [f EXCEPT ![h].pc = v] \in [Handler -> HandlerState]
  BY <1>1, <1>2
<1>5. \A g \in Handler : g # h => [f EXCEPT ![h].pc = v][g] = f[g]
  BY <1>2
<1> QED
  BY <1>3, <1>4, <1>5 DEF HandlerState

LEMMA Set_needs ==
  ASSUME NEW f \in [Handler -> HandlerState], NEW h \in Handler, NEW v \in Needs
  PROVE  LET t == [f EXCEPT ![h].needs = v] IN
         /\ t \in [Handler -> HandlerState]
         /\ t[h].needs = v
         /\ t[h].pc = f[h].pc /\ t[h].msg = f[h].msg
              /\ t[h].chan = f[h].chan /\ t[h].sender = f[h].sender
              /\ t[h].result = f[h].result /\ t[h].told = f[h].told
         /\ \A g \in Handler : g # h => t[g] = f[g]
<1>1. [f[h] EXCEPT !.needs = v] \in HandlerState
  BY DEF HandlerState
<1>2. [f EXCEPT ![h].needs = v] = [f EXCEPT ![h] = [f[h] EXCEPT !.needs = v]]
  OBVIOUS
<1>3. [f EXCEPT ![h].needs = v][h] = [f[h] EXCEPT !.needs = v]
  BY <1>2
<1>4. [f EXCEPT ![h].needs = v] \in [Handler -> HandlerState]
  BY <1>1, <1>2
<1>5. \A g \in Handler : g # h => [f EXCEPT ![h].needs = v][g] = f[g]
  BY <1>2
<1> QED
  BY <1>3, <1>4, <1>5 DEF HandlerState

LEMMA Set_chan ==
  ASSUME NEW f \in [Handler -> HandlerState], NEW h \in Handler, NEW v \in [members: [Person -> MemberType], set: Settings]
  PROVE  LET t == [f EXCEPT ![h].chan = v] IN
         /\ t \in [Handler -> HandlerState]
         /\ t[h].chan = v
         /\ t[h].pc = f[h].pc /\ t[h].msg = f[h].msg
              /\ t[h].needs = f[h].needs /\ t[h].sender = f[h].sender
              /\ t[h].result = f[h].result /\ t[h].told = f[h].told
         /\ \A g \in Handler : g # h => t[g] = f[g]
<1>1. [f[h] EXCEPT !.chan = v] \in HandlerState
  BY DEF HandlerState
<1>2. [f EXCEPT ![h].chan = v] = [f EXCEPT ![h] = [f[h] EXCEPT !.chan = v]]
  OBVIOUS
<1>3. [f EXCEPT ![h].chan = v][h] = [f[h] EXCEPT !.chan = v]
  BY <1>2
<1>4. [f EXCEPT ![h].chan = v] \in [Handler -> HandlerState]
  BY <1>1, <1>2
<1>5. \A g \in Handler : g # h => [f EXCEPT ![h].chan = v][g] = f[g]
  BY <1>2
<1> QED
  BY <1>3, <1>4, <1>5 DEF HandlerState

LEMMA Set_sender ==
  ASSUME NEW f \in [Handler -> HandlerState], NEW h \in Handler, NEW v \in MemberType
  PROVE  LET t == [f EXCEPT ![h].sender = v] IN
         /\ t \in [Handler -> HandlerState]
         /\ t[h].sender = v
         /\ t[h].pc = f[h].pc /\ t[h].msg = f[h].msg
              /\ t[h].needs = f[h].needs /\ t[h].chan = f[h].chan
              /\ t[h].result = f[h].result /\ t[h].told = f[h].told
         /\ \A g \in Handler : g # h => t[g] = f[g]
<1>1. [f[h] EXCEPT !.sender = v] \in HandlerState
  BY DEF HandlerState
<1>2. [f EXCEPT ![h].sender = v] = [f EXCEPT ![h] = [f[h] EXCEPT !.sender = v]]
  OBVIOUS
<1>3. [f EXCEPT ![h].sender = v][h] = [f[h] EXCEPT !.sender = v]
  BY <1>2
<1>4. [f EXCEPT ![h].sender = v] \in [Handler -> HandlerState]
  BY <1>1, <1>2
<1>5. \A g \in Handler : g # h => [f EXCEPT ![h].sender = v][g] = f[g]
  BY <1>2
<1> QED
  BY <1>3, <1>4, <1>5 DEF HandlerState

LEMMA Set_told ==
  ASSUME NEW f \in [Handler -> HandlerState], NEW h \in Handler, NEW v \in BOOLEAN
  PROVE  LET t == [f EXCEPT ![h].told = v] IN
         /\ t \in [Handler -> HandlerState]
         /\ t[h].told = v
         /\ t[h].pc = f[h].pc /\ t[h].msg = f[h].msg
              /\ t[h].needs = f[h].needs /\ t[h].chan = f[h].chan
              /\ t[h].sender = f[h].sender /\ t[h].result = f[h].result
         /\ \A g \in Handler : g # h => t[g] = f[g]
<1>1. [f[h] EXCEPT !.told = v] \in HandlerState
  BY DEF HandlerState
<1>2. [f EXCEPT ![h].told = v] = [f EXCEPT ![h] = [f[h] EXCEPT !.told = v]]
  OBVIOUS
<1>3. [f EXCEPT ![h].told = v][h] = [f[h] EXCEPT !.told = v]
  BY <1>2
<1>4. [f EXCEPT ![h].told = v] \in [Handler -> HandlerState]
  BY <1>1, <1>2
<1>5. \A g \in Handler : g # h => [f EXCEPT ![h].told = v][g] = f[g]
  BY <1>2
<1> QED
  BY <1>3, <1>4, <1>5 DEF HandlerState

LEMMA ReadEffect ==
  ASSUME HandlersOK, NEW h \in Handler, NEW what \in {"channel", "sender"},
         NEW chan \in [members: [Person -> MemberType], set: Settings], NEW sender \in MemberType,
         Read(h, what, chan, sender)
  PROVE  /\ HandlersOK' /\ Others(h)
         /\ handler'[h].pc = IF handler[h].needs = {what} THEN "banned" ELSE "read"
         /\ handler'[h].needs = handler[h].needs \ {what}
         /\ handler'[h].chan = chan /\ handler'[h].sender = sender
         /\ handler'[h].msg = handler[h].msg /\ handler'[h].result = handler[h].result
         /\ handler'[h].told = handler[h].told
<1> DEFINE v == handler[h].needs \ {what}
<1> DEFINE p == IF handler[h].needs = {what} THEN "banned" ELSE "read"
<1> DEFINE f1 == [handler EXCEPT ![h].needs = v]
<1> DEFINE f2 == [f1 EXCEPT ![h].chan = chan]
<1> DEFINE f3 == [f2 EXCEPT ![h].sender = sender]
<1> DEFINE f4 == [f3 EXCEPT ![h].pc = p]
<1>1. handler \in [Handler -> HandlerState] /\ handler[h].needs \subseteq {"channel", "sender"}
  BY HandlerFields DEF HandlersOK
<1>2. v \in Needs /\ p \in Pc
  BY <1>1 DEF Pc, Needs
<1>3. handler' = f4
  BY DEF Read
<1> HIDE DEF v, p
<1>4. /\ f1 \in [Handler -> HandlerState] /\ f1[h].needs = v /\ f1[h].msg = handler[h].msg
      /\ f1[h].result = handler[h].result /\ f1[h].told = handler[h].told
      /\ \A g \in Handler : g # h => f1[g] = handler[g]
  BY <1>1, <1>2, Set_needs
<1> HIDE DEF f1
<1>5. /\ f2 \in [Handler -> HandlerState] /\ f2[h].needs = v /\ f2[h].msg = handler[h].msg
      /\ f2[h].chan = chan
      /\ f2[h].result = handler[h].result /\ f2[h].told = handler[h].told
      /\ \A g \in Handler : g # h => f2[g] = handler[g]
  BY <1>4, Set_chan
<1> HIDE DEF f2
<1>6. /\ f3 \in [Handler -> HandlerState] /\ f3[h].needs = v /\ f3[h].msg = handler[h].msg
      /\ f3[h].chan = chan /\ f3[h].sender = sender
      /\ f3[h].result = handler[h].result /\ f3[h].told = handler[h].told
      /\ \A g \in Handler : g # h => f3[g] = handler[g]
  BY <1>5, Set_sender
<1> HIDE DEF f3
<1>7. /\ f4 \in [Handler -> HandlerState] /\ f4[h].needs = v /\ f4[h].msg = handler[h].msg
      /\ f4[h].chan = chan /\ f4[h].sender = sender /\ f4[h].pc = p
      /\ f4[h].result = handler[h].result /\ f4[h].told = handler[h].told
      /\ \A g \in Handler : g # h => f4[g] = handler[g]
  BY <1>2, <1>6, Set_pc
<1> HIDE DEF f4
<1> QED
  BY <1>3, <1>7 DEF v, p, HandlersOK, Others

\* A message that is taken up finds a handler as it was before.
Reading(m) == [Idle EXCEPT !.pc = "read", !.msg = m, !.needs = {"channel", "sender"}]

LEMMA ReceiveEffect ==
  ASSUME HandlersOK, NEW h \in Handler, NEW m \in Arriving,
         handler' = [handler EXCEPT ![h] = Reading(m)]
  PROVE  /\ HandlersOK' /\ Others(h)
         /\ handler'[h].pc = "read" /\ handler'[h].msg = m
         /\ handler'[h].needs = {"channel", "sender"} /\ handler'[h].result = NoResult
<1>1. Idle \in HandlerState
  BY IdleOK
<1>2. Reading(m) \in HandlerState
  BY <1>1 DEF HandlerState, Reading, Pc, Needs
<1>3. /\ Reading(m).pc = "read" /\ Reading(m).msg = m
      /\ Reading(m).needs = {"channel", "sender"} /\ Reading(m).result = NoResult
  BY DEF Reading, Idle
<1>4. handler'[h] = Reading(m) /\ Others(h) /\ HandlersOK'
  BY <1>2 DEF HandlersOK, Others
<1> QED
  BY <1>3, <1>4

\* An answer, or the notes, are sent.
LEMMA TellEffect ==
  ASSUME HandlersOK, NEW h \in Handler, NEW told \in BOOLEAN, NEW p \in Pc,
         handler' = [handler EXCEPT ![h].told = told, ![h].pc = p]
  PROVE  /\ HandlersOK' /\ Others(h)
         /\ handler'[h].pc = p /\ handler'[h].told = told
         /\ handler'[h].msg = handler[h].msg /\ handler'[h].needs = handler[h].needs
         /\ handler'[h].chan = handler[h].chan /\ handler'[h].sender = handler[h].sender
         /\ handler'[h].result = handler[h].result
<1> DEFINE f1 == [handler EXCEPT ![h].told = told]
<1> DEFINE f2 == [f1 EXCEPT ![h].pc = p]
<1>1. handler \in [Handler -> HandlerState]
  BY DEF HandlersOK
<1>2. handler' = f2
  OBVIOUS
<1>3. /\ f1 \in [Handler -> HandlerState] /\ f1[h].told = told /\ f1[h].msg = handler[h].msg
      /\ f1[h].needs = handler[h].needs /\ f1[h].chan = handler[h].chan
      /\ f1[h].sender = handler[h].sender /\ f1[h].result = handler[h].result
      /\ \A g \in Handler : g # h => f1[g] = handler[g]
  BY <1>1, Set_told
<1> HIDE DEF f1
<1>4. /\ f2 \in [Handler -> HandlerState] /\ f2[h].told = told /\ f2[h].msg = handler[h].msg
      /\ f2[h].needs = handler[h].needs /\ f2[h].chan = handler[h].chan
      /\ f2[h].sender = handler[h].sender /\ f2[h].result = handler[h].result /\ f2[h].pc = p
      /\ \A g \in Handler : g # h => f2[g] = handler[g]
  BY <1>3, Set_pc
<1> HIDE DEF f2
<1> QED
  BY <1>2, <1>4 DEF HandlersOK, Others

-----------------------------------------------------------------------------
(* What a command comes to.                                                *)

LEMMA NewUsersAre ==
  ASSUME NEW h \in Handler
  PROVE  NewUsers(h) = NewUsersOf(Msg(h), Command1(h))
  BY DEF NewUsers, NewUsersOf, Payload1, Exec, ParseExecutable, From

\* The tables after a step of h.
TablesStep(h) ==
  /\ TablesOK'
  /\ settings'.expiry = settings.expiry
  /\ banned \subseteq banned'
  /\ faults' \in Nat /\ (faults' = faults \/ faults' = faults + 1)
  /\ \/ hotline' = hotline /\ lastId' = lastId
     \/ /\ lastId' = lastId + 1 /\ hotline' = hotline \cup {[id |-> lastId + 1, who |-> From(h)]}
        /\ \A x \in hotline : x.who # From(h)

\* The result of h's command: who gets its notes, and who became a member.
Outcome(h, result) ==
  /\ result \in Result /\ Concluded(h, result) /\ neglected' = neglected
  /\ RelayedOnly(result) =>
       Chan(h).members[From(h)] # handler[h].sender \/ From(h) \in Notified(result.notes)
  /\ result.status = "SUCCESS" /\ result.command = "BROADCAST" =>
       Len(result.notes) = Cardinality(MembersOf(Chan(h).members))
  /\ result.status = "SUCCESS" /\ result.command = "NONE" =>
       Len(result.notes) = Cardinality(AdminsOf(Chan(h).members))
  /\ faults' = 0 => \A p \in MembersOf(members') \ MembersOf(members) :
       result.status = "SUCCESS" /\ p \in NewUsersOf(Msg(h), result.command)
  /\ \A i \in DOMAIN result.notes :
       /\ result.notes[i].about = "hotline" =>
            [id |-> result.notes[i].id, who |-> From(h)] \in hotline'
       /\ result.notes[i].about = "reply" =>
            [id |-> result.notes[i].id, who |-> result.notes[i].to] \in hotline'

\* An exception that nobody catches.
Thrown(h) ==
  /\ Finish(h, TRUE)
  /\ faults' = 0 => MembersOf(members') \subseteq MembersOf(members)

CommandStep(h) ==
  /\ At(h, "execute") /\ KeepsRest /\ TablesStep(h)
  /\ Thrown(h) \/ \E result : Outcome(h, result)

LEMMA ExecOK ==
  ASSUME Sane, NEW h \in Handler, At(h, "execute")
  PROVE  /\ Msg(h) \in Arriving /\ From(h) \in Person /\ Msg(h).n \in Nat
         /\ Exec(h).command \in Command
         /\ Exec(h).payload \in Payload /\ Exec(h).payload = Msg(h).text.payload
         /\ Chan(h).members \in [Person -> MemberType]
         /\ handler[h].sender \in MemberType
<1>1. Msg(h) \in Arriving
  BY DEF Sane, LocalOK, At, Msg
<1>2. Chan(h).members \in [Person -> MemberType] /\ handler[h].sender \in MemberType
  BY HandlerFields DEF Sane, Chan
<1> QED
  BY <1>1, <1>2, MessageOK DEF From, Exec, ParseExecutable

\* Only commands without a mistake run, and most of them only for admins.
LEMMA RunOK ==
  ASSUME NEW h \in Handler, VerdictOn(h) = "run"
  PROVE  /\ Exec(h).error = "none"
         /\ Exec(h).command \notin ValidSubscriberCommands => handler[h].sender = "ADMIN"
  BY DEF VerdictOn, Verdict

LEMMA PhoneOK ==
  ASSUME Sane, NEW h \in Handler, At(h, "execute"), VerdictOn(h) = "run",
         Exec(h).command \in TakesPhone
  PROVE  Payload1(h) \in Person /\ Payload1(h) \in Msg(h).text.payload.phones
<1>1. PayloadError(Exec(h).command, Msg(h).text.payload) = "none"
  BY RunOK DEF Exec, ParseExecutable
<1>2. Cardinality(Msg(h).text.payload.phones) = 1
  BY <1>1 DEF PayloadError, TakesPhone, TakesNothing
<1>3. Msg(h).text.payload.phones \subseteq Person
  BY ExecOK DEF Payload
<1>4. Msg(h).text.payload.phones # {}
  BY <1>2, FS_EmptySet
<1> QED
  BY <1>3, <1>4 DEF Payload1

LEMMA LevelOK ==
  ASSUME NEW h \in Handler, VerdictOn(h) = "run", Exec(h).command = "VOUCH_LEVEL"
  PROVE  Exec(h).payload.number \in 1..MaxVouchLevel
<1>1. PayloadError("VOUCH_LEVEL", Exec(h).payload) = "none"
  BY RunOK DEF Exec, ParseExecutable
<1> QED
  BY <1>1 DEF PayloadError, TakesPhone, TakesPhones, TakesNothing

\* A command whose notes claim nothing, and that nobody gets a copy of.
LEMMA PlainOutcome ==
  ASSUME Sane, NEW h \in Handler, At(h, "execute"),
         NEW status \in Status, NEW notes, Plain(notes),
         Conclude(h, status, notes), neglected' = neglected,
         status = "SUCCESS" => Exec(h).command \notin {"BROADCAST", "PRIVATE", "REPLY", "NONE"},
         faults' = 0 => \A p \in MembersOf(members') \ MembersOf(members) :
           status = "SUCCESS" /\ p \in NewUsersOf(Msg(h), Exec(h).command)
  PROVE  \E result : Outcome(h, result)
<1> DEFINE result == [command |-> Exec(h).command, status |-> status, notes |-> notes]
<1>1. result \in Result
  BY ExecOK DEF Result, Plain, Status
<1>2. Concluded(h, result)
  BY DEF Conclude
<1>3. \A i \in DOMAIN notes : notes[i].about \notin {"hotline", "reply"}
  BY DEF Plain
<1>4. ~RelayedOnly(result)
  BY DEF RelayedOnly
<1>5. result.command = Exec(h).command /\ result.status = status /\ result.notes = notes
  OBVIOUS
<1> HIDE DEF result
<1>6. Outcome(h, result)
  BY <1>1, <1>2, <1>3, <1>4, <1>5 DEF Outcome
<1> QED
  BY <1>6

\* A command that leaves the tables alone.
LEMMA SameTables ==
  ASSUME Sane, NEW h \in Handler, KeepsTables,
         faults' = faults \/ faults' = faults + 1
  PROVE  TablesStep(h) /\ MembersOf(members') \ MembersOf(members) = {}
<1>1. /\ members' = members /\ settings' = settings /\ banned' = banned /\ invites' = invites
      /\ waitlist' = waitlist /\ hotline' = hotline /\ lastId' = lastId
  BY DEF KeepsTables, tables
<1>2. faults \in Nat
  BY DEF Sane, TalliesOK
<1> QED
  BY <1>1, <1>2 DEF TablesStep, TablesOK, Sane

\* A failure counts.
LEMMA FaultCounts ==
  ASSUME Sane, Fault
  PROVE  faults' = faults + 1 /\ faults' # 0
  BY DEF Sane, TalliesOK, Fault

LEMMA RefuseStep ==
  ASSUME Sane, NEW h \in Handler, Refuse(h)
  PROVE  CommandStep(h)
<1>1. At(h, "execute") /\ KeepsTables /\ KeepsRest /\ neglected' = neglected /\ faults' = faults
      /\ Conclude(h, "ERROR", << >>)
  BY DEF Refuse
<1>2. TablesStep(h) /\ MembersOf(members') \ MembersOf(members) = {}
  BY <1>1, SameTables
<1>3. \E result : Outcome(h, result)
  BY <1>1, <1>2, PlainOutcome, EmptyPlain DEF Status
<1> QED
  BY <1>1, <1>2, <1>3 DEF CommandStep

LEMMA HotlineIsOffStep ==
  ASSUME Sane, NEW h \in Handler, HotlineIsOff(h)
  PROVE  CommandStep(h)
<1>1. At(h, "execute") /\ KeepsTables /\ KeepsRest /\ neglected' = neglected /\ faults' = faults
      /\ Concluded(h, NoResult)
  BY DEF HotlineIsOff
<1>2. TablesStep(h) /\ MembersOf(members') \ MembersOf(members) = {}
  BY <1>1, SameTables
<1>3. /\ NoResult \in Result /\ NoResult.status = "ERROR" /\ NoResult.command = "NONE"
      /\ NoResult.notes = << >>
  BY DEF NoResult, Result, Command, TakesText
<1>4. Outcome(h, NoResult)
  BY <1>1, <1>2, <1>3 DEF Outcome, RelayedOnly
<1> QED
  BY <1>1, <1>2, <1>4 DEF CommandStep

LEMMA DbErrorStep ==
  ASSUME Sane, NEW h \in Handler, DbError(h)
  PROVE  CommandStep(h)
<1>1. At(h, "execute") /\ KeepsTables /\ KeepsRest /\ neglected' = neglected /\ Fault
      /\ Conclude(h, "ERROR", << >>)
  BY DEF DbError, Runs
<1>2. TablesStep(h) /\ MembersOf(members') \ MembersOf(members) = {}
  BY <1>1, SameTables, FaultCounts
<1>3. \E result : Outcome(h, result)
  BY <1>1, <1>2, PlainOutcome, EmptyPlain DEF Status
<1> QED
  BY <1>1, <1>2, <1>3 DEF CommandStep

LEMMA DbErrorThrownStep ==
  ASSUME Sane, NEW h \in Handler, DbErrorThrown(h)
  PROVE  CommandStep(h)
<1>1. At(h, "execute") /\ KeepsTables /\ KeepsRest /\ Fault /\ Finish(h, TRUE)
  BY DEF DbErrorThrown, Runs
<1>2. TablesStep(h) /\ MembersOf(members') \ MembersOf(members) = {}
  BY <1>1, SameTables, FaultCounts
<1> QED
  BY <1>1, <1>2 DEF CommandStep, Thrown

LEMMA TellStep ==
  ASSUME Sane, NEW h \in Handler,
         NEW command \in {"HELP", "INFO", "REQUEST", "SET_LANGUAGE", "DESTROY"}, Tell(h, command)
  PROVE  CommandStep(h)
<1>1. At(h, "execute") /\ KeepsTables /\ KeepsRest /\ neglected' = neglected /\ faults' = faults
      /\ Conclude(h, "SUCCESS", << >>) /\ Exec(h).command = command
  BY DEF Tell, Runs
<1>2. TablesStep(h) /\ MembersOf(members') \ MembersOf(members) = {}
  BY <1>1, SameTables
<1>3. \E result : Outcome(h, result)
  BY <1>1, <1>2, PlainOutcome, EmptyPlain DEF Status
<1> QED
  BY <1>1, <1>2, <1>3 DEF CommandStep

LEMMA RestartStep ==
  ASSUME Sane, NEW h \in Handler, Restart(h)
  PROVE  CommandStep(h)
<1>1. At(h, "execute") /\ KeepsTables /\ KeepsRest /\ neglected' = neglected /\ faults' = faults
      /\ Exec(h).command = "RESTART"
  BY DEF Restart, Runs
<1>2. TablesStep(h) /\ MembersOf(members') \ MembersOf(members) = {}
  BY <1>1, SameTables
<1>3. PICK status \in Status, notes \in {<< >>, Notices(MaintainersNow \ {From(h)})} :
        Conclude(h, status, notes)
  BY DEF Restart, Status
<1>4. MaintainersNow \ {From(h)} \in SUBSET Person
  BY MemberAssumption DEF MaintainersNow, AdminsOf
<1>5. Plain(notes)
  BY <1>4, EmptyPlain, NoticesPlain
<1>6. \E result : Outcome(h, result)
  BY <1>1, <1>2, <1>3, <1>5, PlainOutcome
<1> QED
  BY <1>1, <1>2, <1>6 DEF CommandStep

\* A reply's notes: one to the author, and a copy to each admin.
LEMMA NotesOfReply ==
  ASSUME NEW who \in Person, NEW id \in Nat, NEW admins \in SUBSET Person
  PROVE  LET notes == <<NoteTo(who, "reply", id)>> \o ToEach(admins, "copy", 0) IN
         /\ notes \in Seq(Note)
         /\ \A p \in admins : p \in Notified(notes)
         /\ \A i \in DOMAIN notes :
              /\ notes[i].about # "hotline"
              /\ notes[i].about = "reply" => notes[i].id = id /\ notes[i].to = who
<1> DEFINE first == <<NoteTo(who, "reply", id)>>
<1> DEFINE copies == ToEach(admins, "copy", 0)
<1> DEFINE notes == first \o copies
<1>1. /\ NoteTo(who, "reply", id) \in Note
      /\ NoteTo(who, "reply", id).about = "reply" /\ NoteTo(who, "reply", id).id = id
      /\ NoteTo(who, "reply", id).to = who
  BY DEF Note, NoteTo
<1>2. first \in Seq(Note) /\ Len(first) = 1 /\ first[1] = NoteTo(who, "reply", id)
  BY <1>1
<1>3. copies \in Seq(Note) /\ (\A p \in admins : \E i \in DOMAIN copies : copies[i].to = p)
      /\ \A i \in DOMAIN copies : copies[i].about = "copy"
  BY CopiesToEach
<1> HIDE DEF first, copies
<1>4. /\ notes \in Seq(Note) /\ Len(notes) = 1 + Len(copies)
      /\ \A i \in 1..(1 + Len(copies)) : notes[i] = IF i <= 1 THEN first[i] ELSE copies[i - 1]
  BY <1>2, <1>3, ConcatProperties
<1>5. DOMAIN notes = 1..(1 + Len(copies)) /\ DOMAIN copies = 1..Len(copies) /\ Len(copies) \in Nat
  BY <1>3, <1>4, LenProperties
<1> HIDE DEF notes
<1>6. \A p \in admins : p \in Notified(notes)
  <2> TAKE p \in admins
  <2>1. PICK i \in DOMAIN copies : copies[i].to = p
    BY <1>3
  <2>2. i + 1 \in DOMAIN notes /\ notes[i + 1] = copies[i]
    BY <1>4, <1>5
  <2> QED
    BY <2>1, <2>2 DEF Notified
<1>7. ASSUME NEW i \in DOMAIN notes
      PROVE  /\ notes[i].about # "hotline"
             /\ notes[i].about = "reply" => notes[i].id = id /\ notes[i].to = who
  <2>1. CASE i = 1
    <3>1. notes[i] = first[1]
      BY <1>4, <1>5, <2>1
    <3> QED
      BY <1>1, <1>2, <3>1
  <2>2. CASE i # 1
    <3>1. notes[i] = copies[i - 1] /\ i - 1 \in DOMAIN copies
      BY <1>4, <1>5, <2>2
    <3> QED
      BY <1>3, <3>1
  <2> QED
    BY <2>1, <2>2
<1> QED
  BY <1>4, <1>6, <1>7 DEF notes, first, copies

\* REPLY: the author gets the words and the admins a copy each.
LEMMA ReplyStep ==
  ASSUME Sane, NEW h \in Handler, Reply(h)
  PROVE  CommandStep(h)
<1>1. At(h, "execute") /\ KeepsTables /\ KeepsRest /\ neglected' = neglected /\ faults' = faults
      /\ Exec(h).command = "REPLY" /\ VerdictOn(h) = "run"
  BY DEF Reply, Runs
<1>2. TablesStep(h) /\ MembersOf(members') \ MembersOf(members) = {} /\ hotline' = hotline
  BY <1>1, SameTables DEF KeepsTables, tables
<1>3. CASE Conclude(h, "ERROR", << >>)
  <2>1. \E result : Outcome(h, result)
    BY <1>1, <1>2, <1>3, PlainOutcome, EmptyPlain DEF Status
  <2> QED
    BY <1>1, <1>2, <2>1 DEF CommandStep
<1>4. ASSUME NEW x \in RowOf(Exec(h).payload.number),
             Conclude(h, "SUCCESS", <<NoteTo(x.who, "reply", Exec(h).payload.number)>>
                                      \o ToEach(AdminsOf(Chan(h).members), "copy", 0))
      PROVE  CommandStep(h)
  <2>1. x \in hotline /\ x \in Row /\ x.id = Exec(h).payload.number
        /\ x.who \in Person /\ x.id \in Nat
    BY <1>4 DEF Sane, TablesOK, Row, RowOf
  <2>2. PICK admins \in SUBSET Person : admins = AdminsOf(Chan(h).members)
    BY DEF AdminsOf
  <2> DEFINE notes == <<NoteTo(x.who, "reply", x.id)>> \o ToEach(admins, "copy", 0)
  <2>3. /\ notes \in Seq(Note) /\ \A p \in admins : p \in Notified(notes)
        /\ \A i \in DOMAIN notes :
             /\ notes[i].about # "hotline"
             /\ notes[i].about = "reply" => notes[i].id = x.id /\ notes[i].to = x.who
    BY <2>1, NotesOfReply
  <2> DEFINE result == [command |-> "REPLY", status |-> "SUCCESS", notes |-> notes]
  <2>4. Concluded(h, result)
    BY <1>1, <1>4, <2>1, <2>2 DEF Conclude
  <2> HIDE DEF notes
  <2>5. result \in Result
    BY <2>3 DEF Result, Command, TakesMessageId
  <2>6. result.command = "REPLY" /\ result.status = "SUCCESS" /\ result.notes = notes
    OBVIOUS
  <2> HIDE DEF result
  <2>7. handler[h].sender = "ADMIN" /\ From(h) \in Person
    BY <1>1, RunOK, ExecOK DEF ValidSubscriberCommands
  <2>8. Chan(h).members[From(h)] # handler[h].sender \/ From(h) \in Notified(notes)
    BY <2>2, <2>3, <2>7 DEF AdminsOf
  <2>9. x = [id |-> x.id, who |-> x.who]
    BY <2>1 DEF Row
  <2>10. \A i \in DOMAIN notes :
           /\ notes[i].about # "hotline"
           /\ notes[i].about = "reply" => [id |-> notes[i].id, who |-> notes[i].to] \in hotline'
    BY <1>2, <2>1, <2>3, <2>9
  <2>11. Outcome(h, result)
    BY <1>1, <1>2, <2>4, <2>5, <2>6, <2>8, <2>10 DEF Outcome
  <2> QED
    BY <1>1, <1>2, <2>11 DEF CommandStep
<1> QED
  BY <1>3, <1>4 DEF Reply

\* BROADCAST and PRIVATE: everybody they go to gets one.
LEMMA CopiesStep ==
  ASSUME Sane, NEW h \in Handler, NEW command \in {"BROADCAST", "PRIVATE"}, Runs(h, command),
         NEW people \in SUBSET Person, CopiesTo(h, people),
         AdminsOf(Chan(h).members) \subseteq people,
         command = "BROADCAST" => people = MembersOf(Chan(h).members)
  PROVE  CommandStep(h)
<1> DEFINE notes == ToEach(people, "copy", 0)
<1> DEFINE result == [command |-> command, status |-> "SUCCESS", notes |-> notes]
<1>1. At(h, "execute") /\ KeepsTables /\ KeepsRest /\ neglected' = neglected /\ faults' = faults
      /\ Exec(h).command = command /\ VerdictOn(h) = "run" /\ Conclude(h, "SUCCESS", notes)
  BY DEF CopiesTo, Runs
<1>2. TablesStep(h) /\ MembersOf(members') \ MembersOf(members) = {}
  BY <1>1, SameTables
<1>3. notes \in Seq(Note) /\ Len(notes) = Cardinality(people)
      /\ (\A p \in people : \E i \in DOMAIN notes : notes[i].to = p)
      /\ \A i \in DOMAIN notes : notes[i].about = "copy"
  BY CopiesToEach
<1>4. Concluded(h, result)
  BY <1>1 DEF Conclude
<1> HIDE DEF notes
<1>5. result \in Result
  BY <1>3 DEF Result, Command, TakesText
<1>6. handler[h].sender = "ADMIN" /\ From(h) \in Person
  BY <1>1, RunOK, ExecOK DEF ValidSubscriberCommands
<1>7. Chan(h).members[From(h)] # handler[h].sender \/ From(h) \in Notified(notes)
  <2> SUFFICES ASSUME Chan(h).members[From(h)] = "ADMIN" PROVE From(h) \in Notified(notes)
    BY <1>6
  <2>1. From(h) \in people
    BY <1>6 DEF AdminsOf
  <2> QED
    BY <1>3, <2>1 DEF Notified
<1>8. result.command = command /\ result.status = "SUCCESS" /\ result.notes = notes
  OBVIOUS
<1> HIDE DEF result
<1>9. Outcome(h, result)
  BY <1>1, <1>2, <1>3, <1>4, <1>5, <1>7, <1>8 DEF Outcome
<1> QED
  BY <1>1, <1>2, <1>9 DEF CommandStep

LEMMA BroadcastStep ==
  ASSUME Sane, NEW h \in Handler, Broadcast(h) \/ Private(h)
  PROVE  CommandStep(h)
<1>1. /\ MembersOf(Chan(h).members) \in SUBSET Person /\ AdminsOf(Chan(h).members) \in SUBSET Person
      /\ AdminsOf(Chan(h).members) \subseteq MembersOf(Chan(h).members)
  BY DEF MembersOf, AdminsOf
<1>2. CASE Broadcast(h)
  BY <1>1, <1>2, CopiesStep DEF Broadcast
<1>3. CASE Private(h)
  BY <1>1, <1>3, CopiesStep DEF Private
<1> QED
  BY <1>2, <1>3

\* A change of one membership.
LEMMA SetMemberGrows ==
  ASSUME TablesOK, NEW p, NEW type \in MemberType, SetMember(p, type)
  PROVE  /\ members' \in [Person -> MemberType]
         /\ MembersOf(members') \ MembersOf(members) \subseteq {p}
         /\ type = "NONE" => MembersOf(members') \ MembersOf(members) = {}
  BY DEF TablesOK, SetMember, MembersOf, MemberType

\* A command that may write members, bans, invites and the waiting list.
LEMMA OtherTables ==
  ASSUME Sane, NEW h \in Handler,
         members' \in [Person -> MemberType], settings' = settings,
         banned \subseteq banned' /\ banned' \subseteq Person,
         invites' \subseteq Person \X Person, waitlist' \subseteq Nat,
         hotline' = hotline, lastId' = lastId,
         faults' = faults \/ faults' = faults + 1
  PROVE  TablesStep(h)
<1>1. faults \in Nat
  BY DEF Sane, TalliesOK
<1> QED
  BY <1>1 DEF TablesStep, TablesOK, Sane

\* A change of the membership that is logged.
LEMMA LoggedOutcome ==
  ASSUME Sane, NEW h \in Handler, At(h, "execute"), NEW notes, Plain(notes),
         ConcludeLogged(h, notes), neglected' = neglected,
         Exec(h).command \notin {"BROADCAST", "PRIVATE", "REPLY", "NONE"},
         MembersOf(members') \ MembersOf(members) \subseteq NewUsersOf(Msg(h), Exec(h).command)
  PROVE  /\ faults' = faults \/ faults' = faults + 1
         /\ \E result : Outcome(h, result)
<1>1. CASE Conclude(h, "SUCCESS", notes) /\ faults' = faults
  BY <1>1, PlainOutcome DEF Status
<1>2. CASE Fault /\ Conclude(h, "ERROR", << >>)
  BY <1>2, PlainOutcome, EmptyPlain, FaultCounts DEF Status
<1> QED
  BY <1>1, <1>2 DEF ConcludeLogged

\* One that changed nothing.
LEMMA ErrorOutcome ==
  ASSUME Sane, NEW h \in Handler, At(h, "execute"), neglected' = neglected, members' = members,
         Conclude(h, "ERROR", << >>) \/ Conclude(h, "UNAUTHORIZED", << >>)
  PROVE  \E result : Outcome(h, result)
  BY PlainOutcome, EmptyPlain DEF Status

LEMMA JoinStep ==
  ASSUME Sane, NEW h \in Handler, Join(h)
  PROVE  CommandStep(h)
<1>1. At(h, "execute") /\ KeepsRest /\ neglected' = neglected /\ Exec(h).command = "JOIN"
      /\ settings' = settings /\ banned' = banned /\ invites' = invites /\ waitlist' = waitlist
      /\ hotline' = hotline /\ lastId' = lastId
  BY DEF Join, Runs
<1>2. TablesOK
  BY DEF Sane
<1>3. CASE Conclude(h, "ERROR", << >>) /\ members' = members /\ faults' = faults
  <2>1. TablesStep(h)
    BY <1>1, <1>2, <1>3, OtherTables DEF TablesOK
  <2> QED
    BY <1>1, <1>3, <2>1, ErrorOutcome DEF CommandStep
<1>4. CASE /\ members' = [members EXCEPT ![From(h)] = IF @ = "NONE" THEN "SUBSCRIBER" ELSE @]
           /\ ConcludeLogged(h, << >>)
  <2>1. members' \in [Person -> MemberType]
        /\ MembersOf(members') \ MembersOf(members) \subseteq {From(h)}
    BY <1>2, <1>4 DEF TablesOK, MembersOf, MemberType
  <2>2. NewUsersOf(Msg(h), Exec(h).command) = {From(h)}
    BY <1>1 DEF NewUsersOf, From
  <2>3. /\ faults' = faults \/ faults' = faults + 1
        /\ \E result : Outcome(h, result)
    BY <1>1, <1>4, <2>1, <2>2, LoggedOutcome, EmptyPlain
  <2>4. TablesStep(h)
    BY <1>1, <1>2, <2>1, <2>3, OtherTables DEF TablesOK
  <2> QED
    BY <1>1, <2>3, <2>4 DEF CommandStep
<1> QED
  BY <1>3, <1>4 DEF Join

LEMMA AcceptStep ==
  ASSUME Sane, NEW h \in Handler, Accept(h)
  PROVE  CommandStep(h)
<1> DEFINE received == {i \in invites : i[2] = From(h)}
<1>1. At(h, "execute") /\ KeepsRest /\ neglected' = neglected /\ Exec(h).command = "ACCEPT"
      /\ settings' = settings /\ banned' = banned /\ waitlist' = waitlist
      /\ hotline' = hotline /\ lastId' = lastId
  BY DEF Accept, Runs
<1>2. TablesOK
  BY DEF Sane
<1>3. CASE Conclude(h, "ERROR", << >>) /\ members' = members /\ invites' = invites
           /\ faults' = faults
  <2>1. TablesStep(h)
    BY <1>1, <1>2, <1>3, OtherTables DEF TablesOK
  <2> QED
    BY <1>1, <1>3, <2>1, ErrorOutcome DEF CommandStep
<1>4. ASSUME SetMember(From(h), "SUBSCRIBER"), invites' = invites \ received,
             NEW i \in received,
             ConcludeLogged(h, Notices(IF members[i[1]] = "NONE" THEN {} ELSE {i[1]}))
      PROVE  CommandStep(h)
  <2>1. members' \in [Person -> MemberType]
        /\ MembersOf(members') \ MembersOf(members) \subseteq {From(h)}
    BY <1>2, <1>4, SetMemberGrows DEF MemberType
  <2>2. NewUsersOf(Msg(h), Exec(h).command) = {From(h)}
    BY <1>1 DEF NewUsersOf, From
  <2>3. PICK people \in SUBSET Person :
          people = IF members[i[1]] = "NONE" THEN {} ELSE {i[1]}
    BY <1>2 DEF TablesOK
  <2>4. Plain(Notices(people)) /\ ConcludeLogged(h, Notices(people))
    BY <1>4, <2>3, NoticesPlain
  <2>5. /\ faults' = faults \/ faults' = faults + 1
        /\ \E result : Outcome(h, result)
    BY <1>1, <2>1, <2>2, <2>4, LoggedOutcome
  <2>6. TablesStep(h)
    BY <1>1, <1>2, <1>4, <2>1, <2>5, OtherTables DEF TablesOK
  <2> QED
    BY <1>1, <2>5, <2>6 DEF CommandStep
<1> QED
  BY <1>3, <1>4 DEF Accept

LEMMA DeclineStep ==
  ASSUME Sane, NEW h \in Handler, Decline(h)
  PROVE  CommandStep(h)
<1>1. At(h, "execute") /\ KeepsRest /\ neglected' = neglected /\ Exec(h).command = "DECLINE"
      /\ members' = members /\ settings' = settings /\ banned' = banned /\ waitlist' = waitlist
      /\ hotline' = hotline /\ lastId' = lastId /\ faults' = faults
      /\ Conclude(h, "SUCCESS", << >>) /\ invites' \subseteq invites
  BY DEF Decline, Runs
<1>2. TablesStep(h)
  BY <1>1, OtherTables DEF Sane, TablesOK
<1>3. \E result : Outcome(h, result)
  BY <1>1, PlainOutcome, EmptyPlain DEF Status
<1> QED
  BY <1>1, <1>2, <1>3 DEF CommandStep

LEMMA InviteStep ==
  ASSUME Sane, NEW h \in Handler, Invite(h)
  PROVE  CommandStep(h)
<1> DEFINE new == {p \in Exec(h).payload.phones : members[p] = "NONE" /\ <<From(h), p>> \notin invites}
<1>1. At(h, "execute") /\ KeepsRest /\ neglected' = neglected /\ Exec(h).command = "INVITE"
      /\ members' = members /\ settings' = settings /\ banned' = banned /\ waitlist' = waitlist
      /\ hotline' = hotline /\ lastId' = lastId
  BY DEF Invite, Runs
<1>2. new \subseteq Person /\ From(h) \in Person /\ TablesOK
  BY <1>1, ExecOK DEF Payload, Sane
<1>3. CASE /\ invites' = invites /\ faults' = faults
           /\ Conclude(h, "ERROR", << >>) \/ Conclude(h, "UNAUTHORIZED", << >>)
  <2>1. TablesStep(h)
    BY <1>1, <1>2, <1>3, OtherTables DEF TablesOK
  <2> QED
    BY <1>1, <1>3, <2>1, ErrorOutcome DEF CommandStep
<1>4. ASSUME NEW to \in SUBSET new, NEW status \in Status,
             invites' = invites \cup {<<From(h), p>> : p \in to},
             Conclude(h, status, Notices(to)),
             faults' = faults \/ faults' = faults + 1
      PROVE  CommandStep(h)
  <2>1. TablesStep(h)
    <3>1. {<<From(h), p>> : p \in to} \subseteq Person \X Person
      BY <1>2
    <3> HIDE DEF new
    <3> QED
      BY <1>1, <1>2, <1>4, <3>1, OtherTables DEF TablesOK
  <2>2. to \in SUBSET Person
    BY <1>2
  <2>3. Plain(Notices(to))
    BY <2>2, NoticesPlain
  <2>4. \E result : Outcome(h, result)
    BY <1>1, <1>4, <2>3, PlainOutcome
  <2> QED
    BY <1>1, <2>1, <2>4 DEF CommandStep
<1>5. CASE invites' = invites \cup {<<From(h), p>> : p \in new}
           /\ Conclude(h, "SUCCESS", Notices(new)) /\ faults' = faults
  <2>1. "SUCCESS" \in Status
    BY DEF Status
  <2> HIDE DEF new
  <2>2. PICK to \in SUBSET new : to = new
    OBVIOUS
  <2> QED
    BY <1>4, <1>5, <2>1, <2>2
<1>6. ASSUME NEW failed \in SUBSET new, Fault,
             invites' = invites \cup {<<From(h), p>> : p \in new \ failed},
             Conclude(h, "ERROR", Notices(new \ failed))
      PROVE  CommandStep(h)
  <2>1. "ERROR" \in Status
    BY DEF Status
  <2> HIDE DEF new
  <2>2. PICK to \in SUBSET new : to = new \ failed
    OBVIOUS
  <2>3. faults' = faults + 1
    BY <1>6, FaultCounts
  <2> QED
    BY <1>4, <1>6, <2>1, <2>2, <2>3
<1> QED
  BY <1>3, <1>5, <1>6 DEF Invite

LEMMA LeaveStep ==
  ASSUME Sane, NEW h \in Handler, Leave(h)
  PROVE  CommandStep(h)
<1>1. At(h, "execute") /\ KeepsRest /\ neglected' = neglected /\ Exec(h).command = "LEAVE"
      /\ settings' = settings /\ banned' = banned /\ waitlist' = waitlist /\ invites' = invites
      /\ hotline' = hotline /\ lastId' = lastId
  BY DEF Leave, Runs
<1>2. TablesOK
  BY DEF Sane
<1>3. CASE Conclude(h, "UNAUTHORIZED", << >>) /\ members' = members /\ faults' = faults
  <2>1. TablesStep(h)
    BY <1>1, <1>2, <1>3, OtherTables DEF TablesOK
  <2> QED
    BY <1>1, <1>3, <2>1, ErrorOutcome DEF CommandStep
<1>4. CASE /\ SetMember(From(h), "NONE")
           /\ ConcludeLogged(h, Notices(IF handler[h].sender = "ADMIN" THEN Bystanders(h, {}) ELSE {}))
  <2>1. members' \in [Person -> MemberType]
        /\ MembersOf(members') \ MembersOf(members) = {}
    BY <1>2, <1>4, SetMemberGrows DEF MemberType
  <2>2. PICK people \in SUBSET Person :
          people = IF handler[h].sender = "ADMIN" THEN Bystanders(h, {}) ELSE {}
    BY DEF Bystanders, AdminsOf
  <2>3. Plain(Notices(people)) /\ ConcludeLogged(h, Notices(people))
    BY <1>4, <2>2, NoticesPlain
  <2>4. /\ faults' = faults \/ faults' = faults + 1
        /\ \E result : Outcome(h, result)
    BY <1>1, <2>1, <2>3, LoggedOutcome
  <2>5. TablesStep(h)
    BY <1>1, <1>2, <1>4, <2>1, <2>4, OtherTables DEF TablesOK
  <2> QED
    BY <1>1, <2>4, <2>5 DEF CommandStep
<1> QED
  BY <1>3, <1>4 DEF Leave

\* Notices to one person and to the admins who look on.
LEMMA NoticesToBoth ==
  ASSUME NEW h \in Handler, NEW p \in Person, NEW others
  PROVE  Plain(Notices({p}) \o Notices(Bystanders(h, others)))
<1>1. {p} \in SUBSET Person
  OBVIOUS
<1>2. PICK people \in SUBSET Person : people = Bystanders(h, others)
  BY DEF Bystanders, AdminsOf
<1>3. Plain(Notices({p})) /\ Plain(Notices(people))
  BY <1>1, NoticesPlain
<1> QED
  BY <1>2, <1>3, ConcatPlain

LEMMA AddStep ==
  ASSUME Sane, NEW h \in Handler, Add(h)
  PROVE  CommandStep(h)
<1>1. At(h, "execute") /\ KeepsRest /\ neglected' = neglected /\ Exec(h).command = "ADD"
      /\ settings' = settings /\ banned' = banned /\ waitlist' = waitlist /\ invites' = invites
      /\ hotline' = hotline /\ lastId' = lastId /\ VerdictOn(h) = "run"
  BY DEF Add, Runs
<1>2. TablesOK
  BY DEF Sane
<1>3. CASE Conclude(h, "ERROR", << >>) /\ members' = members /\ faults' = faults
  <2>1. TablesStep(h)
    BY <1>1, <1>2, <1>3, OtherTables DEF TablesOK
  <2> QED
    BY <1>1, <1>3, <2>1, ErrorOutcome DEF CommandStep
<1>4. CASE /\ SetMember(Payload1(h), "ADMIN")
           /\ ConcludeLogged(h, Notices({Payload1(h)}) \o Notices(Bystanders(h, {})))
  <2>1. members' \in [Person -> MemberType]
        /\ MembersOf(members') \ MembersOf(members) \subseteq {Payload1(h)}
    BY <1>2, <1>4, SetMemberGrows DEF MemberType
  <2>2. NewUsersOf(Msg(h), Exec(h).command) = {Payload1(h)}
    BY <1>1 DEF NewUsersOf, Payload1
  <2>3. PICK p \in Person : p = Payload1(h)
    BY <1>1, PhoneOK DEF TakesPhone
  <2>4. Plain(Notices({p}) \o Notices(Bystanders(h, {})))
    BY NoticesToBoth
  <2>5. /\ faults' = faults \/ faults' = faults + 1
        /\ \E result : Outcome(h, result)
    BY <1>1, <1>4, <2>1, <2>2, <2>3, <2>4, LoggedOutcome
  <2>6. TablesStep(h)
    BY <1>1, <1>2, <1>4, <2>1, <2>5, OtherTables DEF TablesOK
  <2> QED
    BY <1>1, <2>5, <2>6 DEF CommandStep
<1> QED
  BY <1>3, <1>4 DEF Add

LEMMA RemoveMemberStep ==
  ASSUME Sane, NEW h \in Handler, RemoveMember(h)
  PROVE  CommandStep(h)
<1>1. At(h, "execute") /\ KeepsRest /\ Exec(h).command = "REMOVE"
      /\ settings' = settings /\ banned' = banned /\ waitlist' = waitlist /\ invites' = invites
      /\ hotline' = hotline /\ lastId' = lastId /\ VerdictOn(h) = "run"
  BY DEF RemoveMember, Runs
<1>2. TablesOK
  BY DEF Sane
<1>3. CASE /\ Conclude(h, "ERROR", << >>) /\ members' = members /\ neglected' = neglected
           /\ faults' = faults \/ faults' = faults + 1
  <2>1. TablesStep(h)
    BY <1>1, <1>2, <1>3, OtherTables DEF TablesOK
  <2> QED
    BY <1>1, <1>3, <2>1, ErrorOutcome DEF CommandStep
<1>4. CASE Finish(h, TRUE) /\ members' = members /\ faults' = faults
  <2>1. TablesStep(h)
    BY <1>1, <1>2, <1>4, OtherTables DEF TablesOK
  <2> QED
    BY <1>1, <1>4, <2>1 DEF CommandStep, Thrown
<1>5. CASE /\ SetMember(Payload1(h), "NONE") /\ neglected' = neglected
           /\ ConcludeLogged(h, Notices({Payload1(h)}) \o Notices(Bystanders(h, {Payload1(h)})))
  <2>1. members' \in [Person -> MemberType]
        /\ MembersOf(members') \ MembersOf(members) = {}
    BY <1>2, <1>5, SetMemberGrows DEF MemberType
  <2>2. PICK p \in Person : p = Payload1(h)
    BY <1>1, PhoneOK DEF TakesPhone
  <2>3. Plain(Notices({p}) \o Notices(Bystanders(h, {p})))
    BY NoticesToBoth
  <2>4. /\ faults' = faults \/ faults' = faults + 1
        /\ \E result : Outcome(h, result)
    BY <1>1, <1>5, <2>1, <2>2, <2>3, LoggedOutcome
  <2>5. TablesStep(h)
    BY <1>1, <1>2, <1>5, <2>1, <2>4, OtherTables DEF TablesOK
  <2> QED
    BY <1>1, <2>4, <2>5 DEF CommandStep
<1> QED
  BY <1>3, <1>4, <1>5, FaultCounts DEF RemoveMember

LEMMA BanStep ==
  ASSUME Sane, NEW h \in Handler, Ban(h)
  PROVE  CommandStep(h)
<1>1. At(h, "execute") /\ KeepsRest /\ Exec(h).command = "BAN" /\ neglected' = neglected
      /\ settings' = settings /\ waitlist' = waitlist /\ invites' = invites
      /\ hotline' = hotline /\ lastId' = lastId /\ faults' = faults
  BY DEF Ban, Runs
<1>2. TablesOK
  BY DEF Sane
<1>3. CASE Conclude(h, "ERROR", << >>) /\ members' = members /\ banned' = banned
  <2>1. TablesStep(h)
    BY <1>1, <1>2, <1>3, OtherTables DEF TablesOK
  <2> QED
    BY <1>1, <1>3, <2>1, ErrorOutcome DEF CommandStep
<1>4. ASSUME NEW x \in hotline, banned' = banned \cup {x.who}, SetMember(x.who, "NONE"),
             Conclude(h, "SUCCESS", Notices({x.who}) \o Notices(Bystanders(h, {})))
      PROVE  CommandStep(h)
  <2>1. members' \in [Person -> MemberType]
        /\ MembersOf(members') \ MembersOf(members) = {}
    BY <1>2, <1>4, SetMemberGrows DEF MemberType
  <2>2. PICK p \in Person : p = x.who
    BY <1>2 DEF TablesOK, Row
  <2>3. Plain(Notices({p}) \o Notices(Bystanders(h, {})))
    BY NoticesToBoth
  <2>4. \E result : Outcome(h, result)
    BY <1>1, <1>4, <2>1, <2>2, <2>3, PlainOutcome DEF Status
  <2>5. TablesStep(h)
    BY <1>1, <1>2, <1>4, <2>1, <2>2, OtherTables DEF TablesOK
  <2> QED
    BY <1>1, <2>4, <2>5 DEF CommandStep
<1> QED
  BY <1>3, <1>4 DEF Ban, RowOf

\* A setting other than the timer.
LEMMA ChangeSettingStep ==
  ASSUME Sane, NEW h \in Handler, At(h, "execute"), NEW changed \in Settings,
         changed.expiry = settings.expiry, ChangeSetting(h, changed),
         Exec(h).command \notin {"BROADCAST", "PRIVATE", "REPLY", "NONE"}
  PROVE  CommandStep(h)
<1>1. KeepsRest /\ neglected' = neglected /\ settings' = changed /\ members' = members
      /\ banned' = banned /\ waitlist' = waitlist /\ invites' = invites
      /\ hotline' = hotline /\ lastId' = lastId /\ faults' = faults
      /\ Conclude(h, "SUCCESS", Notices(Bystanders(h, {})))
  BY DEF ChangeSetting
<1>2. PICK people \in SUBSET Person : people = Bystanders(h, {})
  BY DEF Bystanders, AdminsOf
<1>3. Plain(Notices(people))
  BY NoticesPlain
<1>4. \E result : Outcome(h, result)
  BY <1>1, <1>2, <1>3, PlainOutcome DEF Status
<1>5. TablesStep(h)
  BY <1>1 DEF TablesStep, TablesOK, TalliesOK, Sane
<1> QED
  BY <1>1, <1>4, <1>5 DEF CommandStep

LEMMA SettingSteps ==
  ASSUME Sane, NEW h \in Handler,
         \/ ToggleSetting(h, "HOTLINE_ON", TRUE) \/ ToggleSetting(h, "HOTLINE_OFF", FALSE)
         \/ SetVouchMode(h, "VOUCHING_ON", "ON") \/ SetVouchMode(h, "VOUCHING_OFF", "OFF")
         \/ SetVouchMode(h, "VOUCHING_ADMIN", "ADMIN") \/ SetVouchLevel(h)
  PROVE  CommandStep(h)
<1>1. settings \in Settings
  BY DEF Sane, TablesOK
<1>2. ASSUME NEW b \in BOOLEAN, NEW command \in {"HOTLINE_ON", "HOTLINE_OFF"},
             ToggleSetting(h, command, b)
      PROVE  CommandStep(h)
  <2>1. PICK changed \in Settings : changed = [settings EXCEPT !.hotlineOn = b]
    BY <1>1 DEF Settings
  <2>2. changed.expiry = settings.expiry
    BY <1>1, <2>1 DEF Settings
  <2> QED
    BY <1>2, <2>1, <2>2, ChangeSettingStep DEF ToggleSetting, Runs
<1>3. ASSUME NEW mode \in Vouching, NEW command \in {"VOUCHING_ON", "VOUCHING_OFF", "VOUCHING_ADMIN"},
             SetVouchMode(h, command, mode)
      PROVE  CommandStep(h)
  <2>1. PICK changed \in Settings : changed = [settings EXCEPT !.vouchMode = mode]
    BY <1>1 DEF Settings
  <2>2. changed.expiry = settings.expiry
    BY <1>1, <2>1 DEF Settings
  <2> QED
    BY <1>3, <2>1, <2>2, ChangeSettingStep DEF SetVouchMode, Runs
<1>4. CASE SetVouchLevel(h)
  <2>1. Exec(h).payload.number \in 1..MaxVouchLevel
    BY <1>4, LevelOK DEF SetVouchLevel, Runs
  <2>2. PICK changed \in Settings : changed = [settings EXCEPT !.vouchLevel = Exec(h).payload.number]
    BY <1>1, <2>1 DEF Settings
  <2>3. changed.expiry = settings.expiry
    BY <1>1, <2>2 DEF Settings
  <2> QED
    BY <1>4, <2>2, <2>3, ChangeSettingStep DEF SetVouchLevel, Runs
<1> QED
  BY <1>2, <1>3, <1>4 DEF Vouching

LEMMA CreateChannelStep ==
  ASSUME Sane, NEW h \in Handler, CreateChannel(h)
  PROVE  CommandStep(h)
<1>1. At(h, "execute") /\ KeepsRest /\ neglected' = neglected /\ Exec(h).command = "CHANNEL"
      /\ members' = members /\ settings' = settings /\ banned' = banned /\ invites' = invites
      /\ hotline' = hotline /\ lastId' = lastId /\ faults' = faults
      /\ waitlist' \subseteq waitlist \cup {Msg(h).n}
  BY DEF CreateChannel, Runs
<1>2. PICK status \in Status : Conclude(h, status, << >>)
  BY DEF CreateChannel, Status
<1>3. \E result : Outcome(h, result)
  BY <1>1, <1>2, PlainOutcome, EmptyPlain
<1>4. Msg(h).n \in Nat
  BY <1>1, ExecOK
<1>5. TablesStep(h)
  BY <1>1, <1>4, OtherTables DEF Sane, TablesOK
<1> QED
  BY <1>1, <1>3, <1>5 DEF CommandStep

\* A hotline message: its author's row is found or made, and the admins are told
\* its number.
LEMMA HandleHotlineStep ==
  ASSUME Sane, NEW h \in Handler, HandleHotline(h)
  PROVE  CommandStep(h)
<1>1. At(h, "execute") /\ KeepsRest /\ members' = members /\ settings' = settings
      /\ banned' = banned /\ invites' = invites /\ waitlist' = waitlist
  BY DEF HandleHotline
<1>2. From(h) \in Person /\ faults \in Nat /\ TablesOK
  BY <1>1, ExecOK DEF Sane, TalliesOK
<1>3. CASE Fault /\ Finish(h, TRUE) /\ hotline' = hotline /\ lastId' = lastId
  <2>1. faults' = faults + 1
    BY <1>3, FaultCounts
  <2>2. TablesStep(h)
    BY <1>1, <1>2, <1>3, <2>1, OtherTables DEF TablesOK
  <2> QED
    BY <1>1, <1>3, <2>2 DEF CommandStep, Thrown
<1> DEFINE row == CHOOSE x \in hotline' : x.who = From(h)
<1>4. CASE /\ GetMessageId(From(h)) /\ neglected' = neglected /\ faults' = faults
           /\ Concluded(h, [command |-> "NONE", status |-> "SUCCESS",
                            notes |-> ToEach(AdminsOf(Chan(h).members), "hotline", row.id)])
  <2>1. \/ hotline' = hotline /\ lastId' = lastId /\ \E x \in hotline : x.who = From(h)
        \/ /\ lastId' = lastId + 1 /\ hotline' = hotline \cup {[id |-> lastId + 1, who |-> From(h)]}
           /\ \A x \in hotline : x.who # From(h)
    BY <1>4 DEF GetMessageId
  <2>2. hotline' \subseteq Row /\ lastId' \in Nat
    BY <1>2, <2>1 DEF TablesOK, Row
  <2>3. TablesStep(h)
    BY <1>1, <1>2, <1>4, <2>1, <2>2 DEF TablesStep, TablesOK
  <2>4. \E x \in hotline' : x.who = From(h)
    <3>1. [id |-> lastId + 1, who |-> From(h)].who = From(h)
      OBVIOUS
    <3> QED
      BY <2>1, <3>1
  <2>5. row \in hotline' /\ row.who = From(h)
    BY <2>4
  <2>6. PICK id \in Nat, admins \in SUBSET Person :
          id = row.id /\ admins = AdminsOf(Chan(h).members)
    BY <2>2, <2>5 DEF Row, AdminsOf
  <2>7. [id |-> id, who |-> From(h)] \in hotline'
    BY <2>2, <2>5, <2>6 DEF Row
  <2> DEFINE notes == ToEach(admins, "hotline", id)
  <2> DEFINE result == [command |-> "NONE", status |-> "SUCCESS", notes |-> notes]
  <2>8. Concluded(h, result)
    BY <1>4, <2>6
  <2>9. /\ notes \in Seq(Note) /\ Len(notes) = Cardinality(admins)
        /\ \A i \in DOMAIN notes : notes[i].about = "hotline" /\ notes[i].id = id
    BY AnnouncedToEach
  <2> HIDE DEF notes
  <2>10. result \in Result
    BY <2>9 DEF Result, Command, TakesText
  <2>11. result.command = "NONE" /\ result.status = "SUCCESS" /\ result.notes = notes
    OBVIOUS
  <2> HIDE DEF result, row
  <2>12. ~RelayedOnly(result) /\ MembersOf(members') \ MembersOf(members) = {}
    BY <1>1, <2>11 DEF RelayedOnly
  <2>13. Outcome(h, result)
    BY <1>4, <2>6, <2>7, <2>8, <2>9, <2>10, <2>11, <2>12 DEF Outcome
  <2> QED
    BY <1>1, <2>3, <2>13 DEF CommandStep
<1> QED
  BY <1>3, <1>4 DEF HandleHotline

\* Whatever a message asks for.
LEMMA CommandOutcome ==
  ASSUME Sane, NEW h \in Handler, ProcessCommand(h)
  PROVE  CommandStep(h)
<1>1. CASE Refuse(h) \/ HotlineIsOff(h) \/ HandleHotline(h) \/ DbError(h) \/ DbErrorThrown(h)
  BY <1>1, RefuseStep, HotlineIsOffStep, HandleHotlineStep, DbErrorStep, DbErrorThrownStep
<1>2. CASE Join(h) \/ Accept(h) \/ Decline(h) \/ Invite(h) \/ Leave(h)
  BY <1>2, JoinStep, AcceptStep, DeclineStep, InviteStep, LeaveStep
<1>3. CASE Add(h) \/ RemoveMember(h) \/ Ban(h) \/ Reply(h)
  BY <1>3, AddStep, RemoveMemberStep, BanStep, ReplyStep
<1>4. CASE \/ ToggleSetting(h, "HOTLINE_ON", TRUE) \/ ToggleSetting(h, "HOTLINE_OFF", FALSE)
           \/ SetVouchMode(h, "VOUCHING_ON", "ON") \/ SetVouchMode(h, "VOUCHING_OFF", "OFF")
           \/ SetVouchMode(h, "VOUCHING_ADMIN", "ADMIN") \/ SetVouchLevel(h)
  BY <1>4, SettingSteps
<1>5. CASE Help(h) \/ Info(h) \/ Request(h) \/ SetLanguage(h) \/ ConfirmDestroy(h)
  BY <1>5, TellStep DEF Help, Info, Request, SetLanguage, ConfirmDestroy
<1>6. CASE Broadcast(h) \/ Private(h) \/ CreateChannel(h) \/ Restart(h)
  BY <1>6, BroadcastStep, CreateChannelStep, RestartStep
<1> QED
  BY <1>1, <1>2, <1>3, <1>4, <1>5, <1>6 DEF ProcessCommand

-----------------------------------------------------------------------------
(* Every state is sane.                                                    *)

LEMMA SaneInit == Init => Sane
<1> SUFFICES ASSUME Init PROVE Sane
  OBVIOUS
<1>1. PICK x \in Inboxes : kind = x.kind /\ inbox = x.messages
  BY DEF Init
<1>2. FirstSettings \in Settings
  BY LimitAssumption DEF FirstSettings, Settings, Vouching, Expiry
<1>3. HandlersOK /\ \A h \in Handler : handler[h] = Idle
  BY IdleOK DEF Init, HandlersOK
<1>4. TablesOK
  BY <1>2, MemberAssumption DEF Init, TablesOK, MemberType
<1>5. TalliesOK
  BY LimitAssumption DEF Init, TalliesOK
<1>6. RestOK
  <2>1. inbox \subseteq Arriving
    BY <1>1 DEF Arriving
  <2>2. 1 \in Expiry
    BY DEF Expiry
  <2>3. timers \in [Person -> Expiry]
    BY <2>2 DEF Init
  <2>4. raced \in BOOLEAN
    BY DEF Init
  <2> QED
    BY <2>1, <2>3, <2>4 DEF RestOK
<1> QED
  BY <1>3, <1>4, <1>5, <1>6, IdleOK DEF Sane

\* One handler's step leaves the others' variables alone.
LEMMA LocalStep ==
  ASSUME Sane, NEW h \in Handler, HandlersOK', Others(h), LocalOK(handler'[h])
  PROVE  \A g \in Handler : LocalOK(handler'[g])
<1> TAKE g \in Handler
<1>1. CASE g = h
  BY <1>1
<1>2. CASE g # h
  <2>1. handler'[g] = handler[g]
    BY <1>2 DEF Others
  <2> QED
    BY <2>1 DEF Sane
<1> QED
  BY <1>1, <1>2

\* A handler's end.
LEMMA SaneFinish ==
  ASSUME Sane, NEW h \in Handler, NEW excused, Finish(h, excused), TablesOK', TalliesOK', RestOK'
  PROVE  Sane'
<1>1. HandlersOK' /\ Others(h) /\ handler'[h] = Idle
  BY FinishEffect DEF Sane
<1>2. \A g \in Handler : LocalOK(handler'[g])
  BY <1>1, IdleOK, LocalStep
<1> QED
  BY <1>1, <1>2 DEF Sane

\* A step of a handler that changes nothing else.
LEMMA SaneTables ==
  ASSUME Sane, UNCHANGED tables
  PROVE  TablesOK'
  BY DEF Sane, TablesOK, tables

LEMMA SaneTallies ==
  ASSUME Sane, UNCHANGED <<counts, out, air, resend, faults>>
  PROVE  TalliesOK'
  BY DEF Sane, TalliesOK

LEMMA SaneRest ==
  ASSUME Sane, UNCHANGED <<inbox, timers, raced>>
  PROVE  RestOK'
  BY DEF Sane, RestOK

LEMMA SaneReceive ==
  ASSUME Sane, NEW h \in Handler, Receive(h)
  PROVE  Sane'
<1>1. PICK m \in inbox :
        /\ inbox' = inbox \ {m}
        /\ handler' = [handler EXCEPT ![h] = Reading(m)]
        /\ timers' = IF m.timer > 0 THEN [timers EXCEPT ![m.from] = m.timer] ELSE timers
        /\ raced' = (raced \/ \E g \in Handler :
             ~At(g, "idle") /\ (m.timer > 0 \/ Msg(g).timer > 0))
  BY DEF Receive, Reading
<1>2. m \in Arriving
  BY DEF Sane, RestOK
<1>3. HandlersOK' /\ Others(h) /\ handler'[h].pc = "read" /\ handler'[h].msg = m
  BY <1>1, <1>2, ReceiveEffect DEF Sane
<1>4. LocalOK(handler'[h])
  BY <1>2, <1>3 DEF LocalOK
<1>5. \A g \in Handler : LocalOK(handler'[g])
  BY <1>3, <1>4, LocalStep
<1>6. TablesOK' /\ TalliesOK'
  BY SaneTables, SaneTallies DEF Receive, resending
<1>7. m.timer \in 0..2
  BY <1>2, MessageOK
<1>8. timers' \in [Person -> Expiry]
  <2>1. timers \in [Person -> Expiry]
    BY DEF Sane, RestOK
  <2>2. CASE m.timer > 0
    <3>1. m.timer \in Expiry
      BY <1>7, <2>2 DEF Expiry
    <3>2. timers' = [timers EXCEPT ![m.from] = m.timer]
      BY <1>1, <2>2
    <3> QED
      BY <2>1, <3>1, <3>2
  <2>3. CASE ~(m.timer > 0)
    BY <1>1, <2>1, <2>3
  <2> QED
    BY <2>2, <2>3
<1>9. raced' \in BOOLEAN
  BY <1>1
<1>10. RestOK'
  BY <1>1, <1>8, <1>9 DEF Sane, RestOK
<1> QED
  BY <1>3, <1>5, <1>6, <1>10 DEF Sane

LEMMA SaneRead ==
  ASSUME Sane, NEW h \in Handler, FetchChannel(h) \/ ClassifyPhoneNumber(h)
  PROVE  Sane'
<1>1. PICK what \in {"channel", "sender"}, chan \in [members: [Person -> MemberType], set: Settings],
           sender \in MemberType : Read(h, what, chan, sender)
  <2>1. Chan(h) \in [members: [Person -> MemberType], set: Settings] /\ handler[h].sender \in MemberType
    BY HandlerFields DEF Sane, Chan
  <2>2. [members |-> members, set |-> settings] \in [members: [Person -> MemberType], set: Settings]
    BY DEF Sane, TablesOK
  <2>3. CASE FetchChannel(h)
    BY <2>1, <2>2, <2>3 DEF FetchChannel
  <2>4. CASE ClassifyPhoneNumber(h)
    <3>1. handler[h].pc = "read" /\ handler[h].msg \in Arriving
      BY <2>4 DEF ClassifyPhoneNumber, Read, At, Sane, LocalOK
    <3>2. members[From(h)] \in MemberType
      BY <3>1, MessageOK DEF Sane, TablesOK, From, Msg
    <3> QED
      BY <2>1, <2>4, <3>2 DEF ClassifyPhoneNumber
  <2> QED
    BY <2>3, <2>4
<1>2. handler[h].pc = "read" /\ handler[h].msg \in Arriving
  BY <1>1 DEF Read, At, Sane, LocalOK
<1>3. /\ HandlersOK' /\ Others(h) /\ handler'[h].msg = handler[h].msg
      /\ handler'[h].pc = IF handler[h].needs = {what} THEN "banned" ELSE "read"
      /\ handler'[h].needs = handler[h].needs \ {what}
  BY <1>1, ReadEffect DEF Sane
<1>4. LocalOK(handler'[h])
  BY <1>2, <1>3 DEF LocalOK
<1>5. \A g \in Handler : LocalOK(handler'[g])
  BY <1>3, <1>4, LocalStep
<1>6. TablesOK' /\ TalliesOK' /\ RestOK'
  BY <1>1, SaneTables, SaneTallies, SaneRest DEF Read, resending, history
<1> QED
  BY <1>3, <1>5, <1>6 DEF Sane

LEMMA SaneDetectBanned ==
  ASSUME Sane, NEW h \in Handler, DetectBanned(h)
  PROVE  Sane'
<1>1. TablesOK' /\ TalliesOK' /\ RestOK'
  BY SaneTables, SaneTallies, SaneRest DEF DetectBanned, resending
<1>2. CASE Finish(h, TRUE)
  BY <1>1, <1>2, SaneFinish
<1>3. CASE Step(h, IF Msg(h).timer > 0 THEN "timer" ELSE "execute")
  <2> DEFINE p == IF Msg(h).timer > 0 THEN "timer" ELSE "execute"
  <2>1. p \in Pc
    BY DEF Pc
  <2>2. handler[h].pc = "banned" /\ handler[h].msg \in Arriving /\ handler[h].needs = {}
    BY DEF DetectBanned, At, Sane, LocalOK
  <2>3. HandlersOK' /\ Others(h) /\ handler'[h].pc = p /\ SameBut(handler[h], handler'[h])
    BY <1>3, <2>1, StepEffect DEF Sane
  <2>4. handler[h].msg.timer \in 0..2
    BY <2>2, MessageOK
  <2>5. LocalOK(handler'[h])
    BY <2>2, <2>3, <2>4 DEF LocalOK, SameBut, Msg
  <2>6. \A g \in Handler : LocalOK(handler'[g])
    BY <2>3, <2>5, LocalStep
  <2> QED
    BY <1>1, <2>3, <2>6 DEF Sane
<1> QED
  BY <1>2, <1>3 DEF DetectBanned

\* Timers after they were set, of everybody unless a write failed.
LEMMA SetExpirationOK ==
  ASSUME Sane, NEW people, NEW t \in Expiry, SetExpiration(people, t)
  PROVE  /\ timers' \in [Person -> Expiry]
         /\ faults' \in Nat /\ (faults' = faults \/ faults' = faults + 1)
         /\ faults' = faults \/ faults' = 0 =>
              timers' = [p \in Person |-> IF p \in people THEN t ELSE timers[p]]
<1>1. timers \in [Person -> Expiry] /\ faults \in Nat
  BY DEF Sane, RestOK, TalliesOK
<1>2. CASE timers' = [p \in Person |-> IF p \in people THEN t ELSE timers[p]] /\ faults' = faults
  BY <1>1, <1>2
<1>3. ASSUME Fault, NEW some \in SUBSET people,
             timers' = [p \in Person |-> IF p \in some THEN t ELSE timers[p]]
      PROVE  /\ timers' \in [Person -> Expiry] /\ faults' = faults + 1
  BY <1>1, <1>3 DEF Fault
<1> QED
  BY <1>1, <1>2, <1>3 DEF SetExpiration

LEMMA SaneUpdateExpiryTime ==
  ASSUME Sane, NEW h \in Handler, UpdateExpiryTime(h)
  PROVE  Sane'
<1>1. handler[h].pc = "timer" /\ handler[h].msg \in Arriving /\ handler[h].needs = {}
      /\ Msg(h).timer \in Expiry /\ Chan(h).set.expiry \in Expiry
  <2>1. handler[h].pc = "timer" /\ handler[h].msg \in Arriving /\ handler[h].needs = {}
        /\ handler[h].msg.timer > 0
    BY DEF UpdateExpiryTime, At, Sane, LocalOK
  <2>2. handler[h].chan.set \in Settings
    BY HandlerFields DEF Sane
  <2> QED
    BY <2>1, <2>2, MessageOK DEF Expiry, Msg, Chan, Settings
<1>2. counts' = counts /\ out' = out /\ air' = air /\ resend' = resend /\ inbox' = inbox
      /\ raced' = raced
  BY DEF UpdateExpiryTime, resending
<1>3. CASE Finish(h, TRUE) /\ settings' = settings /\ timers' = timers /\ faults' = faults
  <2>1. TablesOK' /\ TalliesOK' /\ RestOK'
    BY <1>2, <1>3, SaneTables, SaneTallies, SaneRest DEF UpdateExpiryTime, tables
  <2> QED
    BY <1>3, <2>1, SaneFinish
<1>4. CASE SetExpiration({From(h)}, Chan(h).set.expiry) /\ Finish(h, TRUE) /\ settings' = settings
  <2>1. timers' \in [Person -> Expiry] /\ faults' \in Nat
    BY <1>1, <1>4, SetExpirationOK
  <2>2. TablesOK'
    BY <1>4, SaneTables DEF UpdateExpiryTime, tables
  <2>3. TalliesOK' /\ RestOK'
    BY <1>2, <2>1 DEF Sane, TalliesOK, RestOK
  <2> QED
    BY <1>4, <2>2, <2>3, SaneFinish
<1>5. CASE /\ settings' = [settings EXCEPT !.expiry = Msg(h).timer]
           /\ Step(h, "others") /\ timers' = timers /\ faults' = faults
  <2>1. settings' \in Settings
    BY <1>1, <1>5 DEF Sane, TablesOK, Settings
  <2>2. TablesOK'
    BY <2>1 DEF Sane, TablesOK, UpdateExpiryTime
  <2>3. TalliesOK' /\ RestOK'
    BY <1>2, <1>5, SaneTallies, SaneRest
  <2>4. HandlersOK' /\ Others(h) /\ handler'[h].pc = "others" /\ SameBut(handler[h], handler'[h])
    BY <1>5, StepEffect DEF Sane, Pc
  <2>5. LocalOK(handler'[h])
    BY <1>1, <2>4 DEF LocalOK, SameBut, Msg, Expiry
  <2>6. \A g \in Handler : LocalOK(handler'[g])
    BY <2>4, <2>5, LocalStep
  <2> QED
    BY <2>2, <2>3, <2>4, <2>6 DEF Sane
<1> QED
  BY <1>3, <1>4, <1>5 DEF UpdateExpiryTime

LEMMA SaneEnforceExpiryTime ==
  ASSUME Sane, NEW h \in Handler, EnforceExpiryTime(h)
  PROVE  Sane'
<1>1. Msg(h).timer \in Expiry
  <2>1. handler[h].msg \in Arriving /\ handler[h].msg.timer > 0
    BY DEF EnforceExpiryTime, At, Sane, LocalOK
  <2> QED
    BY <2>1, MessageOK DEF Expiry, Msg
<1>2. timers' \in [Person -> Expiry] /\ faults' \in Nat
  BY <1>1, SetExpirationOK DEF EnforceExpiryTime
<1>3. TablesOK' /\ Finish(h, TRUE)
  BY SaneTables DEF EnforceExpiryTime
<1>4. TalliesOK' /\ RestOK'
  BY <1>2 DEF Sane, TalliesOK, RestOK, EnforceExpiryTime, resending
<1> QED
  BY <1>3, <1>4, SaneFinish

LEMMA SaneCommand ==
  ASSUME Sane, NEW h \in Handler, ProcessCommand(h)
  PROVE  Sane'
<1>1. At(h, "execute") /\ KeepsRest /\ TablesStep(h) /\ (Thrown(h) \/ \E result : Outcome(h, result))
  BY CommandOutcome DEF CommandStep
<1>2. TablesOK' /\ faults' \in Nat
  BY <1>1 DEF TablesStep
<1>3. TalliesOK' /\ RestOK'
  BY <1>1, <1>2 DEF KeepsRest, Sane, TalliesOK, RestOK, resending
<1>4. CASE Thrown(h)
  BY <1>2, <1>3, <1>4, SaneFinish DEF Thrown
<1>5. ASSUME NEW result, Outcome(h, result) PROVE Sane'
  <2>1. /\ HandlersOK' /\ Others(h)
        /\ handler'[h].pc = After(result) /\ handler'[h].result = result
        /\ handler'[h].msg = handler[h].msg /\ handler'[h].needs = handler[h].needs
        /\ handler'[h].chan = handler[h].chan /\ handler'[h].sender = handler[h].sender
        /\ handler'[h].told = handler[h].told
    BY <1>5, ConcludedEffect DEF Outcome, Sane
  <2>2. handler[h].pc = "execute" /\ handler[h].msg \in Arriving /\ handler[h].needs = {}
        /\ handler[h].msg.timer = 0
    BY <1>1 DEF At, Sane, LocalOK, Pc
  <2>3. Reaches(handler'[h])
    BY <1>5, <2>1 DEF Outcome, Reaches, Chan
  <2>4. After(result) = "notify" => result.status = "SUCCESS" /\ RelayedOnly(result)
    BY DEF After, RelayedOnly
  <2>5. After(result) = "notify" => Heard(handler'[h])
    BY <1>5, <2>1, <2>4 DEF Outcome, Heard, Chan, From, Msg
  <2>6. After(result) \in {"notify", "respond"}
    BY DEF After
  <2>7. LocalOK(handler'[h])
    BY <2>1, <2>2, <2>3, <2>4, <2>5, <2>6 DEF LocalOK
  <2>8. \A g \in Handler : LocalOK(handler'[g])
    BY <2>1, <2>7, LocalStep
  <2> QED
    BY <1>2, <1>3, <2>1, <2>8 DEF Sane
<1> QED
  BY <1>1, <1>4, <1>5

LEMMA SaneRespond ==
  ASSUME Sane, NEW h \in Handler, Respond(h)
  PROVE  Sane'
<1>1. TablesOK' /\ RestOK'
  BY SaneTables, SaneRest DEF Respond
<1>2. /\ counts' = counts \/ counts' = [counts EXCEPT !.command = @ + 1]
      /\ out' = out \/ out' = [out EXCEPT !.command = @ + 1]
      /\ air' = air /\ resend' = resend
      /\ faults' = faults \/ faults' = faults + 1
  BY DEF Respond, Fault, resending
<1>3. TalliesOK'
  BY <1>2 DEF Sane, TalliesOK
<1>4. CASE Finish(h, TRUE)
  BY <1>1, <1>3, <1>4, SaneFinish
<1>5. CASE handler' = [handler EXCEPT ![h].told = TRUE,
                                      ![h].pc = IF Succeeded(h) THEN "notify" ELSE "end"]
  <2> DEFINE p == IF Succeeded(h) THEN "notify" ELSE "end"
  <2>1. p \in Pc
    BY DEF Pc
  <2>2. /\ HandlersOK' /\ Others(h) /\ handler'[h].pc = p /\ handler'[h].told = TRUE
        /\ handler'[h].msg = handler[h].msg /\ handler'[h].needs = handler[h].needs
        /\ handler'[h].chan = handler[h].chan /\ handler'[h].result = handler[h].result
    BY <1>5, <2>1, TellEffect DEF Sane
  <2>3. /\ handler[h].pc = "respond" /\ handler[h].msg \in Arriving /\ handler[h].needs = {}
        /\ handler[h].msg.timer = 0 /\ Reaches(handler[h])
    BY DEF Respond, At, Sane, LocalOK, Pc
  <2>4. Reaches(handler'[h]) /\ Heard(handler'[h])
    BY <2>2, <2>3 DEF Reaches, Heard
  <2>5. p = "notify" => handler'[h].result.status = "SUCCESS"
    BY <2>2 DEF Succeeded
  <2>6. LocalOK(handler'[h])
    BY <2>2, <2>3, <2>4, <2>5 DEF LocalOK
  <2>7. \A g \in Handler : LocalOK(handler'[g])
    BY <2>2, <2>6, LocalStep
  <2> QED
    BY <1>1, <1>3, <2>2, <2>7 DEF Sane
<1> QED
  BY <1>4, <1>5 DEF Respond

Outgoing == [copies: Nat, hotline: Nat, command: Nat, originals: Nat, resends: Nat]

\* t is o with a more copies, b more hotline messages and c more originals.
MoreOut(t, o, a, b, c) ==
  /\ t \in Outgoing
  /\ t.copies = o.copies + a /\ t.hotline = o.hotline + b
  /\ t.originals = o.originals + c /\ t.command = o.command /\ t.resends = o.resends

LEMMA ThreeTallies ==
  ASSUME NEW o \in Outgoing, NEW a \in Nat, NEW b \in Nat, NEW c \in Nat
  PROVE  MoreOut([o EXCEPT !.copies = @ + a, !.hotline = @ + b, !.originals = @ + c], o, a, b, c)
<1> DEFINE t1 == [o EXCEPT !.copies = @ + a]
<1> DEFINE t2 == [t1 EXCEPT !.hotline = @ + b]
<1> DEFINE t3 == [t2 EXCEPT !.originals = @ + c]
<1>1. /\ t1 \in Outgoing /\ t1.copies = o.copies + a /\ t1.hotline = o.hotline
      /\ t1.originals = o.originals /\ t1.command = o.command /\ t1.resends = o.resends
  BY DEF Outgoing
<1> HIDE DEF t1
<1>2. /\ t2 \in Outgoing /\ t2.copies = o.copies + a /\ t2.hotline = o.hotline + b
      /\ t2.originals = o.originals /\ t2.command = o.command /\ t2.resends = o.resends
  BY <1>1 DEF Outgoing
<1> HIDE DEF t2
<1>3. /\ t3 \in Outgoing /\ t3.copies = o.copies + a /\ t3.hotline = o.hotline + b
      /\ t3.originals = o.originals + c /\ t3.command = o.command /\ t3.resends = o.resends
  BY <1>2 DEF Outgoing
<1> QED
  BY <1>3 DEF t1, t2, MoreOut

\* What is sent is tallied.
LEMMA SentOK ==
  ASSUME Sane, NEW h \in Handler, NEW notes \in Seq(Note), Sent(h, notes)
  PROVE  /\ out' \in Outgoing
         /\ out'.copies = out.copies + IF Command1(h) = "BROADCAST" THEN Len(notes) ELSE 0
         /\ out'.hotline = out.hotline + IF Command1(h) = "NONE" THEN Len(notes) ELSE 0
         /\ out'.command = out.command /\ out'.resends = out.resends
         /\ out'.originals = out.originals \/ out'.originals = out.originals + 1
         /\ air' = air + (out'.originals - out.originals) /\ air' \in Nat
<1> DEFINE a == IF Command1(h) = "BROADCAST" THEN Len(notes) ELSE 0
<1> DEFINE b == IF Command1(h) = "NONE" THEN Len(notes) ELSE 0
<1> DEFINE c == IF Command1(h) = "BROADCAST" /\ Slow \in Notified(notes) THEN 1 ELSE 0
<1>1. Len(notes) \in Nat
  BY LenProperties
<1>2. a \in Nat /\ b \in Nat /\ c \in {0, 1}
  BY <1>1
<1>3. out' = [out EXCEPT !.copies = @ + a, !.hotline = @ + b, !.originals = @ + c]
  BY DEF Sent
<1>4. air' = air + (out'.originals - out.originals)
  BY DEF Sent
<1> HIDE DEF a, b, c
<1>5. out \in Outgoing /\ air \in Nat
  BY DEF Sane, TalliesOK, Outgoing
<1>6. /\ out' \in Outgoing
      /\ out'.copies = out.copies + a /\ out'.hotline = out.hotline + b
      /\ out'.command = out.command /\ out'.resends = out.resends
      /\ out'.originals = out.originals + c
  <2>1. PICK x \in Nat, y \in Nat, z \in Nat : x = a /\ y = b /\ z = c
    BY <1>2
  <2>2. PICK o \in Outgoing : o = out
    BY <1>5
  <2>3. out' = [o EXCEPT !.copies = @ + x, !.hotline = @ + y, !.originals = @ + z]
    BY <1>3, <2>1, <2>2
  <2>4. MoreOut([o EXCEPT !.copies = @ + x, !.hotline = @ + y, !.originals = @ + z], o, x, y, z)
    BY ThreeTallies
  <2>5. MoreOut(out', o, x, y, z)
    BY <2>3, <2>4
  <2> QED
    BY <2>1, <2>2, <2>5 DEF MoreOut
<1>7. out.originals \in Nat
  BY <1>5 DEF Outgoing
<1>8. air' \in Nat /\ (out'.originals = out.originals \/ out'.originals = out.originals + 1)
  BY <1>2, <1>4, <1>5, <1>6, <1>7
<1> QED
  BY <1>4, <1>6, <1>8 DEF a, b

\* A handler's notes, and those it has sent when a write fails.
LEMMA NotesOK ==
  ASSUME Sane, NEW h \in Handler
  PROVE  /\ Notes(h) \in Seq(Note) /\ Len(Notes(h)) \in Nat
         /\ DOMAIN Notes(h) = 1..Len(Notes(h))
<1>1. handler[h].result \in Result
  BY HandlerFields DEF Sane
<1>2. Notes(h) \in Seq(Note)
  BY <1>1 DEF Notes, Result
<1> QED
  BY <1>2, LenProperties

LEMMA SomeNotes ==
  ASSUME Sane, NEW h \in Handler, NEW k \in 0..(Len(Notes(h)) - 1)
  PROVE  /\ SubSeq(Notes(h), 1, k) \in Seq(Note)
         /\ DOMAIN SubSeq(Notes(h), 1, k) = 1..k
         /\ \A i \in 1..k : i \in DOMAIN Notes(h) /\ SubSeq(Notes(h), 1, k)[i] = Notes(h)[i]
<1>1. Notes(h) \in Seq(Note) /\ Len(Notes(h)) \in Nat /\ DOMAIN Notes(h) = 1..Len(Notes(h))
  BY NotesOK
<1>2. k \in Nat /\ k <= Len(Notes(h))
  BY <1>1
<1>3. \A i \in 1..k : i \in DOMAIN Notes(h) /\ Notes(h)[i] \in Note
  BY <1>1, <1>2, ElementOfSeq
<1>4. /\ SubSeq(Notes(h), 1, k) \in Seq(Note)
      /\ Len(SubSeq(Notes(h), 1, k)) = IF 1 <= k THEN k - 1 + 1 ELSE 0
      /\ \A i \in 1..(k - 1 + 1) : SubSeq(Notes(h), 1, k)[i] = Notes(h)[1 + i - 1]
  BY <1>2, <1>3, SubSeqProperties
<1>5. Len(SubSeq(Notes(h), 1, k)) = k /\ k - 1 + 1 = k
  BY <1>2, <1>4
<1>6. DOMAIN SubSeq(Notes(h), 1, k) = 1..k
  BY <1>4, <1>5, LenProperties
<1>7. \A i \in 1..k : SubSeq(Notes(h), 1, k)[i] = Notes(h)[i]
  BY <1>2, <1>4, <1>5
<1> QED
  BY <1>3, <1>4, <1>6, <1>7

LEMMA SaneSendNotifications ==
  ASSUME Sane, NEW h \in Handler, SendNotifications(h)
  PROVE  Sane'
<1>1. TablesOK' /\ RestOK'
  BY SaneTables, SaneRest DEF SendNotifications
<1>2. counts' = counts /\ resend' = resend /\ (faults' = faults \/ faults' = faults + 1)
  BY DEF SendNotifications, Fault
<1>3. \E notes \in Seq(Note) : Sent(h, notes)
  BY NotesOK, SomeNotes DEF SendNotifications
<1>4. TalliesOK'
  <2>1. out' \in Outgoing /\ air' \in Nat
    BY <1>3, SentOK
  <2> QED
    BY <1>2, <2>1 DEF Sane, TalliesOK, Outgoing
<1>5. CASE Finish(h, TRUE)
  BY <1>1, <1>4, <1>5, SaneFinish
<1>6. CASE handler' = [handler EXCEPT ![h].told = @ \/ From(h) \in Notified(Notes(h)),
             ![h].pc = CASE NewUsers(h) # {} -> "expire"
                         [] Command1(h) \in {"NONE", "BROADCAST"} -> "count"
                         [] OTHER -> "end"]
  <2> DEFINE told == handler[h].told \/ From(h) \in Notified(Notes(h))
  <2> DEFINE p == CASE NewUsers(h) # {} -> "expire"
                    [] Command1(h) \in {"NONE", "BROADCAST"} -> "count"
                    [] OTHER -> "end"
  <2>1. p \in {"expire", "count", "end"} /\ told \in BOOLEAN
    OBVIOUS
  <2>2. handler' = [handler EXCEPT ![h].told = told, ![h].pc = p]
    BY <1>6
  <2>3. told <=> (handler[h].told \/ From(h) \in Notified(Notes(h)))
    OBVIOUS
  <2> HIDE DEF told, p
  <2>4. /\ HandlersOK' /\ Others(h) /\ handler'[h].pc = p /\ handler'[h].told = told
        /\ handler'[h].msg = handler[h].msg /\ handler'[h].needs = handler[h].needs
        /\ handler'[h].chan = handler[h].chan /\ handler'[h].sender = handler[h].sender
    BY <2>1, <2>2, TellEffect DEF Sane, Pc
  <2>5. /\ handler[h].pc = "notify" /\ handler[h].msg \in Arriving /\ handler[h].needs = {}
        /\ handler[h].msg.timer = 0 /\ Heard(handler[h])
    BY DEF SendNotifications, At, Sane, LocalOK, Pc
  <2>6. Heard(handler'[h])
    BY <2>3, <2>4, <2>5 DEF Heard, Notes, From, Msg
  <2>7. LocalOK(handler'[h])
    BY <2>1, <2>4, <2>5, <2>6 DEF LocalOK
  <2>8. \A g \in Handler : LocalOK(handler'[g])
    BY <2>4, <2>7, LocalStep
  <2> QED
    BY <1>1, <1>4, <2>4, <2>8 DEF Sane
<1> QED
  BY <1>5, <1>6 DEF SendNotifications

LEMMA SaneNewUsers ==
  ASSUME Sane, NEW h \in Handler, SetExpiryTimeForNewUsers(h)
  PROVE  Sane'
<1>1. Chan(h).set.expiry \in Expiry
  <2>1. handler[h].chan.set \in Settings
    BY HandlerFields DEF Sane
  <2> QED
    BY <2>1 DEF Chan, Settings
<1>2. timers' \in [Person -> Expiry] /\ faults' \in Nat
  BY <1>1, SetExpirationOK DEF SetExpiryTimeForNewUsers
<1>3. TablesOK' /\ TalliesOK' /\ RestOK'
  BY <1>2, SaneTables DEF Sane, TalliesOK, RestOK, SetExpiryTimeForNewUsers, resending
<1>4. CASE Finish(h, TRUE)
  BY <1>3, <1>4, SaneFinish
<1>5. CASE Step(h, "end")
  <2>1. HandlersOK' /\ Others(h) /\ handler'[h].pc = "end" /\ SameBut(handler[h], handler'[h])
    BY <1>5, StepEffect DEF Sane, Pc
  <2>2. /\ handler[h].pc = "expire" /\ handler[h].msg \in Arriving /\ handler[h].needs = {}
        /\ handler[h].msg.timer = 0 /\ Heard(handler[h])
    BY DEF SetExpiryTimeForNewUsers, At, Sane, LocalOK, Pc
  <2>3. Heard(handler'[h])
    BY <2>1, <2>2 DEF Heard, SameBut
  <2>4. LocalOK(handler'[h])
    BY <2>1, <2>2, <2>3 DEF LocalOK, SameBut
  <2>5. \A g \in Handler : LocalOK(handler'[g])
    BY <2>1, <2>4, LocalStep
  <2> QED
    BY <1>3, <2>1, <2>5 DEF Sane
<1> QED
  BY <1>4, <1>5 DEF SetExpiryTimeForNewUsers

LEMMA SaneCount ==
  ASSUME Sane, NEW h \in Handler, Count(h)
  PROVE  Sane'
<1>1. TablesOK' /\ RestOK'
  BY SaneTables, SaneRest DEF Count
<1>2. PICK excused \in BOOLEAN : Finish(h, excused)
  BY DEF Count
<1>3. Cardinality(MembersOf(Chan(h).members)) \in Nat /\ Cardinality(AdminsOf(Chan(h).members)) \in Nat
  <2>1. MembersOf(Chan(h).members) \in SUBSET Person /\ AdminsOf(Chan(h).members) \in SUBSET Person
    BY DEF MembersOf, AdminsOf
  <2>2. \A T \in SUBSET Person : Cardinality(T) \in Nat
    BY FiniteAssumption, FS_Subset, FS_CardinalityType
  <2> QED
    BY <2>1, <2>2
<1>4. counts' \in [broadcast: Nat, hotline: Nat, command: Nat]
  <2>1. counts \in [broadcast: Nat, hotline: Nat, command: Nat]
    BY DEF Sane, TalliesOK
  <2>2. PICK k \in Nat, l \in Nat : k = Cardinality(MembersOf(Chan(h).members))
                                   /\ l = Cardinality(AdminsOf(Chan(h).members))
    BY <1>3
  <2>3. \/ counts' = [counts EXCEPT !.broadcast = @ + k]
        \/ counts' = [counts EXCEPT !.hotline = @ + l]
        \/ counts' = counts
    BY <2>2 DEF Count
  <2> QED
    BY <2>1, <2>3
<1>5. TalliesOK'
  <2>1. out' = out /\ air' = air /\ resend' = resend /\ (faults' = faults \/ faults' = faults + 1)
    BY DEF Count, Fault, resending
  <2> QED
    BY <1>4, <2>1 DEF Sane, TalliesOK
<1> QED
  BY <1>1, <1>2, <1>5, SaneFinish

LEMMA SaneEnd ==
  ASSUME Sane, NEW h \in Handler, End(h)
  PROVE  Sane'
<1>1. TablesOK' /\ RestOK' /\ TalliesOK'
  BY SaneTables, SaneRest, SaneTallies DEF End, resending
<1>2. PICK excused \in BOOLEAN : Finish(h, excused)
  BY DEF End
<1> QED
  BY <1>1, <1>2, SaneFinish

LEMMA SaneHandle ==
  ASSUME Sane, NEW h \in Handler, Handle(h)
  PROVE  Sane'
  BY SaneReceive, SaneRead, SaneDetectBanned, SaneUpdateExpiryTime, SaneEnforceExpiryTime,
     SaneCommand, SaneRespond, SaneSendNotifications, SaneNewUsers, SaneCount, SaneEnd DEF Handle

\* What happens without a handler.
LEMMA SaneElse ==
  ASSUME Sane, DeleteExpired \/ Drop \/ ResendAfter \/ Arrive \/ UNCHANGED vars
  PROVE  Sane'
<1>1. handler' = handler /\ inbox' = inbox /\ timers' = timers /\ raced' = raced
      /\ counts' = counts /\ faults' = faults
  BY DEF DeleteExpired, Drop, ResendAfter, Arrive, vars, history
<1>2. HandlersOK' /\ RestOK' /\ \A h \in Handler : LocalOK(handler'[h])
  BY <1>1 DEF Sane, HandlersOK, RestOK
<1>3. TablesOK'
  BY DEF DeleteExpired, Drop, ResendAfter, Arrive, vars, tables, Sane, TablesOK
<1>4. out' \in [copies: Nat, hotline: Nat, command: Nat, originals: Nat, resends: Nat] /\ air' \in Nat
  BY DEF DeleteExpired, Drop, ResendAfter, Arrive, vars, resending, Sane, TalliesOK
<1>5. resend' \in [interval: 0..MaxInterval, waiting: Nat]
  <2>1. resend \in [interval: 0..MaxInterval, waiting: Nat]
    BY DEF Sane, TalliesOK
  <2>2. CASE Drop
    BY <2>1, <2>2, LimitAssumption DEF Drop, EnqueueResend
  <2>3. CASE ResendAfter
    BY <2>1, <2>3 DEF ResendAfter
  <2>4. CASE resend' = resend
    BY <2>1, <2>4
  <2> QED
    BY <2>2, <2>3, <2>4 DEF DeleteExpired, Arrive, vars, resending
<1> QED
  BY <1>1, <1>2, <1>3, <1>4, <1>5 DEF Sane, TalliesOK

LEMMA SaneNext == Sane /\ [Next]_vars => Sane'
  BY SaneHandle, SaneElse DEF Next

LEMMA AlwaysSane == Spec => []Sane
  BY SaneInit, SaneNext, PTL DEF Spec

-----------------------------------------------------------------------------
(* Everybody hears.                                                        *)

LEMMA AnsweredNext ==
  ASSUME Sane, Answered, [Next]_vars
  PROVE  Answered'
<1>1. CASE neglected' = neglected
  BY <1>1 DEF Answered
<1>2. ASSUME NEW h \in Handler, Finish(h, TRUE) PROVE neglected' = neglected
  BY <1>2 DEF Finish
<1>3. ASSUME NEW h \in Handler, handler[h].pc \in {"count", "end"},
             Finish(h, Chan(h).members[From(h)] # handler[h].sender)
      PROVE  neglected' = neglected
  <2>1. Heard(handler[h]) /\ handler[h].pc # "notify"
    BY <1>3 DEF Sane, LocalOK
  <2>2. handler[h].told \/ Chan(h).members[From(h)] # handler[h].sender
    BY <2>1 DEF Heard, Chan, From, Msg
  <2> QED
    BY <1>3, <2>2 DEF Finish
<1>4. ASSUME NEW h \in Handler, Handle(h) PROVE neglected' = neglected
  <2>1. CASE ProcessCommand(h)
    <3>1. Finish(h, TRUE) \/ neglected' = neglected
      BY <2>1, CommandOutcome DEF CommandStep, Thrown, Outcome
    <3> QED
      BY <1>2, <3>1
  <2>2. CASE Receive(h) \/ FetchChannel(h) \/ ClassifyPhoneNumber(h)
    BY <2>2 DEF Receive, FetchChannel, ClassifyPhoneNumber, Read, history
  <2>3. CASE DetectBanned(h) \/ UpdateExpiryTime(h) \/ EnforceExpiryTime(h)
    BY <1>2, <2>3 DEF DetectBanned, UpdateExpiryTime, EnforceExpiryTime
  <2>4. CASE Respond(h) \/ SendNotifications(h) \/ SetExpiryTimeForNewUsers(h)
    BY <1>2, <2>4 DEF Respond, SendNotifications, SetExpiryTimeForNewUsers
  <2>5. CASE Count(h)
    BY <1>2, <1>3, <2>5 DEF Count, At
  <2>6. CASE End(h)
    BY <1>3, <2>6 DEF End, At
  <2> QED
    BY <1>4, <2>1, <2>2, <2>3, <2>4, <2>5, <2>6 DEF Handle
<1>5. CASE DeleteExpired \/ Drop \/ ResendAfter \/ Arrive \/ UNCHANGED vars
  BY <1>1, <1>5 DEF DeleteExpired, Drop, ResendAfter, Arrive, vars, history
<1> QED
  BY <1>1, <1>4, <1>5 DEF Next

\* Everybody whose message is handled to its end hears of it, however handlers
\* interleave and whatever they read of the membership (messenger.js 78-92).
THEOREM NobodyNeglected == Spec => []Answered
<1>1. Init => Answered
  BY DEF Init, Answered
<1>2. Sane /\ Answered /\ [Next]_vars => Answered'
  BY AnsweredNext
<1> QED
  BY <1>1, <1>2, AlwaysSane, PTL DEF Spec

-----------------------------------------------------------------------------
(* Hotline numbers.                                                        *)

\* What a handler's notes say.
Says(s) == HotlineNotes(s) \cup ReplyNotes(s)

LEMMA SameSays ==
  ASSUME NEW s, NEW t, t.msg = s.msg, t.result = s.result
  PROVE  Says(t) = Says(s)
  BY DEF Says, HotlineNotes, ReplyNotes

LEMMA EmptySays ==
  ASSUME NEW s, s.result = NoResult
  PROVE  Says(s) = {}
  BY DEF Says, HotlineNotes, ReplyNotes, NoResult

LEMMA ClaimsAre ==
  \A x : x \in Claims <=> \/ x \in hotline \/ x \in announced
                          \/ \E h \in Handler : x \in Says(handler[h])
  BY DEF Claims, Says

\* No claim but the rows' is new after a step of h.
LEMMA ClaimsGrow ==
  ASSUME NEW h \in Handler, NEW new, Others(h),
         hotline' \subseteq hotline \cup new, announced' \subseteq Claims \cup new,
         Says(handler'[h]) \subseteq Claims \cup new
  PROVE  Claims' \subseteq Claims \cup new
<1> SUFFICES ASSUME NEW x \in Claims' PROVE x \in Claims \cup new
  OBVIOUS
<1>1. \/ x \in hotline' \/ x \in announced'
      \/ \E g \in Handler : x \in Says(handler'[g])
  BY DEF Claims, Says
<1>2. ASSUME NEW g \in Handler, x \in Says(handler'[g]) PROVE x \in Claims \cup new
  <2>1. CASE g = h
    BY <1>2, <2>1
  <2>2. CASE g # h
    <3>1. x \in Says(handler[g])
      BY <1>2, <2>2 DEF Others
    <3> QED
      BY <3>1, ClaimsAre
  <2> QED
    BY <2>1, <2>2
<1> QED
  BY <1>1, <1>2, ClaimsAre

\* Claims that are made under the next number, or not at all.
LEMMA ClaimsKept ==
  ASSUME ClaimsInv, lastId \in Nat,
         \/ lastId' = lastId /\ Claims' \subseteq Claims
         \/ /\ lastId' = lastId + 1
            /\ \E who : Claims' \subseteq Claims \cup {[id |-> lastId + 1, who |-> who]}
  PROVE  ClaimsInv'
<1>1. CASE lastId' = lastId /\ Claims' \subseteq Claims
  BY <1>1 DEF ClaimsInv
<1>2. ASSUME lastId' = lastId + 1, NEW who,
             Claims' \subseteq Claims \cup {[id |-> lastId + 1, who |-> who]}
      PROVE  ClaimsInv'
  <2> DEFINE c == [id |-> lastId + 1, who |-> who]
  <2>1. c.id = lastId + 1 /\ \A x \in Claims' : x \in Claims \/ x = c
    BY <1>2
  <2> HIDE DEF c
  <2>2. \A x \in Claims : x.id \in 0..lastId /\ x.id # lastId + 1
    BY DEF ClaimsInv
  <2>3. \A x \in Claims' : x.id \in 0..lastId'
    BY <1>2, <2>1, <2>2
  <2>4. ASSUME NEW x \in Claims', NEW y \in Claims', x.id = y.id PROVE x.who = y.who
    BY <2>1, <2>2, <2>4 DEF ClaimsInv
  <2> QED
    BY <2>3, <2>4 DEF ClaimsInv
<1> QED
  BY <1>1, <1>2

\* A handler that ends, or that keeps its message and its result, claims no more.
LEMMA QuietClaims ==
  ASSUME NEW h \in Handler, Others(h), hotline' = hotline, announced' \subseteq Claims,
         \/ handler'[h].result = NoResult
         \/ handler'[h].msg = handler[h].msg /\ handler'[h].result = handler[h].result
  PROVE  Claims' \subseteq Claims
<1>1. Says(handler'[h]) \subseteq Claims
  BY SameSays, EmptySays, ClaimsAre
<1>2. PICK new : new = {}
  OBVIOUS
<1>3. Claims' \subseteq Claims \cup new
  BY <1>1, <1>2, ClaimsGrow
<1> QED
  BY <1>2, <1>3

LEMMA SentClaims ==
  ASSUME Sane, NEW h \in Handler, NEW notes, Sent(h, notes),
         \A i \in DOMAIN notes : i \in DOMAIN Notes(h) /\ notes[i] = Notes(h)[i]
  PROVE  announced' \subseteq Claims
<1>1. ASSUME NEW i \in DOMAIN notes, notes[i].about = "hotline"
      PROVE  [id |-> notes[i].id, who |-> From(h)] \in Claims
  <2>1. [id |-> notes[i].id, who |-> From(h)] \in HotlineNotes(handler[h])
    BY <1>1 DEF HotlineNotes, Notes, From, Msg
  <2> QED
    BY <2>1, ClaimsAre DEF Says
<1> QED
  BY <1>1, ClaimsAre DEF Sent

\* What a command's result claims, its tables record.
LEMMA OutcomeClaims ==
  ASSUME Sane, NEW h \in Handler, NEW result, Outcome(h, result), TablesStep(h),
         announced' = announced
  PROVE  \/ lastId' = lastId /\ Claims' \subseteq Claims
         \/ /\ lastId' = lastId + 1
            /\ \E who : Claims' \subseteq Claims \cup {[id |-> lastId + 1, who |-> who]}
<1>1. Others(h) /\ handler'[h].result = result /\ handler'[h].msg = handler[h].msg
  BY ConcludedEffect DEF Outcome, Sane
<1>2. Says(handler'[h]) \subseteq hotline'
  BY <1>1 DEF Outcome, Says, HotlineNotes, ReplyNotes, From, Msg
<1>3. CASE hotline' = hotline /\ lastId' = lastId
  <2>1. PICK new : new = {}
    OBVIOUS
  <2>2. Claims' \subseteq Claims \cup new
    BY <1>1, <1>2, <1>3, <2>1, ClaimsGrow, ClaimsAre
  <2> QED
    BY <1>3, <2>1, <2>2
<1>4. CASE /\ lastId' = lastId + 1
           /\ hotline' = hotline \cup {[id |-> lastId + 1, who |-> From(h)]}
  <2>1. PICK new : new = {[id |-> lastId + 1, who |-> From(h)]}
    OBVIOUS
  <2>2. Claims' \subseteq Claims \cup new
    BY <1>1, <1>2, <1>4, <2>1, ClaimsGrow, ClaimsAre
  <2> QED
    BY <1>4, <2>1, <2>2
<1> QED
  BY <1>3, <1>4 DEF TablesStep

LEMMA ClaimsNext ==
  ASSUME Sane, ClaimsInv, [Next]_vars
  PROVE  ClaimsInv'
<1>1. lastId \in Nat
  BY DEF Sane, TablesOK
<1>2. announced \subseteq Claims
  BY ClaimsAre
<1>3. Idle.result = NoResult
  BY DEF Idle
<1>4. ASSUME NEW h \in Handler, NEW excused, Finish(h, excused), hotline' = hotline,
             lastId' = lastId, announced' \subseteq Claims
      PROVE  ClaimsInv'
  <2>1. Others(h) /\ handler'[h].result = NoResult
    BY <1>3, <1>4, FinishEffect DEF Sane
  <2> QED
    BY <1>1, <1>4, <2>1, QuietClaims, ClaimsKept
<1>5. ASSUME NEW h \in Handler, Others(h), hotline' = hotline, lastId' = lastId,
             announced' \subseteq Claims, handler'[h].msg = handler[h].msg,
             handler'[h].result = handler[h].result
      PROVE  ClaimsInv'
  BY <1>1, <1>5, QuietClaims, ClaimsKept
<1>6. ASSUME NEW h \in Handler, Handle(h) PROVE ClaimsInv'
  <2>1. CASE Receive(h)
    <3>1. PICK m \in inbox : handler' = [handler EXCEPT ![h] = Reading(m)]
      BY <2>1 DEF Receive, Reading
    <3>2. m \in Arriving
      BY DEF Sane, RestOK
    <3>3. Others(h) /\ handler'[h].result = NoResult
      BY <3>1, <3>2, ReceiveEffect DEF Sane
    <3>4. hotline' = hotline /\ lastId' = lastId /\ announced' = announced
      BY <2>1 DEF Receive, tables
    <3> QED
      BY <1>1, <1>2, <3>3, <3>4, QuietClaims, ClaimsKept
  <2>2. CASE FetchChannel(h) \/ ClassifyPhoneNumber(h)
    <3>1. /\ handler \in [Handler -> HandlerState]
          /\ hotline' = hotline /\ lastId' = lastId /\ announced' = announced
      BY <2>2 DEF FetchChannel, ClassifyPhoneNumber, Read, tables, history, Sane, HandlersOK
    <3>2. PICK what, chan, sender : Read(h, what, chan, sender)
      BY <2>2 DEF FetchChannel, ClassifyPhoneNumber
    <3>3. Others(h) /\ handler'[h].msg = handler[h].msg /\ handler'[h].result = handler[h].result
      BY <3>1, <3>2 DEF Read, Others, HandlerState
    <3> QED
      BY <1>2, <1>5, <3>1, <3>3
  <2>3. CASE DetectBanned(h)
    <3>1. hotline' = hotline /\ lastId' = lastId /\ announced' = announced
      BY <2>3 DEF DetectBanned, tables
    <3>2. PICK p \in Pc : Finish(h, TRUE) \/ Step(h, p)
      BY <2>3 DEF DetectBanned, Pc
    <3>3. CASE Step(h, p)
      BY <1>2, <1>5, <3>1, <3>3, StepEffect DEF SameBut, Sane
    <3> QED
      BY <1>2, <1>4, <3>1, <3>2, <3>3
  <2>4. CASE UpdateExpiryTime(h) \/ EnforceExpiryTime(h) \/ SetExpiryTimeForNewUsers(h)
    <3>1. hotline' = hotline /\ lastId' = lastId /\ announced' = announced
      BY <2>4 DEF UpdateExpiryTime, EnforceExpiryTime, SetExpiryTimeForNewUsers, tables
    <3>2. PICK p \in Pc : Finish(h, TRUE) \/ Step(h, p)
      BY <2>4 DEF UpdateExpiryTime, EnforceExpiryTime, SetExpiryTimeForNewUsers, Pc
    <3>3. CASE Step(h, p)
      BY <1>2, <1>5, <3>1, <3>3, StepEffect DEF SameBut, Sane
    <3> QED
      BY <1>2, <1>4, <3>1, <3>2, <3>3
  <2>5. CASE ProcessCommand(h)
    <3>1. /\ TablesStep(h) /\ announced' = announced
          /\ Thrown(h) \/ \E result : Outcome(h, result)
      BY <2>5, CommandOutcome DEF CommandStep, KeepsRest
    <3>2. CASE Thrown(h)
      <4>1. Others(h) /\ handler'[h].result = NoResult
        BY <1>3, <3>2, FinishEffect DEF Thrown, Sane
      <4>2. PICK new : new = IF hotline' = hotline THEN {}
                             ELSE {[id |-> lastId + 1, who |-> From(h)]}
        OBVIOUS
      <4>3. hotline' \subseteq hotline \cup new
        BY <3>1, <4>2 DEF TablesStep
      <4>4. Claims' \subseteq Claims \cup new
        BY <1>2, <3>1, <4>1, <4>3, ClaimsGrow, EmptySays
      <4>5. CASE hotline' = hotline /\ lastId' = lastId
        BY <1>1, <4>2, <4>4, <4>5, ClaimsKept
      <4>6. CASE lastId' = lastId + 1
        <5>1. Claims' \subseteq Claims \cup {[id |-> lastId + 1, who |-> From(h)]}
          BY <4>2, <4>4
        <5> QED
          BY <1>1, <4>6, <5>1, ClaimsKept
      <4> QED
        BY <3>1, <4>5, <4>6 DEF TablesStep
    <3>3. ASSUME NEW result, Outcome(h, result) PROVE ClaimsInv'
      BY <1>1, <3>1, <3>3, OutcomeClaims, ClaimsKept
    <3> QED
      BY <3>1, <3>2, <3>3
  <2>6. CASE Respond(h)
    <3>1. hotline' = hotline /\ lastId' = lastId /\ announced' = announced
      BY <2>6 DEF Respond, tables
    <3>2. PICK p \in Pc :
            Finish(h, TRUE) \/ handler' = [handler EXCEPT ![h].told = TRUE, ![h].pc = p]
      BY <2>6 DEF Respond, Pc
    <3>3. CASE handler' = [handler EXCEPT ![h].told = TRUE, ![h].pc = p]
      BY <1>2, <1>5, <3>1, <3>3, TellEffect DEF Sane
    <3> QED
      BY <1>2, <1>4, <3>1, <3>2, <3>3
  <2>7. CASE SendNotifications(h)
    <3>1. hotline' = hotline /\ lastId' = lastId
      BY <2>7 DEF SendNotifications, tables
    <3>2. announced' \subseteq Claims
      <4>1. CASE Sent(h, Notes(h))
        BY <4>1, SentClaims
      <4>2. ASSUME NEW k \in 0..(Len(Notes(h)) - 1), Sent(h, SubSeq(Notes(h), 1, k))
            PROVE  announced' \subseteq Claims
        <5>1. PICK notes : notes = SubSeq(Notes(h), 1, k)
          OBVIOUS
        <5>2. \A i \in DOMAIN notes : i \in DOMAIN Notes(h) /\ notes[i] = Notes(h)[i]
          <6>1. /\ DOMAIN SubSeq(Notes(h), 1, k) = 1..k
                /\ \A i \in 1..k : i \in DOMAIN Notes(h) /\ SubSeq(Notes(h), 1, k)[i] = Notes(h)[i]
            BY SomeNotes
          <6> QED
            BY <5>1, <6>1
        <5> QED
          BY <4>2, <5>1, <5>2, SentClaims
      <4>3. \/ Sent(h, Notes(h))
            \/ \E k \in 0..(Len(Notes(h)) - 1) : Sent(h, SubSeq(Notes(h), 1, k))
        BY <2>7 DEF SendNotifications
      <4> QED
        BY <4>1, <4>2, <4>3
    <3>3. PICK p \in Pc, told \in BOOLEAN :
            Finish(h, TRUE) \/ handler' = [handler EXCEPT ![h].told = told, ![h].pc = p]
      <4> DEFINE t == handler[h].told \/ From(h) \in Notified(Notes(h))
                 q == CASE NewUsers(h) # {} -> "expire"
                        [] Command1(h) \in {"NONE", "BROADCAST"} -> "count"
                        [] OTHER -> "end"
      <4>1. t \in BOOLEAN /\ q \in Pc
        BY DEF Pc
      <4>2. Finish(h, TRUE) \/ handler' = [handler EXCEPT ![h].told = t, ![h].pc = q]
        BY <2>7 DEF SendNotifications
      <4> HIDE DEF t, q
      <4> QED
        BY <4>1, <4>2
    <3>4. CASE handler' = [handler EXCEPT ![h].told = told, ![h].pc = p]
      BY <1>5, <3>1, <3>2, <3>4, TellEffect DEF Sane
    <3> QED
      BY <1>4, <3>1, <3>2, <3>3, <3>4
  <2>8. CASE Count(h) \/ End(h)
    <3>1. hotline' = hotline /\ lastId' = lastId /\ announced' = announced
      BY <2>8 DEF Count, End, tables
    <3>2. PICK excused \in BOOLEAN : Finish(h, excused)
      BY <2>8 DEF Count, End
    <3> QED
      BY <1>2, <1>4, <3>1, <3>2
  <2> QED
    BY <1>6, <2>1, <2>2, <2>3, <2>4, <2>5, <2>6, <2>7, <2>8 DEF Handle
<1>7. CASE DeleteExpired \/ Drop \/ ResendAfter \/ Arrive \/ UNCHANGED vars
  <2>1. handler' = handler /\ hotline' \subseteq hotline /\ lastId' = lastId /\ announced' = announced
    BY <1>7 DEF DeleteExpired, Drop, ResendAfter, Arrive, vars, tables, history
  <2>2. Claims' \subseteq Claims
    BY <2>1 DEF Claims
  <2> QED
    BY <1>1, <2>1, <2>2, ClaimsKept
<1> QED
  BY <1>6, <1>7 DEF Next

\* A reply goes to the person whom the admins know by its number, for every order
\* in which rows expire, are made anew and are answered (hotlineMessage.js 16-39).
THEOREM RepliesReachAuthors == Spec => []ReplyReachesAuthor
<1>1. Init => ClaimsInv
  <2> SUFFICES ASSUME Init PROVE ClaimsInv
    OBVIOUS
  <2>1. \A h \in Handler : handler[h].result = NoResult
    BY DEF Init, Idle
  <2>2. Claims = {}
    BY <2>1, ClaimsAre, EmptySays DEF Init
  <2> QED
    BY <2>2 DEF ClaimsInv
<1>2. Sane /\ ClaimsInv /\ [Next]_vars => ClaimsInv'
  BY ClaimsNext
<1>3. ClaimsInv => ReplyReachesAuthor
  <2> SUFFICES ASSUME ClaimsInv, NEW h \in Handler, NEW i \in DOMAIN Notes(h),
                      Notes(h)[i].about = "reply", NEW a \in announced, a.id = Notes(h)[i].id
               PROVE  a.who = Notes(h)[i].to
    BY DEF ReplyReachesAuthor
  <2> DEFINE c == [id |-> Notes(h)[i].id, who |-> Notes(h)[i].to]
  <2>1. c \in ReplyNotes(handler[h])
    BY DEF ReplyNotes, Notes
  <2>2. c \in Claims /\ a \in Claims
    BY <2>1, ClaimsAre DEF Says
  <2>3. c.id = Notes(h)[i].id /\ c.who = Notes(h)[i].to
    OBVIOUS
  <2> HIDE DEF c
  <2> QED
    BY <2>2, <2>3 DEF ClaimsInv
<1> QED
  BY <1>1, <1>2, <1>3, AlwaysSane, PTL DEF Spec

-----------------------------------------------------------------------------
(* Resends.                                                                *)

LEMMA Doubling ==
  /\ Intervals \subseteq 1..MaxInterval
  /\ 1 <= MaxInterval => 1 \in Intervals
  /\ \A i \in Intervals : 2 * i <= MaxInterval => 2 * i \in Intervals
<1>1. 1 <= MaxInterval => 1 \in 1..MaxInterval
  BY LimitAssumption
<1>2. \A i \in 1..MaxInterval : 2 * i <= MaxInterval => 2 * i \in 1..MaxInterval
  BY LimitAssumption
<1> QED
  BY <1>1, <1>2 DEF Intervals

LEMMA IntervalSets ==
  /\ Tries \in Nat
  /\ \A i : Cardinality(Shorter(i)) \in Nat /\ Cardinality(Shorter(i)) <= Tries
  /\ Cardinality(Shorter(0)) = 0
  /\ \A i \in Intervals \cup {0}, j \in Intervals :
       i < j => Cardinality(Shorter(i)) + 1 <= Cardinality(Shorter(j))
<1>0. \A j \in Intervals : j \in Int /\ 1 <= j
  BY Doubling, LimitAssumption
<1>1. IsFiniteSet(Intervals)
  <2>1. IsFiniteSet(1..MaxInterval)
    BY LimitAssumption, FS_Interval
  <2> QED
    BY <2>1, Doubling, FS_Subset
<1>2. \A i : Shorter(i) \in SUBSET Intervals
  BY DEF Shorter
<1>3. \A T \in SUBSET Intervals :
        IsFiniteSet(T) /\ Cardinality(T) \in Nat /\ Cardinality(T) <= Tries
  BY <1>1, FS_Subset, FS_CardinalityType DEF Tries
<1>4. \A i : IsFiniteSet(Shorter(i)) /\ Cardinality(Shorter(i)) \in Nat /\ Cardinality(Shorter(i)) <= Tries
  BY <1>2, <1>3
<1>5. Shorter(0) = {}
  BY <1>0 DEF Shorter
<1>6. ASSUME NEW i \in Intervals \cup {0}, NEW j \in Intervals, i < j
      PROVE  Cardinality(Shorter(i)) + 1 <= Cardinality(Shorter(j))
  <2>1. Shorter(i) \cup {j} \in SUBSET Shorter(j) /\ j \notin Shorter(i)
    <3>1. i \in Int /\ j \in Int
      BY <1>0
    <3>2. \A k \in Shorter(i) : k \in Intervals /\ k \in Int /\ k <= j
      BY <1>0, <1>6, <3>1 DEF Shorter
    <3>3. j \in Shorter(j) /\ j \notin Shorter(i)
      BY <1>6, <3>1 DEF Shorter
    <3> QED
      BY <3>2, <3>3 DEF Shorter
  <2>2. Cardinality(Shorter(i) \cup {j}) = Cardinality(Shorter(i)) + 1
    BY <1>4, <2>1, FS_AddElement
  <2>3. Cardinality(Shorter(i) \cup {j}) <= Cardinality(Shorter(j))
    BY <1>4, <2>1, FS_Subset
  <2> QED
    BY <2>2, <2>3
<1>7. Tries \in Nat
  BY <1>1, FS_CardinalityType DEF Tries
<1> QED
  BY <1>4, <1>5, <1>6, <1>7, FS_EmptySet

\* Products are the prover's only by these two facts.
LEMMA OneMore ==
  ASSUME NEW t \in Nat, NEW a \in Nat
  PROVE  t * (a + 1) = t * a + t /\ t * a \in Nat
  OBVIOUS

LEMMA Monotone ==
  ASSUME NEW t \in Nat, NEW a \in Nat, NEW b \in Nat, a <= b
  PROVE  t * a <= t * b /\ t * a \in Nat /\ t * b \in Nat
<1>1. PICK d \in Nat : b = a + d
  <2>1. b - a \in Nat /\ b = a + (b - a)
    OBVIOUS
  <2> QED
    BY <2>1
<1>2. t * b = t * a + t * d /\ t * a \in Nat /\ t * d \in Nat
  BY <1>1
<1> QED
  BY <1>2

\* Nothing but Sent, Drop, ResendAfter and Arrive touches resends.
LEMMA Elsewhere ==
  ASSUME Sane, NEW h \in Handler, Handle(h)
  PROVE  /\ resend' = resend /\ out'.resends = out.resends
         /\ \/ air' = air /\ out'.originals = out.originals
            \/ air' = air + 1 /\ out'.originals = out.originals + 1
<1>1. /\ air \in Nat /\ out.originals \in Nat
      /\ out \in [copies: Nat, hotline: Nat, command: Nat, originals: Nat, resends: Nat]
  BY DEF Sane, TalliesOK
<1>2. CASE Respond(h)
  <2>1. air' = air /\ resend' = resend /\ (out' = out \/ out' = [out EXCEPT !.command = @ + 1])
    BY <1>2 DEF Respond, resending
  <2> QED
    BY <1>1, <2>1
<1>3. CASE SendNotifications(h)
  <2>1. resend' = resend
    BY <1>3 DEF SendNotifications
  <2>2. \E notes \in Seq(Note) : Sent(h, notes)
    BY <1>3, NotesOK, SomeNotes DEF SendNotifications
  <2>3. /\ out'.resends = out.resends /\ air' = air + (out'.originals - out.originals)
        /\ out'.originals = out.originals \/ out'.originals = out.originals + 1
    BY <2>2, SentOK
  <2> QED
    BY <1>1, <2>1, <2>3
<1>4. CASE ProcessCommand(h)
  BY <1>4, CommandOutcome DEF CommandStep, KeepsRest, resending
<1>5. CASE \/ Receive(h) \/ FetchChannel(h) \/ ClassifyPhoneNumber(h) \/ DetectBanned(h)
           \/ UpdateExpiryTime(h) \/ EnforceExpiryTime(h) \/ SetExpiryTimeForNewUsers(h)
           \/ Count(h) \/ End(h)
  BY <1>5 DEF Receive, FetchChannel, ClassifyPhoneNumber, Read, DetectBanned, UpdateExpiryTime,
              EnforceExpiryTime, SetExpiryTimeForNewUsers, Count, End, resending
<1> QED
  BY <1>2, <1>3, <1>4, <1>5 DEF Handle

LEMMA ResendNext ==
  ASSUME Sane, ResendInv, [Next]_vars
  PROVE  ResendInv'
<1>1. /\ air \in Nat /\ out.originals \in Nat /\ out.resends \in Nat
      /\ resend \in [interval: 0..MaxInterval, waiting: Nat]
      /\ resend.interval \in 0..MaxInterval /\ resend.waiting \in Nat
  BY DEF Sane, TalliesOK
<1>2. /\ air' \in Nat /\ out'.originals \in Nat /\ out'.resends \in Nat
      /\ resend'.interval \in 0..MaxInterval /\ resend'.waiting \in Nat
  BY SaneNext DEF Sane, TalliesOK
<1>3. PICK g \in Nat :
        /\ air + resend.waiting + g <= out.originals
        /\ resend.interval > 0 => g < out.originals
        /\ out.resends + resend.waiting <= Tries * g + Cardinality(Shorter(resend.interval))
  BY DEF ResendInv
<1>4. resend.interval \in Intervals \cup {0}
  BY DEF ResendInv
<1>5. PICK t \in Nat, c \in Nat, w \in Nat :
        t = Tries * g /\ c = Cardinality(Shorter(resend.interval)) /\ w = Tries
  BY IntervalSets, OneMore
<1>6. c <= w /\ Tries * (g + 1) = t + w
  BY <1>5, IntervalSets, OneMore
<1>7. CASE \E h \in Handler : Handle(h)
  <2>1. /\ resend' = resend /\ out'.resends = out.resends
        /\ \/ air' = air /\ out'.originals = out.originals
           \/ air' = air + 1 /\ out'.originals = out.originals + 1
    BY <1>7, Elsewhere
  <2>2. /\ air' + resend'.waiting + g <= out'.originals
        /\ resend'.interval > 0 => g < out'.originals
        /\ out'.resends + resend'.waiting <= Tries * g + Cardinality(Shorter(resend'.interval))
    BY <1>1, <1>2, <1>3, <2>1
  <2> QED
    BY <1>4, <2>1, <2>2 DEF ResendInv
<1>8. CASE Drop
  <2>1. air > 0 /\ air' = air - 1 /\ out' = out
    BY <1>8 DEF Drop
  <2> DEFINE next == IF resend.interval > 0 THEN 2 * resend.interval ELSE 1
  <2>2. CASE next > MaxInterval
    <3>1. resend'.interval = 0 /\ resend'.waiting = resend.waiting
      BY <1>1, <1>8, <2>2 DEF Drop, EnqueueResend
    <3>2. /\ air' + resend'.waiting + (g + 1) <= out'.originals
          /\ out'.resends + resend'.waiting <= Tries * (g + 1) + Cardinality(Shorter(resend'.interval))
      BY <1>1, <1>3, <1>5, <1>6, <2>1, <3>1, IntervalSets
    <3> QED
      BY <3>1, <3>2 DEF ResendInv
  <2>3. CASE next <= MaxInterval
    <3>1. resend'.interval = next /\ resend'.waiting = resend.waiting + 1
      BY <1>1, <1>8, <2>3, LimitAssumption DEF Drop, EnqueueResend
    <3>2. next \in Intervals /\ resend.interval < next
      BY <1>1, <1>4, <2>3, Doubling, LimitAssumption
    <3> HIDE DEF next
    <3>3. PICK d \in Nat : d = Cardinality(Shorter(next))
      BY IntervalSets
    <3>4. c + 1 <= d
      BY <1>4, <1>5, <3>2, <3>3, IntervalSets
    <3>5. /\ air' + resend'.waiting + g <= out'.originals
          /\ g < out'.originals
          /\ out'.resends + resend'.waiting <= t + d
      BY <1>1, <1>3, <1>5, <2>1, <3>1, <3>4
    <3> QED
      BY <1>5, <3>1, <3>2, <3>3, <3>5 DEF ResendInv
  <2> QED
    BY <1>1, <2>2, <2>3, LimitAssumption
<1>9. CASE ResendAfter
  <2>1. /\ resend.waiting > 0 /\ air' = air + 1
        /\ resend'.interval = resend.interval /\ resend'.waiting = resend.waiting - 1
        /\ out'.resends = out.resends + 1 /\ out'.originals = out.originals
    BY <1>1, <1>9 DEF ResendAfter, Sane, TalliesOK
  <2>2. /\ air' + resend'.waiting + g <= out'.originals
        /\ resend'.interval > 0 => g < out'.originals
        /\ out'.resends + resend'.waiting <= t + c
    BY <1>1, <1>3, <1>5, <2>1
  <2> QED
    BY <1>4, <1>5, <2>1, <2>2 DEF ResendInv
<1>10. CASE Arrive \/ DeleteExpired \/ UNCHANGED vars
  <2>1. resend' = resend /\ out' = out /\ (air' = air \/ air' = air - 1)
    BY <1>10 DEF Arrive, DeleteExpired, vars, resending
  <2>2. /\ air' + resend'.waiting + g <= out'.originals
        /\ resend'.interval > 0 => g < out'.originals
        /\ out'.resends + resend'.waiting <= t + c
    BY <1>1, <1>2, <1>3, <1>5, <2>1
  <2> QED
    BY <1>4, <1>5, <2>1, <2>2 DEF ResendInv
<1> QED
  BY <1>7, <1>8, <1>9, <1>10 DEF Next

\* However many broadcasts of a text are dropped and resent, and although their
\* copies share one entry in the queue, a recipient gets no more resends than the
\* tries of each broadcast together (resend.js 15-40).
THEOREM ResendsAreBounded == Spec => []ResendsBounded
<1>1. Init => ResendInv
  <2> SUFFICES ASSUME Init PROVE ResendInv
    OBVIOUS
  <2>1. /\ resend.interval = 0 /\ resend.waiting = 0 /\ air = 0
        /\ out.originals = 0 /\ out.resends = 0
    BY DEF Init
  <2>2. /\ air + resend.waiting + 0 <= out.originals
        /\ resend.interval > 0 => 0 < out.originals
        /\ out.resends + resend.waiting <= Tries * 0 + Cardinality(Shorter(resend.interval))
    BY <2>1, IntervalSets
  <2> QED
    BY <2>1, <2>2 DEF ResendInv
<1>2. Sane /\ ResendInv /\ [Next]_vars => ResendInv'
  BY ResendNext
<1>3. Sane /\ ResendInv => ResendsBounded
  <2> SUFFICES ASSUME Sane, ResendInv PROVE ResendsBounded
    OBVIOUS
  <2>1. /\ air \in Nat /\ out.originals \in Nat /\ out.resends \in Nat
        /\ resend.interval \in 0..MaxInterval /\ resend.waiting \in Nat
    BY DEF Sane, TalliesOK
  <2>2. PICK g \in Nat :
          /\ air + resend.waiting + g <= out.originals
          /\ resend.interval > 0 => g < out.originals
          /\ out.resends + resend.waiting <= Tries * g + Cardinality(Shorter(resend.interval))
    BY DEF ResendInv
  <2>3. CASE resend.interval = 0
    <3>1. g <= out.originals /\ out.resends + resend.waiting <= Tries * g
      BY <2>1, <2>2, <2>3, IntervalSets, OneMore
    <3>2. Tries * g <= Tries * out.originals
      BY <2>1, <3>1, IntervalSets, Monotone
    <3> QED
      BY <2>1, <3>1, <3>2, IntervalSets, OneMore DEF ResendsBounded
  <2>4. CASE resend.interval > 0
    <3>1. PICK t \in Nat, c \in Nat, w \in Nat :
            t = Tries * g /\ c = Cardinality(Shorter(resend.interval)) /\ w = Tries /\ c <= w
      BY IntervalSets, OneMore
    <3>2. Tries * (g + 1) = t + w
      BY <3>1, OneMore
    <3>3. Tries * (g + 1) <= Tries * out.originals
      BY <2>1, <2>2, <2>4, IntervalSets, Monotone
    <3>4. Tries * out.originals \in Nat
      BY <2>1, IntervalSets, OneMore
    <3> QED
      BY <2>1, <2>2, <3>1, <3>2, <3>3, <3>4 DEF ResendsBounded
  <2> QED
    BY <2>1, <2>3, <2>4
<1> QED
  BY <1>1, <1>2, <1>3, AlwaysSane, PTL DEF Spec

-----------------------------------------------------------------------------
(* Tallies.                                                                *)

\* A set has as many elements as pairs that begin alike.
LEMMA PairsOfOne ==
  ASSUME NEW h \in Handler, NEW T \in SUBSET Person
  PROVE  IsFiniteSet({h} \X T) /\ Cardinality({h} \X T) = Cardinality(T) /\ Cardinality(T) \in Nat
<1>1. IsFiniteSet(T)
  BY FiniteAssumption, FS_Subset
<1> DEFINE f == [p \in T |-> <<h, p>>]
<1>2. f \in Bijection(T, {h} \X T)
  BY DEF Bijection, Injection, Surjection, IsInjective
<1>3. ExistsBijection(T, {h} \X T)
  BY <1>2 DEF ExistsBijection
<1> QED
  BY <1>1, <1>3, FS_Bijection, FS_CardinalityType

\* The pairs of f are those of h and of the others.
LEMMA PairsOfAll ==
  ASSUME NEW f \in [Handler -> SUBSET Person], NEW h \in Handler
  PROVE  /\ Cardinality({x \in Handler \X Person : x[1] # h /\ x[2] \in f[x[1]]}) \in Nat
         /\ Cardinality({x \in Handler \X Person : x[2] \in f[x[1]]})
              = Cardinality({x \in Handler \X Person : x[1] # h /\ x[2] \in f[x[1]]})
                  + Cardinality(f[h])
<1> DEFINE rest == {x \in Handler \X Person : x[1] # h /\ x[2] \in f[x[1]]}
<1> DEFINE all == {x \in Handler \X Person : x[2] \in f[x[1]]}
<1>1. IsFiniteSet(Handler \X Person)
  BY FiniteAssumption, FS_Product
<1>2. rest \in SUBSET (Handler \X Person)
  OBVIOUS
<1>3. IsFiniteSet(rest)
  BY <1>1, <1>2, FS_Subset
<1>4. IsFiniteSet({h} \X f[h]) /\ Cardinality({h} \X f[h]) = Cardinality(f[h]) /\ Cardinality(f[h]) \in Nat
  BY PairsOfOne
<1>5. all = rest \cup ({h} \X f[h]) /\ rest \cap ({h} \X f[h]) = {}
  OBVIOUS
<1> HIDE DEF rest, all
<1>6. Cardinality(all) = Cardinality(rest) + Cardinality({h} \X f[h]) - Cardinality(rest \cap ({h} \X f[h]))
  BY <1>3, <1>4, <1>5, FS_Union
<1>7. Cardinality(rest \cap ({h} \X f[h])) = 0
  BY <1>5, FS_EmptySet
<1>8. Cardinality(rest) \in Nat
  BY <1>3, FS_CardinalityType
<1>9. Cardinality(all) = Cardinality(rest) + Cardinality(f[h])
  BY <1>4, <1>6, <1>7, <1>8
<1> QED
  BY <1>8, <1>9 DEF rest, all

LEMMA PeopleOf ==
  ASSUME NEW s
  PROVE  BroadcastTo(s) \in SUBSET Person /\ AnnounceTo(s) \in SUBSET Person
  BY DEF BroadcastTo, AnnounceTo, MembersOf, AdminsOf

\* When only h moves, what is to be counted changes by what h has to count.
LEMMA OneCounts ==
  ASSUME NEW h \in Handler, Others(h)
  PROVE  \E a, b \in Nat :
           /\ Cardinality(Broadcasting) = a + Cardinality(BroadcastTo(handler[h]))
           /\ Cardinality(Broadcasting)' = a + Cardinality(BroadcastTo(handler'[h]))
           /\ Cardinality(Announcing) = b + Cardinality(AnnounceTo(handler[h]))
           /\ Cardinality(Announcing)' = b + Cardinality(AnnounceTo(handler'[h]))
<1>1. PICK f \in [Handler -> SUBSET Person] : f = [g \in Handler |-> BroadcastTo(handler[g])]
  BY PeopleOf
<1>2. PICK f2 \in [Handler -> SUBSET Person] : f2 = [g \in Handler |-> BroadcastTo(handler'[g])]
  BY PeopleOf
<1>3. PICK e \in [Handler -> SUBSET Person] : e = [g \in Handler |-> AnnounceTo(handler[g])]
  BY PeopleOf
<1>4. PICK e2 \in [Handler -> SUBSET Person] : e2 = [g \in Handler |-> AnnounceTo(handler'[g])]
  BY PeopleOf
<1>5. /\ Broadcasting = {x \in Handler \X Person : x[2] \in f[x[1]]}
      /\ Broadcasting' = {x \in Handler \X Person : x[2] \in f2[x[1]]}
      /\ Announcing = {x \in Handler \X Person : x[2] \in e[x[1]]}
      /\ Announcing' = {x \in Handler \X Person : x[2] \in e2[x[1]]}
  BY <1>1, <1>2, <1>3, <1>4 DEF Broadcasting, Announcing
<1>6. \A g \in Handler : g # h => f2[g] = f[g] /\ e2[g] = e[g]
  BY <1>1, <1>2, <1>3, <1>4 DEF Others
<1>7. /\ {x \in Handler \X Person : x[1] # h /\ x[2] \in f2[x[1]]}
           = {x \in Handler \X Person : x[1] # h /\ x[2] \in f[x[1]]}
      /\ {x \in Handler \X Person : x[1] # h /\ x[2] \in e2[x[1]]}
           = {x \in Handler \X Person : x[1] # h /\ x[2] \in e[x[1]]}
  BY <1>6
<1>8. PICK a \in Nat : a = Cardinality({x \in Handler \X Person : x[1] # h /\ x[2] \in f[x[1]]})
  BY PairsOfAll
<1>9. PICK b \in Nat : b = Cardinality({x \in Handler \X Person : x[1] # h /\ x[2] \in e[x[1]]})
  BY PairsOfAll
<1>10. /\ Cardinality(Broadcasting) = a + Cardinality(f[h])
       /\ Cardinality(Broadcasting') = a + Cardinality(f2[h])
  BY <1>5, <1>7, <1>8, PairsOfAll
<1>11. /\ Cardinality(Announcing) = b + Cardinality(e[h])
       /\ Cardinality(Announcing') = b + Cardinality(e2[h])
  BY <1>5, <1>7, <1>9, PairsOfAll
<1> QED
  BY <1>1, <1>2, <1>3, <1>4, <1>10, <1>11

\* Counting and sending keep pace.
LEMMA CountsKept ==
  ASSUME Sane, Sane', CountsInv, NEW h \in Handler, Others(h),
         NEW m \in Nat, NEW m2 \in Nat, NEW n \in Nat, NEW n2 \in Nat,
         m = Cardinality(BroadcastTo(handler[h])), m2 = Cardinality(BroadcastTo(handler'[h])),
         n = Cardinality(AnnounceTo(handler[h])), n2 = Cardinality(AnnounceTo(handler'[h])),
         counts'.broadcast + m2 + out.copies <= out'.copies + counts.broadcast + m,
         counts'.hotline + n2 + out.hotline <= out'.hotline + counts.hotline + n,
         counts'.command + out.command <= out'.command + counts.command,
         faults' = 0 =>
           /\ faults = 0
           /\ counts'.broadcast + m2 + out.copies = out'.copies + counts.broadcast + m
           /\ counts'.hotline + n2 + out.hotline = out'.hotline + counts.hotline + n
  PROVE  CountsInv'
<1>1. /\ counts.broadcast \in Nat /\ counts.hotline \in Nat /\ counts.command \in Nat
      /\ out.copies \in Nat /\ out.hotline \in Nat /\ out.command \in Nat
  BY DEF Sane, TalliesOK
<1>2. /\ counts'.broadcast \in Nat /\ counts'.hotline \in Nat /\ counts'.command \in Nat
      /\ out'.copies \in Nat /\ out'.hotline \in Nat /\ out'.command \in Nat
  BY DEF Sane, TalliesOK
<1>3. PICK a \in Nat, b \in Nat :
        /\ Cardinality(Broadcasting) = a + m /\ Cardinality(Broadcasting)' = a + m2
        /\ Cardinality(Announcing) = b + n /\ Cardinality(Announcing)' = b + n2
  BY OneCounts
<1>4. /\ counts.broadcast + (a + m) <= out.copies /\ counts.hotline + (b + n) <= out.hotline
      /\ counts.command <= out.command
      /\ faults = 0 => counts.broadcast + (a + m) = out.copies /\ counts.hotline + (b + n) = out.hotline
  BY <1>3 DEF CountsInv
<1>5. /\ counts'.broadcast + (a + m2) <= out'.copies /\ counts'.hotline + (b + n2) <= out'.hotline
      /\ counts'.command <= out'.command
      /\ faults' = 0 => /\ counts'.broadcast + (a + m2) = out'.copies
                        /\ counts'.hotline + (b + n2) = out'.hotline
  BY <1>1, <1>2, <1>4
<1> QED
  BY <1>3, <1>5 DEF CountsInv

\* A handler that has nothing to count, before and after its step.
LEMMA NothingToCount ==
  ASSUME NEW s, s.pc # "count"
  PROVE  Cardinality(BroadcastTo(s)) = 0 /\ Cardinality(AnnounceTo(s)) = 0
  BY FS_EmptySet DEF BroadcastTo, AnnounceTo

LEMMA CountsElsewhere ==
  ASSUME Sane, Sane', CountsInv, NEW h \in Handler, Others(h),
         ~At(h, "count"), handler'[h].pc # "count",
         counts'.broadcast = counts.broadcast, counts'.hotline = counts.hotline,
         counts'.command + out.command <= out'.command + counts.command,
         out'.copies >= out.copies, out'.hotline >= out.hotline,
         faults' = 0 => faults = 0 /\ out'.copies = out.copies /\ out'.hotline = out.hotline
  PROVE  CountsInv'
<1>1. /\ counts.broadcast \in Nat /\ counts.hotline \in Nat
      /\ out.copies \in Nat /\ out.hotline \in Nat /\ out'.copies \in Nat /\ out'.hotline \in Nat
  BY DEF Sane, TalliesOK
<1>2. PICK z \in Nat : z = 0
  OBVIOUS
<1>3. /\ z = Cardinality(BroadcastTo(handler[h])) /\ z = Cardinality(BroadcastTo(handler'[h]))
      /\ z = Cardinality(AnnounceTo(handler[h])) /\ z = Cardinality(AnnounceTo(handler'[h]))
  BY <1>2, NothingToCount DEF At
<1>4. /\ counts'.broadcast + z + out.copies <= out'.copies + counts.broadcast + z
      /\ counts'.hotline + z + out.hotline <= out'.hotline + counts.hotline + z
      /\ faults' = 0 => /\ faults = 0
                        /\ counts'.broadcast + z + out.copies = out'.copies + counts.broadcast + z
                        /\ counts'.hotline + z + out.hotline = out'.hotline + counts.hotline + z
  BY <1>1
<1> QED
  BY <1>3, <1>4, CountsKept

LEMMA IdlePlace == Idle.pc = "idle" /\ Idle.result = NoResult
  BY DEF Idle

\* The notes are sent: those that are counted go to as many as will be counted.
LEMMA CountsSend ==
  ASSUME Sane, Sane', CountsInv, NEW h \in Handler, SendNotifications(h)
  PROVE  CountsInv'
<1>1. counts' = counts /\ At(h, "notify") /\ Notes(h) \in Seq(Note) /\ Len(Notes(h)) \in Nat
  BY NotesOK DEF SendNotifications
<1>2. out.copies \in Nat /\ out.hotline \in Nat /\ counts.broadcast \in Nat /\ counts.hotline \in Nat
      /\ counts.command \in Nat /\ out.command \in Nat /\ faults \in Nat
  BY DEF Sane, TalliesOK
<1>3. CASE Fault /\ Finish(h, TRUE) /\ \E k \in 0..(Len(Notes(h)) - 1) : Sent(h, SubSeq(Notes(h), 1, k))
  <2>1. PICK notes \in Seq(Note) : Sent(h, notes)
    BY <1>3, SomeNotes
  <2>2. Len(notes) \in Nat
    BY LenProperties
  <2>3. out'.copies >= out.copies /\ out'.hotline >= out.hotline /\ out'.command = out.command
    BY <1>2, <2>1, <2>2, SentOK
  <2>4. Others(h) /\ handler'[h].pc # "count"
    BY <1>3, FinishEffect, IdlePlace DEF Sane
  <2>5. faults' # 0
    BY <1>2, <1>3 DEF Fault
  <2> QED
    BY <1>1, <1>2, <2>3, <2>4, <2>5, CountsElsewhere DEF At
<1>4. CASE /\ Sent(h, Notes(h))
           /\ handler' = [handler EXCEPT ![h].told = @ \/ From(h) \in Notified(Notes(h)),
                ![h].pc = CASE NewUsers(h) # {} -> "expire"
                            [] Command1(h) \in {"NONE", "BROADCAST"} -> "count"
                            [] OTHER -> "end"]
           /\ UNCHANGED <<neglected, faults>>
  <2> DEFINE told == handler[h].told \/ From(h) \in Notified(Notes(h))
  <2> DEFINE p == CASE NewUsers(h) # {} -> "expire"
                    [] Command1(h) \in {"NONE", "BROADCAST"} -> "count"
                    [] OTHER -> "end"
  <2>1. p \in {"expire", "count", "end"} /\ told \in BOOLEAN
    OBVIOUS
  <2>2. handler' = [handler EXCEPT ![h].told = told, ![h].pc = p]
    BY <1>4
  <2>3. Command1(h) \in {"NONE", "BROADCAST"} => NewUsers(h) = {}
    BY NewUsersAre DEF NewUsersOf
  <2>4. p = "count" <=> Command1(h) \in {"NONE", "BROADCAST"}
    BY <2>3
  <2> HIDE DEF told, p
  <2>5. /\ Others(h) /\ handler'[h].pc = p
        /\ handler'[h].chan = handler[h].chan /\ handler'[h].result = handler[h].result
    BY <2>1, <2>2, TellEffect DEF Sane, Pc
  <2>6. /\ out'.copies = out.copies + (IF Command1(h) = "BROADCAST" THEN Len(Notes(h)) ELSE 0)
        /\ out'.hotline = out.hotline + (IF Command1(h) = "NONE" THEN Len(Notes(h)) ELSE 0)
        /\ out'.command = out.command
    BY <1>1, <1>4, SentOK
  <2>7. CASE p # "count"
    <3>1. out'.copies = out.copies /\ out'.hotline = out.hotline
      BY <1>2, <2>4, <2>6, <2>7
    <3>2. ~At(h, "count") /\ handler'[h].pc # "count"
      BY <1>1, <2>5, <2>7 DEF At
    <3>3. /\ counts'.broadcast = counts.broadcast /\ counts'.hotline = counts.hotline
          /\ counts'.command + out.command <= out'.command + counts.command
          /\ out'.copies >= out.copies /\ out'.hotline >= out.hotline /\ faults' = faults
      BY <1>1, <1>2, <1>4, <2>6, <3>1
    <3> QED
      BY <2>5, <3>1, <3>2, <3>3, CountsElsewhere
  <2>8. CASE p = "count"
    <3>1. /\ Command1(h) = "BROADCAST" => Len(Notes(h)) = Cardinality(MembersOf(Chan(h).members))
          /\ Command1(h) = "NONE" => Len(Notes(h)) = Cardinality(AdminsOf(Chan(h).members))
      BY <1>1 DEF Sane, LocalOK, Reaches, At, Command1, Notes, Chan
    <3>2. PICK z \in Nat, m2 \in Nat, n2 \in Nat :
            /\ z = 0
            /\ m2 = IF Command1(h) = "BROADCAST" THEN Len(Notes(h)) ELSE 0
            /\ n2 = IF Command1(h) = "NONE" THEN Len(Notes(h)) ELSE 0
      BY <1>1
    <3>3. z = Cardinality(BroadcastTo(handler[h])) /\ z = Cardinality(AnnounceTo(handler[h]))
      BY <1>1, <3>2, NothingToCount DEF At
    <3>4. m2 = Cardinality(BroadcastTo(handler'[h])) /\ n2 = Cardinality(AnnounceTo(handler'[h]))
      BY <2>4, <2>5, <2>8, <3>1, <3>2, FS_EmptySet DEF BroadcastTo, AnnounceTo, Command1, Chan
    <3>5. /\ counts'.broadcast + m2 + out.copies = out'.copies + counts.broadcast + z
          /\ counts'.hotline + n2 + out.hotline = out'.hotline + counts.hotline + z
          /\ counts'.command + out.command = out'.command + counts.command
      <4>1. out'.copies = out.copies + m2 /\ out'.hotline = out.hotline + n2
        BY <2>6, <3>2
      <4>2. counts' = counts /\ out'.command = out.command /\ z = 0
        BY <1>1, <2>6, <3>2
      <4>3. m2 \in Nat /\ n2 \in Nat
        OBVIOUS
      <4> QED
        BY <1>2, <4>1, <4>2, <4>3
    <3>6. /\ counts'.broadcast + m2 + out.copies <= out'.copies + counts.broadcast + z
          /\ counts'.hotline + n2 + out.hotline <= out'.hotline + counts.hotline + z
          /\ counts'.command + out.command <= out'.command + counts.command
      BY <1>1, <1>2, <3>2, <3>5
    <3>7. faults' = faults
      BY <1>4
    <3> QED
      BY <2>5, <3>3, <3>4, <3>5, <3>6, <3>7, CountsKept
  <2> QED
    BY <2>7, <2>8
<1> QED
  BY <1>3, <1>4 DEF SendNotifications

LEMMA CountsCount ==
  ASSUME Sane, Sane', CountsInv, NEW h \in Handler, Count(h)
  PROVE  CountsInv'
<1>1. At(h, "count") /\ out' = out
  BY DEF Count
<1>2. /\ counts \in [broadcast: Nat, hotline: Nat, command: Nat]
      /\ out.copies \in Nat /\ out.hotline \in Nat /\ out.command \in Nat /\ faults \in Nat
      /\ counts.broadcast \in Nat /\ counts.hotline \in Nat /\ counts.command \in Nat
  BY DEF Sane, TalliesOK
<1>3. Others(h) /\ handler'[h].pc # "count"
  <2>1. PICK excused \in BOOLEAN : Finish(h, excused)
    BY DEF Count
  <2> QED
    BY <2>1, FinishEffect, IdlePlace DEF Sane
<1>4. \A T \in SUBSET Person : Cardinality(T) \in Nat
  BY FiniteAssumption, FS_Subset, FS_CardinalityType
<1>5. PICK z \in Nat, m \in Nat, n \in Nat :
        /\ z = 0
        /\ m = Cardinality(BroadcastTo(handler[h])) /\ n = Cardinality(AnnounceTo(handler[h]))
  BY <1>4, PeopleOf
<1>6. z = Cardinality(BroadcastTo(handler'[h])) /\ z = Cardinality(AnnounceTo(handler'[h]))
  BY <1>3, <1>5, NothingToCount
<1>7. CASE Fault /\ counts' = counts
  <2>1. /\ counts'.broadcast + z + out.copies <= out'.copies + counts.broadcast + m
        /\ counts'.hotline + z + out.hotline <= out'.hotline + counts.hotline + n
        /\ counts'.command + out.command <= out'.command + counts.command
        /\ faults' # 0
    BY <1>1, <1>2, <1>5, <1>7 DEF Fault
  <2> QED
    BY <1>3, <1>5, <1>6, <2>1, CountsKept
<1>8. CASE /\ faults' = faults
           /\ counts' = IF Command1(h) = "BROADCAST"
                THEN [counts EXCEPT !.broadcast = @ + Cardinality(MembersOf(Chan(h).members))]
                ELSE [counts EXCEPT !.hotline = @ + Cardinality(AdminsOf(Chan(h).members))]
  <2>1. /\ Command1(h) = "BROADCAST" => m = Cardinality(MembersOf(Chan(h).members)) /\ n = 0
        /\ Command1(h) # "BROADCAST" => n = Cardinality(AdminsOf(Chan(h).members)) /\ m = 0
    BY <1>1, <1>5, FS_EmptySet DEF At, BroadcastTo, AnnounceTo, Command1, Chan
  <2>2. /\ counts'.broadcast = counts.broadcast + m /\ counts'.hotline = counts.hotline + n
        /\ counts'.command = counts.command
    <3>1. CASE Command1(h) = "BROADCAST"
      <4>1. counts' = [counts EXCEPT !.broadcast = @ + m] /\ n = 0
        BY <1>8, <2>1, <3>1
      <4> QED
        BY <1>2, <4>1
    <3>2. CASE Command1(h) # "BROADCAST"
      <4>1. counts' = [counts EXCEPT !.hotline = @ + n] /\ m = 0
        BY <1>8, <2>1, <3>2
      <4> QED
        BY <1>2, <4>1
    <3> QED
      BY <3>1, <3>2
  <2>3. /\ counts'.broadcast + z + out.copies = out'.copies + counts.broadcast + m
        /\ counts'.hotline + z + out.hotline = out'.hotline + counts.hotline + n
        /\ counts'.command + out.command = out'.command + counts.command
        /\ counts'.broadcast + z + out.copies <= out'.copies + counts.broadcast + m
        /\ counts'.hotline + z + out.hotline <= out'.hotline + counts.hotline + n
        /\ counts'.command + out.command <= out'.command + counts.command
    BY <1>1, <1>2, <1>5, <2>2
  <2> QED
    BY <1>3, <1>5, <1>6, <1>8, <2>3, CountsKept
<1> QED
  BY <1>7, <1>8 DEF Count

LEMMA CountsRespond ==
  ASSUME Sane, Sane', CountsInv, NEW h \in Handler, Respond(h)
  PROVE  CountsInv'
<1>1. /\ counts \in [broadcast: Nat, hotline: Nat, command: Nat]
      /\ out \in [copies: Nat, hotline: Nat, command: Nat, originals: Nat, resends: Nat]
      /\ faults \in Nat
  BY DEF Sane, TalliesOK
<1>2. PICK p \in Pc \ {"count"} :
        Finish(h, TRUE) \/ handler' = [handler EXCEPT ![h].told = TRUE, ![h].pc = p]
  <2> DEFINE next == IF Succeeded(h) THEN "notify" ELSE "end"
  <2>1. next \in Pc \ {"count"}
    BY DEF Pc
  <2>2. Finish(h, TRUE) \/ handler' = [handler EXCEPT ![h].told = TRUE, ![h].pc = next]
    BY DEF Respond
  <2> QED
    BY <2>1, <2>2
<1>3. Others(h) /\ handler'[h].pc # "count" /\ ~At(h, "count")
  <2>1. CASE handler' = [handler EXCEPT ![h].told = TRUE, ![h].pc = p]
    BY <2>1, TellEffect DEF Sane, Respond, At
  <2>2. CASE Finish(h, TRUE)
    BY <2>2, FinishEffect, IdlePlace DEF Sane, Respond, At
  <2> QED
    BY <1>2, <2>1, <2>2
<1>4. /\ faults' = faults \/ faults' = faults + 1
      /\ \/ counts' = counts
         \/ counts' = [counts EXCEPT !.command = @ + 1] /\ out' = [out EXCEPT !.command = @ + 1]
      /\ out' = out \/ out' = [out EXCEPT !.command = @ + 1]
  BY DEF Respond, Fault
<1>5. /\ counts'.broadcast = counts.broadcast /\ counts'.hotline = counts.hotline
      /\ counts'.command + out.command <= out'.command + counts.command
      /\ out'.copies = out.copies /\ out'.hotline = out.hotline
      /\ out'.copies >= out.copies /\ out'.hotline >= out.hotline
      /\ faults' = 0 => faults = 0
  BY <1>1, <1>4
<1> QED
  BY <1>3, <1>5, CountsElsewhere

\* Nothing else sends or counts, or has a handler count next.
LEMMA CountsOther ==
  ASSUME Sane, Sane', CountsInv, NEW h \in Handler,
         Handle(h), ~Respond(h), ~SendNotifications(h), ~Count(h)
  PROVE  CountsInv'
<1>1. /\ counts' = counts /\ out' = out /\ (faults' = faults \/ faults' = faults + 1)
      /\ ~At(h, "count")
  <2>1. CASE ProcessCommand(h)
    BY <2>1, CommandOutcome DEF CommandStep, KeepsRest, TablesStep, At
  <2>2. CASE \/ Receive(h) \/ FetchChannel(h) \/ ClassifyPhoneNumber(h) \/ DetectBanned(h)
             \/ UpdateExpiryTime(h) \/ EnforceExpiryTime(h) \/ SetExpiryTimeForNewUsers(h)
             \/ End(h)
    BY <2>2 DEF Receive, FetchChannel, ClassifyPhoneNumber, Read, DetectBanned, UpdateExpiryTime,
                EnforceExpiryTime, SetExpiryTimeForNewUsers, SetExpiration, End, Fault, history, At
  <2> QED
    BY <2>1, <2>2 DEF Handle
<1>2. Others(h) /\ handler'[h].pc # "count"
  <2>1. ASSUME NEW excused, Finish(h, excused) PROVE Others(h) /\ handler'[h].pc # "count"
    BY <2>1, FinishEffect, IdlePlace DEF Sane
  <2>2. ASSUME NEW p \in Pc \ {"count"}, Step(h, p) PROVE Others(h) /\ handler'[h].pc # "count"
    BY <2>2, StepEffect DEF Sane
  <2>3. CASE Receive(h)
    <3>1. PICK m \in inbox : handler' = [handler EXCEPT ![h] = Reading(m)]
      BY <2>3 DEF Receive, Reading
    <3> QED
      BY <3>1, ReceiveEffect DEF Sane, RestOK
  <2>4. CASE FetchChannel(h) \/ ClassifyPhoneNumber(h)
    <3>1. PICK what, chan, sender : Read(h, what, chan, sender)
      BY <2>4 DEF FetchChannel, ClassifyPhoneNumber
    <3>2. handler \in [Handler -> HandlerState]
      BY DEF Sane, HandlersOK
    <3>3. handler'[h].pc \in {"banned", "read"} /\ Others(h)
      BY <3>1, <3>2 DEF Read, Others, HandlerState
    <3> QED
      BY <3>3
  <2>5. CASE DetectBanned(h) \/ UpdateExpiryTime(h) \/ EnforceExpiryTime(h)
             \/ SetExpiryTimeForNewUsers(h) \/ End(h)
    <3>1. \/ \E excused \in BOOLEAN : Finish(h, excused)
          \/ \E p \in Pc \ {"count"} : Step(h, p)
      BY <2>5 DEF DetectBanned, UpdateExpiryTime, EnforceExpiryTime, SetExpiryTimeForNewUsers, End, Pc
    <3> QED
      BY <2>1, <2>2, <3>1
  <2>6. CASE ProcessCommand(h)
    <3>1. Thrown(h) \/ \E result : Outcome(h, result)
      BY <2>6, CommandOutcome DEF CommandStep
    <3>2. ASSUME NEW result, Outcome(h, result) PROVE Others(h) /\ handler'[h].pc # "count"
      BY <3>2, ConcludedEffect DEF Outcome, Sane, After
    <3> QED
      BY <2>1, <3>1, <3>2 DEF Thrown
  <2> QED
    BY <2>3, <2>4, <2>5, <2>6 DEF Handle
<1>3. /\ out.copies \in Nat /\ out.hotline \in Nat /\ faults \in Nat
      /\ counts.command \in Nat /\ out.command \in Nat
  BY DEF Sane, TalliesOK
<1> QED
  BY <1>1, <1>2, <1>3, CountsElsewhere

LEMMA CountsNext ==
  ASSUME Sane, CountsInv, [Next]_vars
  PROVE  CountsInv'
<1>1. Sane'
  BY SaneNext
<1>2. ASSUME NEW h \in Handler, Handle(h) PROVE CountsInv'
  BY <1>1, <1>2, CountsSend, CountsCount, CountsRespond, CountsOther
<1>3. CASE DeleteExpired \/ Drop \/ ResendAfter \/ Arrive \/ UNCHANGED vars
  <2>1. /\ handler' = handler /\ counts' = counts /\ faults' = faults
        /\ out' = out \/ out' = [out EXCEPT !.resends = @ + 1]
    BY <1>3 DEF DeleteExpired, Drop, ResendAfter, Arrive, vars, history
  <2>2. out'.copies = out.copies /\ out'.hotline = out.hotline /\ out'.command = out.command
    BY <2>1 DEF Sane, TalliesOK
  <2>3. Broadcasting' = Broadcasting /\ Announcing' = Announcing
    BY <2>1 DEF Broadcasting, Announcing
  <2> QED
    BY <2>1, <2>2, <2>3 DEF CountsInv
<1> QED
  BY <1>2, <1>3 DEF Next

\* The tallies never run ahead of what was sent, and without a failure they reach
\* it, for every number of handlers, members and messages (messenger.js 76, 106).
THEOREM TalliesMatch == Spec => []CountsMatchSent
<1>1. Init => CountsInv
  <2> SUFFICES ASSUME Init PROVE CountsInv
    OBVIOUS
  <2>1. \A h \in Handler : handler[h].pc = "idle"
    BY DEF Init, Idle
  <2>2. Broadcasting = {} /\ Announcing = {}
    BY <2>1 DEF Broadcasting, Announcing, BroadcastTo, AnnounceTo
  <2> QED
    BY <2>2, FS_EmptySet DEF Init, CountsInv
<1>2. Sane /\ CountsInv /\ [Next]_vars => CountsInv'
  BY CountsNext
<1>3. Sane /\ CountsInv => CountsMatchSent
  <2> SUFFICES ASSUME Sane, CountsInv PROVE CountsMatchSent
    OBVIOUS
  <2>1. /\ counts.broadcast \in Nat /\ counts.hotline \in Nat
        /\ out.copies \in Nat /\ out.hotline \in Nat
    BY DEF Sane, TalliesOK
  <2>2. Cardinality(Broadcasting) \in Nat /\ Cardinality(Announcing) \in Nat
    <3>1. Broadcasting \in SUBSET (Handler \X Person) /\ Announcing \in SUBSET (Handler \X Person)
      BY DEF Broadcasting, Announcing
    <3>2. IsFiniteSet(Handler \X Person)
      BY FiniteAssumption, FS_Product
    <3> QED
      BY <3>1, <3>2, FS_Subset, FS_CardinalityType
  <2>3. Quiet => Cardinality(Broadcasting) = 0 /\ Cardinality(Announcing) = 0
    <3>1. Quiet => Broadcasting = {} /\ Announcing = {}
      BY DEF Quiet, At, Broadcasting, Announcing, BroadcastTo, AnnounceTo
    <3> QED
      BY <3>1, FS_EmptySet
  <2> QED
    BY <2>1, <2>2, <2>3 DEF CountsInv, CountsMatchSent
<1> QED
  BY <1>1, <1>2, <1>3, AlwaysSane, PTL DEF Spec

-----------------------------------------------------------------------------
(* Disappearing-message timers.                                            *)

\* What a step of h must leave, for the invariant to survive.
LEMMA TimersKept ==
  ASSUME Sane, TimersInv, Calm, NEW h \in Handler, Others(h), Busy(h),
         settings'.expiry = settings.expiry \/ handler[h].msg.timer > 0,
         handler'[h].pc = "idle" \/ (handler'[h].msg = handler[h].msg /\ Knows(handler[h])'),
         \A p \in MembersOf(members') \ banned' :
           \/ timers'[p] = settings'.expiry
           \/ Owes(handler'[h], p)
           \/ /\ p \in MembersOf(members) \ banned /\ timers'[p] = timers[p]
              /\ settings'.expiry = settings.expiry /\ ~Owes(handler[h], p)
  PROVE  TimersInv'
<1>1. \A g \in Handler : g # h /\ Busy(g) => handler[g].msg.timer = 0 /\ handler[h].msg.timer = 0
  BY DEF TimersInv
<1>2. \A g \in Handler : g # h => handler'[g] = handler[g]
  BY DEF Others
<1>3. ASSUME NEW f \in Handler, NEW g \in Handler, f # g, Busy(f)', Busy(g)'
      PROVE  handler'[g].msg.timer = 0
  BY <1>1, <1>2, <1>3 DEF Busy, TimersInv
<1>4. ASSUME NEW g \in Handler, Busy(g)' PROVE Knows(handler[g])'
  <2>1. CASE g = h
    BY <1>4, <2>1 DEF Busy
  <2>2. CASE g # h
    <3>1. handler'[g] = handler[g] /\ Busy(g) /\ handler[g].msg.timer = 0
          /\ handler[h].msg.timer = 0
      BY <1>1, <1>2, <1>4, <2>2 DEF Busy
    <3>2. settings'.expiry = settings.expiry
      BY <3>1
    <3>3. Knows(handler[g])
      BY <3>1 DEF TimersInv
    <3> QED
      BY <3>1, <3>2, <3>3 DEF Knows
  <2> QED
    BY <2>1, <2>2
<1>5. ASSUME NEW p \in MembersOf(members') \ banned'
      PROVE  timers'[p] = settings'.expiry \/ \E g \in Handler : Owes(handler'[g], p)
  <2>1. CASE /\ p \in MembersOf(members) \ banned /\ timers'[p] = timers[p]
             /\ settings'.expiry = settings.expiry /\ ~Owes(handler[h], p)
    <3>1. timers[p] = settings.expiry \/ \E g \in Handler : Owes(handler[g], p)
      BY <2>1 DEF TimersInv
    <3>2. ASSUME NEW g \in Handler, Owes(handler[g], p) PROVE Owes(handler'[g], p)
      BY <1>2, <2>1, <3>2
    <3> QED
      BY <2>1, <3>1, <3>2
  <2> QED
    BY <1>5, <2>1
<1> QED
  BY <1>3, <1>4, <1>5 DEF TimersInv

\* A handler whose message carries a timer is alone, so it knows all.
LEMMA Alone ==
  ASSUME Sane, TimersInv, Calm, NEW h \in Handler, handler[h].pc \in {"timer", "others"}
  PROVE  /\ Knows(handler[h]) /\ handler[h].msg.timer \in Expiry /\ handler[h].msg.timer > 0
         /\ handler[h].msg.from \in Person /\ handler[h].needs = {}
         /\ Chan(h).set.expiry \in Expiry
         /\ Chan(h).members = members /\ handler[h].sender = members[From(h)]
         /\ timers[From(h)] = Msg(h).timer
         /\ \A p : Owes(handler[h], p) => p = From(h) \/ handler[h].pc = "others"
<1>1. Busy(h) /\ Knows(handler[h])
  BY DEF Busy, TimersInv
<1>2. handler[h].msg \in Arriving /\ handler[h].msg.timer > 0 /\ handler[h].needs = {}
  BY DEF Sane, LocalOK
<1>3. handler[h].msg.from \in Person /\ handler[h].msg.timer \in Expiry
  BY <1>2, MessageOK DEF Expiry
<1>4. Chan(h).set.expiry \in Expiry
  <2>1. handler[h].chan.set \in Settings
    BY HandlerFields DEF Sane
  <2> QED
    BY <2>1 DEF Chan, Settings
<1>5. \A p : Owes(handler[h], p) => p = From(h) \/ handler[h].pc = "others"
  BY DEF Owes, From, Msg
<1> QED
  BY <1>1, <1>2, <1>3, <1>4, <1>5 DEF Knows, Chan, From, Msg

\* From the execution of a command on, the message carries no timer.
LEMMA Untimed ==
  ASSUME Sane, TimersInv, Calm, NEW h \in Handler,
         handler[h].pc \in {"execute", "respond", "notify", "expire", "count", "end"}
  PROVE  /\ Busy(h) /\ handler[h].msg.timer = 0 /\ ~(handler[h].msg.timer > 0)
         /\ handler[h].needs = {} /\ handler[h].chan.set.expiry = settings.expiry
<1>1. Busy(h) /\ Knows(handler[h])
  BY DEF Busy, TimersInv
<1>2. handler[h].msg.timer = 0 /\ handler[h].needs = {}
  BY DEF Sane, LocalOK, Pc
<1> QED
  BY <1>1, <1>2 DEF Knows

LEMMA TimersReceive ==
  ASSUME Sane, TimersInv, Calm, Calm', NEW h \in Handler, Receive(h)
  PROVE  TimersInv'
<1>1. PICK m \in inbox :
        /\ handler' = [handler EXCEPT ![h] = Reading(m)]
        /\ timers' = IF m.timer > 0 THEN [timers EXCEPT ![m.from] = m.timer] ELSE timers
        /\ raced' = (raced \/ \E g \in Handler :
             ~At(g, "idle") /\ (m.timer > 0 \/ Msg(g).timer > 0))
  BY DEF Receive, Reading
<1>2. m \in Arriving /\ m.from \in Person /\ m.timer \in 0..2
  BY MessageOK DEF Sane, RestOK
<1>3. /\ Others(h) /\ handler'[h].pc = "read" /\ handler'[h].msg = m
      /\ handler'[h].needs = {"channel", "sender"}
  BY <1>1, <1>2, ReceiveEffect DEF Sane
<1>4. /\ ~Busy(h) /\ settings' = settings /\ members' = members /\ banned' = banned
  BY DEF Receive, Busy, At, tables
<1>5. \A g \in Handler : Busy(g) => ~(m.timer > 0) /\ ~(handler[g].msg.timer > 0)
  BY <1>1 DEF Calm, At, Busy, Msg
<1>6. \A g \in Handler : Busy(g) => m.timer = 0 /\ handler[g].msg.timer = 0
  <2> SUFFICES ASSUME NEW g \in Handler, Busy(g) PROVE m.timer = 0 /\ handler[g].msg.timer = 0
    OBVIOUS
  <2>1. handler[g].msg \in Arriving
    BY DEF Sane, LocalOK, Busy
  <2>2. handler[g].msg.timer \in 0..2
    BY <2>1, MessageOK
  <2> QED
    BY <1>2, <1>5, <2>2
<1>7. \A g \in Handler : g # h => handler'[g] = handler[g]
  BY <1>3 DEF Others
<1>8. timers \in [Person -> Expiry]
  BY DEF Sane, RestOK
<1>9. /\ m.timer = 0 => timers' = timers
      /\ m.timer > 0 => timers'[m.from] = m.timer
      /\ \A p \in Person : timers'[p] = timers[p] \/ (m.timer > 0 /\ p = m.from)
  <2>1. CASE m.timer > 0
    <3>1. timers' = [timers EXCEPT ![m.from] = m.timer] /\ m.timer # 0
      BY <1>1, <1>2, <2>1
    <3>2. \A p \in Person : timers'[p] = IF p = m.from THEN m.timer ELSE timers[p]
      BY <1>8, <3>1
    <3> QED
      BY <1>2, <2>1, <3>1, <3>2, Zenon
  <2>2. CASE ~(m.timer > 0)
    BY <1>1, <2>2
  <2> QED
    BY <2>1, <2>2
<1>10. ASSUME NEW f \in Handler, NEW g \in Handler, f # g, Busy(f)', Busy(g)'
       PROVE  handler'[g].msg.timer = 0
  BY <1>3, <1>6, <1>7, <1>10 DEF Busy
<1>11. ASSUME NEW g \in Handler, Busy(g)' PROVE Knows(handler[g])'
  <2>1. CASE g = h
    BY <1>3, <1>9, <2>1 DEF Knows
  <2>2. CASE g # h
    <3>1. handler'[g] = handler[g] /\ Busy(g)
      BY <1>7, <1>11, <2>2 DEF Busy
    <3>2. Knows(handler[g]) /\ timers' = timers
      BY <1>6, <1>9, <3>1 DEF TimersInv
    <3> QED
      BY <1>4, <3>1, <3>2 DEF Knows
  <2> QED
    BY <2>1, <2>2
<1>12. ASSUME NEW p \in MembersOf(members') \ banned'
       PROVE  timers'[p] = settings'.expiry \/ \E g \in Handler : Owes(handler'[g], p)
  <2>1. p \in Person /\ p \in MembersOf(members) \ banned
    BY <1>4 DEF MembersOf
  <2>2. CASE timers'[p] = timers[p]
    <3>1. timers[p] = settings.expiry \/ \E g \in Handler : Owes(handler[g], p)
      BY <2>1 DEF TimersInv
    <3>2. ASSUME NEW g \in Handler, Owes(handler[g], p) PROVE Owes(handler'[g], p)
      <4>1. g # h
        BY <1>4, <3>2 DEF Owes, Busy
      <4> QED
        BY <1>7, <3>2, <4>1
    <3> QED
      BY <1>4, <2>2, <3>1, <3>2
  <2>3. CASE m.timer > 0 /\ p = m.from
    <3>1. Owes(handler'[h], p)
      BY <1>3, <2>3 DEF Owes
    <3> QED
      BY <3>1
  <2> QED
    BY <1>9, <2>1, <2>2, <2>3
<1> QED
  BY <1>10, <1>11, <1>12 DEF TimersInv

LEMMA TimersRead ==
  ASSUME Sane, TimersInv, Calm, NEW h \in Handler, FetchChannel(h) \/ ClassifyPhoneNumber(h)
  PROVE  TimersInv'
<1>1. Chan(h) \in [members: [Person -> MemberType], set: Settings] /\ handler[h].sender \in MemberType
  BY HandlerFields DEF Sane, Chan
<1>2. [members |-> members, set |-> settings] \in [members: [Person -> MemberType], set: Settings]
  BY DEF Sane, TablesOK
<1>3. At(h, "read") /\ settings' = settings /\ members' = members /\ banned' = banned /\ timers' = timers
  BY DEF FetchChannel, ClassifyPhoneNumber, Read, tables
<1>4. handler[h].pc = "read" /\ handler[h].msg \in Arriving /\ Busy(h)
  BY <1>3 DEF At, Sane, LocalOK, Busy
<1>5. members[From(h)] \in MemberType
  BY <1>4, MessageOK DEF Sane, TablesOK, From, Msg
<1>6. Knows(handler[h])
  BY <1>4 DEF TimersInv
<1>7. Others(h) /\ handler'[h].msg = handler[h].msg /\ handler'[h].pc \in {"banned", "read"}
      /\ Knows(handler[h])'
  <2>1. CASE FetchChannel(h)
    <3>1. /\ Others(h) /\ handler'[h].msg = handler[h].msg /\ handler'[h].pc \in {"banned", "read"}
          /\ handler'[h].needs = handler[h].needs \ {"channel"}
          /\ handler'[h].chan = [members |-> members, set |-> settings]
          /\ handler'[h].sender = handler[h].sender
      BY <1>1, <1>2, <2>1, ReadEffect DEF FetchChannel, Sane
    <3> QED
      BY <1>3, <1>6, <3>1 DEF Knows
  <2>2. CASE ClassifyPhoneNumber(h)
    <3>1. /\ Others(h) /\ handler'[h].msg = handler[h].msg /\ handler'[h].pc \in {"banned", "read"}
          /\ handler'[h].needs = handler[h].needs \ {"sender"}
          /\ handler'[h].chan = handler[h].chan /\ handler'[h].sender = members[From(h)]
      BY <1>1, <1>5, <2>2, ReadEffect DEF ClassifyPhoneNumber, Chan, Sane
    <3> QED
      BY <1>3, <1>4, <1>6, <3>1 DEF Knows, From, Msg
  <2> QED
    BY <2>1, <2>2
<1>8. \A p : Owes(handler[h], p) => Owes(handler'[h], p)
  BY <1>4, <1>7 DEF Owes
<1> QED
  BY <1>3, <1>4, <1>7, <1>8, TimersKept

LEMMA TimersDetectBanned ==
  ASSUME Sane, TimersInv, Calm, NEW h \in Handler, DetectBanned(h)
  PROVE  TimersInv'
<1>1. /\ handler[h].pc = "banned" /\ handler[h].needs = {}
      /\ settings' = settings /\ members' = members /\ banned' = banned /\ timers' = timers
  BY DEF DetectBanned, At, tables, Sane, LocalOK
<1>2. Busy(h) /\ Knows(handler[h])
  BY <1>1 DEF Busy, TimersInv
<1>3. \A p : Owes(handler[h], p) => handler[h].msg.timer > 0 /\ p = From(h)
  BY <1>1 DEF Owes, From, Msg
<1>4. CASE From(h) \in banned /\ Finish(h, TRUE)
  <2>1. Others(h) /\ handler'[h].pc = "idle"
    BY <1>4, FinishEffect, IdlePlace DEF Sane
  <2> QED
    BY <1>1, <1>2, <1>3, <1>4, <2>1, TimersKept
<1>5. CASE Step(h, IF Msg(h).timer > 0 THEN "timer" ELSE "execute")
  <2>1. PICK p \in Pc : p = IF Msg(h).timer > 0 THEN "timer" ELSE "execute"
    BY DEF Pc
  <2>2. Others(h) /\ handler'[h].pc = p /\ SameBut(handler[h], handler'[h])
    BY <1>5, <2>1, StepEffect DEF Sane
  <2>3. handler'[h].msg = handler[h].msg /\ Knows(handler[h])'
    BY <1>1, <1>2, <2>1, <2>2 DEF Knows, SameBut
  <2>4. \A q : Owes(handler[h], q) => Owes(handler'[h], q)
    BY <1>3, <2>1, <2>2 DEF Owes, SameBut, From, Msg
  <2> QED
    BY <1>1, <1>2, <2>2, <2>3, <2>4, TimersKept
<1> QED
  BY <1>4, <1>5 DEF DetectBanned

LEMMA TimersUpdate ==
  ASSUME Sane, TimersInv, Calm, Calm', NEW h \in Handler, UpdateExpiryTime(h)
  PROVE  TimersInv'
<1>1. handler[h].pc = "timer" /\ members' = members /\ banned' = banned /\ Busy(h)
  BY DEF UpdateExpiryTime, At, Busy
<1>2. /\ Knows(handler[h]) /\ Msg(h).timer \in Expiry /\ handler[h].msg.timer > 0
      /\ From(h) \in Person /\ handler[h].needs = {}
      /\ Chan(h).set.expiry \in Expiry
      /\ Chan(h).members = members /\ handler[h].sender = members[From(h)]
      /\ timers[From(h)] = Msg(h).timer
      /\ \A p : Owes(handler[h], p) => p = From(h)
  BY <1>1, Alone DEF From, Msg
<1>3. Chan(h).set.expiry = settings.expiry
  BY <1>1, <1>2 DEF Knows, Chan
<1>4. faults \in Nat /\ timers \in [Person -> Expiry] /\ settings \in Settings /\ faults' = faults
  BY DEF Sane, TalliesOK, RestOK, TablesOK, Calm
<1>5. CASE /\ Msg(h).timer = Chan(h).set.expiry \/ handler[h].sender = "NONE"
           /\ Finish(h, TRUE) /\ UNCHANGED <<settings, timers, faults>>
  <2>1. Others(h) /\ handler'[h].pc = "idle"
    BY <1>5, FinishEffect, IdlePlace DEF Sane
  <2>2. \A p \in MembersOf(members) : timers[p] = settings.expiry \/ ~Owes(handler[h], p)
    BY <1>2, <1>3, <1>5 DEF MembersOf
  <2> QED
    BY <1>1, <1>5, <2>1, <2>2, TimersKept
<1>6. CASE /\ SetExpiration({From(h)}, Chan(h).set.expiry) /\ Finish(h, TRUE)
           /\ settings' = settings
  <2>1. Others(h) /\ handler'[h].pc = "idle"
    BY <1>6, FinishEffect, IdlePlace DEF Sane
  <2>2. PICK t, people : t \in Expiry /\ t = Chan(h).set.expiry /\ people = {From(h)}
    BY <1>2
  <2>3. timers' = [p \in Person |-> IF p \in people THEN t ELSE timers[p]]
    BY <1>4, <1>6, <2>2, SetExpirationOK
  <2>4. \A p \in Person : timers'[p] = IF p = From(h) THEN settings.expiry ELSE timers[p]
    BY <1>3, <2>2, <2>3
  <2>5. \A p \in MembersOf(members) : timers'[p] = settings.expiry
                                      \/ (timers'[p] = timers[p] /\ ~Owes(handler[h], p))
    <3>1. \A p : Owes(handler[h], p) => p = From(h)
      BY <1>2
    <3> QED
      BY <2>4, <3>1, Zenon DEF MembersOf
  <2>6. settings'.expiry = settings.expiry
    BY <1>6
  <2>7. \A p \in MembersOf(members') \ banned' :
          \/ timers'[p] = settings'.expiry
          \/ /\ p \in MembersOf(members) \ banned /\ timers'[p] = timers[p]
             /\ settings'.expiry = settings.expiry /\ ~Owes(handler[h], p)
    BY <1>1, <2>5, <2>6
  <2> QED
    BY <1>1, <2>1, <2>6, <2>7, TimersKept
<1>7. CASE /\ settings' = [settings EXCEPT !.expiry = Msg(h).timer]
           /\ Step(h, "others") /\ UNCHANGED timers
  <2>1. Others(h) /\ handler'[h].pc = "others" /\ SameBut(handler[h], handler'[h])
    BY <1>7, StepEffect DEF Sane, Pc
  <2>2. settings'.expiry = Msg(h).timer
    BY <1>4, <1>7 DEF Settings
  <2>3. handler'[h].msg = handler[h].msg /\ Knows(handler[h])'
    BY <1>1, <1>2, <1>7, <2>1, <2>2 DEF Knows, SameBut, Msg
  <2>4. \A p \in MembersOf(members) : Owes(handler'[h], p)
    BY <1>2, <2>1 DEF Owes, SameBut, Chan
  <2> QED
    BY <1>1, <1>2, <2>1, <2>3, <2>4, TimersKept
<1> QED
  BY <1>5, <1>6, <1>7 DEF UpdateExpiryTime

LEMMA TimersEnforce ==
  ASSUME Sane, TimersInv, Calm, Calm', NEW h \in Handler, EnforceExpiryTime(h)
  PROVE  TimersInv'
<1>1. /\ handler[h].pc = "others" /\ members' = members /\ banned' = banned /\ Busy(h)
      /\ settings' = settings
  BY DEF EnforceExpiryTime, At, Busy, tables
<1>2. /\ Knows(handler[h]) /\ Msg(h).timer \in Expiry
      /\ From(h) \in Person
      /\ Chan(h).members = members /\ timers[From(h)] = Msg(h).timer
  BY <1>1, Alone DEF From, Msg
<1>3. settings.expiry = Msg(h).timer
  BY <1>1, <1>2 DEF Knows, Msg
<1>4. faults' = faults
  BY DEF Calm
<1>5. Others(h) /\ handler'[h].pc = "idle"
  BY FinishEffect, IdlePlace DEF Sane, EnforceExpiryTime
<1>6. PICK t, people :
        t \in Expiry /\ t = Msg(h).timer /\ people = MembersOf(Chan(h).members) \ {From(h)}
  BY <1>2
<1>7. timers' = [p \in Person |-> IF p \in people THEN t ELSE timers[p]]
  BY <1>4, <1>6, SetExpirationOK DEF EnforceExpiryTime
<1>8. \A p \in MembersOf(members) : timers'[p] = settings.expiry
  BY <1>2, <1>3, <1>6, <1>7 DEF MembersOf
<1> QED
  BY <1>1, <1>5, <1>8, TimersKept

\* A command gives the channel members only whose timers its handler will set.
LEMMA TimersCommand ==
  ASSUME Sane, TimersInv, Calm, Calm', NEW h \in Handler, ProcessCommand(h)
  PROVE  TimersInv'
<1>1. /\ handler[h].pc = "execute" /\ TablesStep(h) /\ timers' = timers
      /\ Thrown(h) \/ \E result : Outcome(h, result)
  BY CommandOutcome DEF CommandStep, KeepsRest, At
<1>2. /\ Busy(h) /\ ~(handler[h].msg.timer > 0) /\ handler[h].needs = {}
      /\ handler[h].chan.set.expiry = settings.expiry
  BY <1>1, Untimed
<1>3. settings'.expiry = settings.expiry /\ banned \subseteq banned' /\ faults' = 0
  BY <1>1 DEF TablesStep, Calm
<1>4. \A p : ~Owes(handler[h], p)
  BY <1>1, <1>2 DEF Owes
<1>5. CASE Thrown(h)
  <2>1. Others(h) /\ handler'[h].pc = "idle"
    BY <1>5, FinishEffect, IdlePlace DEF Sane, Thrown
  <2>2. MembersOf(members') \subseteq MembersOf(members)
    BY <1>3, <1>5 DEF Thrown
  <2> QED
    BY <1>1, <1>2, <1>3, <1>4, <2>1, <2>2, TimersKept
<1>6. ASSUME NEW result, Outcome(h, result) PROVE TimersInv'
  <2>1. /\ Others(h)
        /\ handler'[h].pc = After(result) /\ handler'[h].result = result
        /\ handler'[h].msg = handler[h].msg /\ handler'[h].needs = handler[h].needs
        /\ handler'[h].chan = handler[h].chan
    BY <1>6, ConcludedEffect DEF Outcome, Sane
  <2>2. handler'[h].pc \in {"notify", "respond"}
    BY <2>1 DEF After
  <2>3. Knows(handler[h])'
    BY <1>2, <1>3, <2>1, <2>2 DEF Knows
  <2>4. \A p \in MembersOf(members') \ MembersOf(members) : Owes(handler'[h], p)
    BY <1>3, <1>6, <2>1, <2>2 DEF Outcome, Owes, Msg
  <2> QED
    BY <1>1, <1>2, <1>3, <1>4, <2>1, <2>3, <2>4, TimersKept
<1> QED
  BY <1>1, <1>5, <1>6

LEMMA TimersRespond ==
  ASSUME Sane, TimersInv, Calm, Calm', NEW h \in Handler, Respond(h)
  PROVE  TimersInv'
<1>1. /\ handler[h].pc = "respond" /\ timers' = timers /\ settings' = settings
      /\ members' = members /\ banned' = banned
  BY DEF Respond, At, tables
<1>2. /\ Busy(h) /\ ~(handler[h].msg.timer > 0) /\ handler[h].needs = {}
      /\ handler[h].chan.set.expiry = settings.expiry
  BY <1>1, Untimed
<1>3. PICK p \in Pc : p = IF Succeeded(h) THEN "notify" ELSE "end"
  BY DEF Pc
<1>4. handler' = [handler EXCEPT ![h].told = TRUE, ![h].pc = p]
  <2>1. ~Fault
    BY DEF Calm, Fault
  <2> QED
    BY <1>3, <2>1 DEF Respond
<1>5. /\ Others(h) /\ handler'[h].pc = p /\ handler'[h].msg = handler[h].msg
      /\ handler'[h].needs = handler[h].needs /\ handler'[h].chan = handler[h].chan
      /\ handler'[h].result = handler[h].result
  BY <1>4, TellEffect DEF Sane
<1>6. Knows(handler[h])'
  BY <1>1, <1>2, <1>3, <1>5 DEF Knows
<1>7. \A q : Owes(handler[h], q) => Owes(handler'[h], q)
  BY <1>1, <1>2, <1>3, <1>5 DEF Owes, Succeeded
<1> QED
  BY <1>1, <1>2, <1>5, <1>6, <1>7, TimersKept

LEMMA TimersSend ==
  ASSUME Sane, TimersInv, Calm, Calm', NEW h \in Handler, SendNotifications(h)
  PROVE  TimersInv'
<1>1. /\ handler[h].pc = "notify" /\ timers' = timers /\ settings' = settings
      /\ members' = members /\ banned' = banned
  BY DEF SendNotifications, At, tables
<1>2. /\ Busy(h) /\ ~(handler[h].msg.timer > 0) /\ handler[h].needs = {}
      /\ handler[h].chan.set.expiry = settings.expiry
  BY <1>1, Untimed
<1>3. PICK p \in {"expire", "count", "end"} : p = CASE NewUsers(h) # {} -> "expire"
                         [] Command1(h) \in {"NONE", "BROADCAST"} -> "count"
                         [] OTHER -> "end"
  OBVIOUS
<1>4. PICK told \in BOOLEAN : handler' = [handler EXCEPT ![h].told = told, ![h].pc = p]
  <2>1. ~Fault
    BY DEF Calm, Fault
  <2> QED
    BY <1>3, <2>1 DEF SendNotifications
<1>5. /\ Others(h) /\ handler'[h].pc = p /\ handler'[h].msg = handler[h].msg
      /\ handler'[h].needs = handler[h].needs /\ handler'[h].chan = handler[h].chan
      /\ handler'[h].result = handler[h].result
  BY <1>4, TellEffect DEF Sane, Pc
<1>6. Knows(handler[h])'
  BY <1>1, <1>2, <1>3, <1>5 DEF Knows
<1>7. NewUsers(h) = NewUsersOf(handler[h].msg, handler[h].result.command)
  BY NewUsersAre DEF Msg, Command1
<1>8. NewUsers(h) # {} => p = "expire"
  <2>1. Command1(h) \in {"NONE", "BROADCAST"} => NewUsers(h) = {}
    BY NewUsersAre DEF NewUsersOf
  <2> QED
    BY <1>3, <2>1
<1>9. \A q : Owes(handler[h], q) => Owes(handler'[h], q)
  BY <1>1, <1>2, <1>5, <1>7, <1>8 DEF Owes
<1> QED
  BY <1>1, <1>2, <1>5, <1>6, <1>9, TimersKept

LEMMA TimersNewUsers ==
  ASSUME Sane, TimersInv, Calm, Calm', NEW h \in Handler, SetExpiryTimeForNewUsers(h)
  PROVE  TimersInv'
<1>1. /\ handler[h].pc = "expire" /\ settings' = settings
      /\ members' = members /\ banned' = banned
  BY DEF SetExpiryTimeForNewUsers, At, tables
<1>2. /\ Busy(h) /\ ~(handler[h].msg.timer > 0) /\ handler[h].needs = {}
      /\ handler[h].chan.set.expiry = settings.expiry
  BY <1>1, Untimed
<1>3. faults' = faults
  BY DEF Calm
<1>4. PICK t, people : t \in Expiry /\ t = Chan(h).set.expiry /\ people = NewUsers(h)
  <2>1. handler[h].chan.set \in Settings
    BY HandlerFields DEF Sane
  <2> QED
    BY <2>1 DEF Chan, Settings
<1>5. timers' = [p \in Person |-> IF p \in people THEN t ELSE timers[p]] /\ Step(h, "end")
  BY <1>3, <1>4, SetExpirationOK DEF SetExpiryTimeForNewUsers
<1>6. Others(h) /\ handler'[h].pc = "end" /\ SameBut(handler[h], handler'[h])
  BY <1>5, StepEffect DEF Sane, Pc
<1>7. handler'[h].msg = handler[h].msg /\ Knows(handler[h])'
  BY <1>1, <1>2, <1>6 DEF Knows, SameBut
<1>8. \A p \in Person : timers'[p] = settings.expiry \/ (timers'[p] = timers[p] /\ p \notin NewUsers(h))
  <2>1. t = settings.expiry
    BY <1>2, <1>4 DEF Chan
  <2>2. \A p \in Person : timers'[p] = IF p \in people THEN t ELSE timers[p]
    BY <1>5
  <2>3. people = NewUsers(h)
    BY <1>4
  <2> QED
    BY <2>1, <2>2, <2>3, Zenon
<1>9. \A p : Owes(handler[h], p) => p \in NewUsers(h)
  BY <1>1, <1>2, NewUsersAre DEF Owes, Msg, Command1
<1>10. \A p \in MembersOf(members) : timers'[p] = settings.expiry
                                     \/ (timers'[p] = timers[p] /\ ~Owes(handler[h], p))
  BY <1>8, <1>9 DEF MembersOf
<1> QED
  BY <1>1, <1>2, <1>6, <1>7, <1>10, TimersKept

LEMMA TimersEnd ==
  ASSUME Sane, TimersInv, Calm, NEW h \in Handler, Count(h) \/ End(h)
  PROVE  TimersInv'
<1>1. /\ handler[h].pc \in {"count", "end"} /\ timers' = timers /\ settings' = settings
      /\ members' = members /\ banned' = banned
  BY DEF Count, End, At, tables
<1>2. Busy(h) /\ ~(handler[h].msg.timer > 0)
  BY <1>1, Untimed
<1>3. Others(h) /\ handler'[h].pc = "idle"
  <2>1. PICK excused \in BOOLEAN : Finish(h, excused)
    BY DEF Count, End
  <2> QED
    BY <2>1, FinishEffect, IdlePlace DEF Sane
<1>4. \A p : ~Owes(handler[h], p)
  BY <1>1, <1>2 DEF Owes
<1> QED
  BY <1>1, <1>2, <1>3, <1>4, TimersKept

\* Failures and overlaps are remembered.
LEMMA CalmBefore ==
  ASSUME Sane, [Next]_vars, Calm'
  PROVE  Calm
<1>1. faults \in Nat /\ raced \in BOOLEAN
  BY DEF Sane, TalliesOK, RestOK
<1>2. ASSUME NEW h \in Handler, Handle(h) PROVE faults' = faults \/ faults' = faults + 1
  <2>1. CASE ProcessCommand(h)
    BY <2>1, CommandOutcome DEF CommandStep, TablesStep
  <2>2. CASE Receive(h) \/ FetchChannel(h) \/ ClassifyPhoneNumber(h) \/ DetectBanned(h) \/ End(h)
    BY <2>2 DEF Receive, FetchChannel, ClassifyPhoneNumber, Read, DetectBanned, End, history
  <2>3. CASE UpdateExpiryTime(h) \/ EnforceExpiryTime(h) \/ SetExpiryTimeForNewUsers(h)
    BY <2>3 DEF UpdateExpiryTime, EnforceExpiryTime, SetExpiryTimeForNewUsers, SetExpiration, Fault
  <2>4. CASE Respond(h) \/ SendNotifications(h) \/ Count(h)
    BY <2>4 DEF Respond, SendNotifications, Count, Fault
  <2> QED
    BY <1>2, <2>1, <2>2, <2>3, <2>4 DEF Handle
<1>3. ASSUME NEW h \in Handler, Handle(h) PROVE raced => raced'
  <2>1. CASE Receive(h)
    BY <2>1 DEF Receive
  <2>2. CASE ProcessCommand(h)
    BY <2>2, CommandOutcome DEF CommandStep, KeepsRest
  <2>3. CASE FetchChannel(h) \/ ClassifyPhoneNumber(h)
    BY <2>3 DEF FetchChannel, ClassifyPhoneNumber, Read, history
  <2>4. CASE DetectBanned(h) \/ UpdateExpiryTime(h) \/ EnforceExpiryTime(h)
    BY <2>4 DEF DetectBanned, UpdateExpiryTime, EnforceExpiryTime
  <2>5. CASE \/ Respond(h) \/ SendNotifications(h) \/ SetExpiryTimeForNewUsers(h)
             \/ Count(h) \/ End(h)
    BY <2>5 DEF Respond, SendNotifications, SetExpiryTimeForNewUsers, Count, End
  <2> QED
    BY <1>3, <2>1, <2>2, <2>3, <2>4, <2>5 DEF Handle
<1>4. CASE DeleteExpired \/ Drop \/ ResendAfter \/ Arrive \/ UNCHANGED vars
  BY <1>4 DEF DeleteExpired, Drop, ResendAfter, Arrive, vars, history, Calm
<1> QED
  BY <1>1, <1>2, <1>3, <1>4 DEF Next, Calm

LEMMA TimersNext ==
  ASSUME Sane, TimersInv, [Next]_vars
  PROVE  TimersInv'
<1> SUFFICES ASSUME Calm' PROVE TimersInv'
  BY DEF TimersInv
<1>1. Calm
  BY CalmBefore
<1>2. ASSUME NEW h \in Handler, Handle(h) PROVE TimersInv'
  BY <1>1, <1>2, TimersReceive, TimersRead, TimersDetectBanned, TimersUpdate, TimersEnforce,
     TimersCommand, TimersRespond, TimersSend, TimersNewUsers, TimersEnd DEF Handle
<1>3. CASE DeleteExpired \/ Drop \/ ResendAfter \/ Arrive \/ UNCHANGED vars
  <2>1. /\ handler' = handler /\ members' = members /\ settings' = settings /\ banned' = banned
        /\ timers' = timers /\ raced' = raced /\ faults' = faults
    BY <1>3 DEF DeleteExpired, Drop, ResendAfter, Arrive, vars, tables, history
  <2> QED
    BY <2>1 DEF TimersInv, Calm, Busy, Knows
<1> QED
  BY <1>2, <1>3 DEF Next

\* When nothing failed and no message overlapped a change of the timer, all members
\* who are not banned have the channel's timer, for every order in which admins
\* change it, subscribers are corrected, and people are added, invited or join
\* (index.js 197-225, messenger.js 163-207).
THEOREM TimersConverge == Spec => []TimersAgree
<1>1. Init => TimersInv
  <2> SUFFICES ASSUME Init PROVE TimersInv
    OBVIOUS
  <2>1. \A h \in Handler : handler[h].pc = "idle"
    BY DEF Init, Idle
  <2>2. settings.expiry = 1 /\ \A p \in Person : timers[p] = 1
    BY DEF Init, FirstSettings
  <2> QED
    BY <2>1, <2>2 DEF TimersInv, Busy, MembersOf
<1>2. Sane /\ TimersInv /\ [Next]_vars => TimersInv'
  BY TimersNext
<1>3. TimersInv => TimersAgree
  BY DEF TimersInv, TimersAgree, Calm, Quiet, At, Owes
<1> QED
  BY <1>1, <1>2, <1>3, AlwaysSane, PTL DEF Spec

-----------------------------------------------------------------------------
(* Types.                                                                  *)

\* One row for each number and for each person.
Rows == \A x, y \in hotline : x.id <= lastId /\ (x.id = y.id \/ x.who = y.who => x = y)

LEMMA RowsNext ==
  ASSUME Sane, Rows, [Next]_vars
  PROVE  Rows'
<1>1. hotline \subseteq Row /\ lastId \in Nat
  BY DEF Sane, TablesOK
<1>2. CASE hotline' \subseteq hotline /\ lastId' = lastId
  BY <1>2 DEF Rows
<1>3. ASSUME NEW h \in Handler, ProcessCommand(h) PROVE Rows'
  <2>1. TablesStep(h) /\ From(h) \in Person
    BY <1>3, CommandOutcome, ExecOK DEF CommandStep
  <2>2. ASSUME lastId' = lastId + 1, hotline' = hotline \cup {[id |-> lastId + 1, who |-> From(h)]},
               \A x \in hotline : x.who # From(h)
        PROVE  Rows'
    <3>1. PICK c \in Row : c = [id |-> lastId + 1, who |-> From(h)]
      <4>1. PICK n \in Nat, p \in Person : n = lastId + 1 /\ p = From(h)
        BY <1>1, <2>1
      <4>2. [id |-> n, who |-> p] \in Row
        BY DEF Row
      <4> QED
        BY <4>1, <4>2
    <3>2. c.id = lastId + 1 /\ c.who = From(h) /\ \A x \in hotline' : x \in hotline \/ x = c
      BY <2>2, <3>1
    <3>3. \A x \in hotline : x.id \in Nat /\ x.id <= lastId
      BY <1>1 DEF Rows, Row
    <3>4. \A x \in hotline : x.id # c.id /\ x.who # c.who
      BY <1>1, <2>2, <3>2, <3>3
    <3>5. \A x \in hotline' : x.id <= lastId'
      BY <1>1, <2>2, <3>2, <3>3
    <3>6. ASSUME NEW x \in hotline', NEW y \in hotline', x.id = y.id \/ x.who = y.who
          PROVE  x = y
      BY <3>2, <3>4, <3>6 DEF Rows
    <3> QED
      BY <3>5, <3>6 DEF Rows
  <2> QED
    BY <1>2, <2>1, <2>2 DEF TablesStep
<1>4. ASSUME NEW h \in Handler, Handle(h), ~ProcessCommand(h)
      PROVE  hotline' = hotline /\ lastId' = lastId
  BY <1>4 DEF Handle, Receive, FetchChannel, ClassifyPhoneNumber, Read, DetectBanned,
              UpdateExpiryTime, EnforceExpiryTime, Respond, SendNotifications,
              SetExpiryTimeForNewUsers, Count, End, tables
<1>5. CASE DeleteExpired \/ Drop \/ ResendAfter \/ Arrive \/ UNCHANGED vars
  <2>1. hotline' \subseteq hotline /\ lastId' = lastId
    BY <1>5 DEF DeleteExpired, Drop, ResendAfter, Arrive, vars, tables
  <2> QED
    BY <1>2, <2>1
<1> QED
  BY <1>2, <1>3, <1>4, <1>5 DEF Next

\* The types of all variables, and that the rows of hotline messages keep both of
\* their keys (hotlineMessage.js 16-39).
THEOREM TypesHold == Spec => []TypeOK
<1>1. Init => Rows
  BY DEF Init, Rows
<1>2. Sane /\ Rows /\ [Next]_vars => Rows'
  BY RowsNext
<1>3. Sane /\ Rows => TypeOK
  <2> SUFFICES ASSUME Sane, Rows PROVE TypeOK
    OBVIOUS
  <2>1. \A h \in Handler : handler[h].result \in Result
    BY HandlerFields DEF Sane
  <2>2. air \in Nat /\ resend.interval \in 0..MaxInterval /\ resend.waiting \in Nat
        /\ counts \in [broadcast: Nat, hotline: Nat, command: Nat] /\ timers \in [Person -> Expiry]
    BY DEF Sane, TalliesOK, RestOK
  <2>3. /\ members \in [Person -> {"ADMIN", "SUBSCRIBER", "NONE"}]
        /\ settings \in [hotlineOn: BOOLEAN, vouchMode: Vouching, vouchLevel: 1..MaxVouchLevel,
                         expiry: Expiry]
        /\ banned \subseteq Person /\ invites \subseteq Person \X Person /\ waitlist \subseteq Nat
    BY DEF Sane, TablesOK, Settings, MemberType
  <2>4. \A x, y \in hotline : x.id <= lastId /\ (x.id = y.id \/ x.who = y.who => x = y)
    BY DEF Rows
  <2> QED
    BY <2>1, <2>2, <2>3, <2>4 DEF TypeOK
<1> QED
  BY <1>1, <1>2, <1>3, AlwaysSane, PTL DEF Spec
=============================================================================
