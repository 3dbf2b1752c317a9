---------------------------- MODULE SignalcProofs ----------------------------
(***************************************************************************)
(* Proofs about two parts of signalc.  Contacts: a session is with the     *)
(* device whose key is on record unless it is about to be archived, and a  *)
(* contact stays one record as long as messages do not cross.              *)
(* SignalcSockets: the three maps of connections agree once nothing is on  *)
(* its way.                                                                *)
(***************************************************************************)
EXTENDS Contacts, SignalcSockets, TLAPS

(* Rows.  No two of them have an identifier in common.                     *)

Apart(rows) ==
  \A i, j \in DOMAIN rows : i # j => rows[i].ids \cap rows[j].ids = {}

\* What a lookup finds or creates.
LEMMA Lookup ==
  ASSUME NEW rows \in Seq(Row), Apart(rows), NEW id \in Identifier
  PROVE  /\ Resolved(rows, id) \in Seq(Row) /\ Apart(Resolved(rows, id))
         /\ ContactId(Resolved(rows, id), id) \in DOMAIN Resolved(rows, id)
         /\ id \in RowOf(rows, id).ids
         /\ RowOf(rows, id) \in Row
         /\ \A i \in DOMAIN Resolved(rows, id) : i # ContactId(Resolved(rows, id), id) =>
              i \in DOMAIN rows /\ Resolved(rows, id)[i] = rows[i]
         /\ IF RowsWith(rows, id) = {}
            THEN RowOf(rows, id) = NewRow({id}) /\ Len(Resolved(rows, id)) = Len(rows) + 1
            ELSE Resolved(rows, id) = rows
<1> DEFINE R == Resolved(rows, id)
           c == ContactId(R, id)
<1>1. NewRow({id}) \in Row /\ NewRow({id}).ids = {id}
  <2>1. {id} \in (SUBSET Identifier) \ {{}} /\ NoKey \in Key \cup {NoKey}
    OBVIOUS
  <2> QED
    BY <2>1 DEF NewRow, Row
<1>2. CASE RowsWith(rows, id) = {}
  <2>1. /\ R = Append(rows, NewRow({id})) /\ R \in Seq(Row)
        /\ DOMAIN R = 1..(Len(rows) + 1) /\ DOMAIN rows = 1..Len(rows)
        /\ R[Len(rows) + 1] = NewRow({id})
        /\ \A i \in DOMAIN rows : R[i] = rows[i]
        /\ Len(R) = Len(rows) + 1
    BY <1>1, <1>2 DEF Resolved
  <2>2. \A i \in DOMAIN rows : id \notin rows[i].ids
    BY <1>2 DEF RowsWith
  <2>n. Len(rows) \in Nat
    OBVIOUS
  <2> HIDE DEF R
  <2>3. RowsWith(R, id) = {Len(rows) + 1}
    <3>1. \A i \in DOMAIN rows : id \notin R[i].ids
      BY <2>1, <2>2
    <3>2. id \in R[Len(rows) + 1].ids
      BY <1>1, <2>1
    <3>3. \A i \in DOMAIN R : i \in DOMAIN rows \/ i = Len(rows) + 1
      BY <2>1, <2>n
    <3>4. Len(rows) + 1 \in DOMAIN R
      BY <2>1, <2>n
    <3> QED
      BY <3>1, <3>2, <3>3, <3>4 DEF RowsWith
  <2>4. c = Len(rows) + 1
    BY <2>3 DEF ContactId
  <2>5. Apart(R)
    <3>1. \A i \in DOMAIN R : i \in DOMAIN rows \/ i = Len(rows) + 1
      BY <2>1, <2>n
    <3>2. \A i \in DOMAIN rows : R[i].ids \cap R[Len(rows) + 1].ids = {}
      BY <1>1, <2>1, <2>2
    <3>3. \A i, j \in DOMAIN rows : i # j => R[i].ids \cap R[j].ids = {}
      BY <2>1 DEF Apart
    <3> QED
      BY <3>1, <3>2, <3>3 DEF Apart
  <2>6. /\ c \in DOMAIN R
        /\ \A i \in DOMAIN R : i # c => i \in DOMAIN rows /\ R[i] = rows[i]
    <3>1. \A i \in DOMAIN R : i \in DOMAIN rows \/ i = Len(rows) + 1
      BY <2>1, <2>n
    <3>2. Len(rows) + 1 \in DOMAIN R
      BY <2>1, <2>n
    <3> HIDE DEF c
    <3> QED
      BY <2>1, <2>4, <3>1, <3>2
  <2>7. R[c] = NewRow({id}) /\ RowOf(rows, id) = R[c]
    <3>1. RowOf(rows, id) = R[c]
      BY DEF RowOf, R
    <3>2. R[c] = NewRow({id})
      BY <2>1, <2>4
    <3> QED
      BY <3>1, <3>2
  <2> QED
    BY <1>1, <1>2, <2>1, <2>5, <2>6, <2>7 DEF R
<1>3. CASE RowsWith(rows, id) # {}
  <2>1. R = rows
    BY <1>3 DEF Resolved
  <2>2. c \in RowsWith(rows, id)
    BY <1>3, <2>1 DEF ContactId
  <2>3. c \in DOMAIN rows /\ id \in rows[c].ids
    BY <2>2 DEF RowsWith
  <2>4. rows[c] \in Row
    BY <2>3
  <2> QED
    BY <1>3, <2>1, <2>3, <2>4 DEF RowOf
<1> QED
  BY <1>2, <1>3

\* A row is written where its identifier was found: the others stay.
Changed(S, rows, id, row) ==
  \E c \in DOMAIN S :
    /\ S[c] = row
    /\ \A i \in DOMAIN S : i # c =>
         i \in DOMAIN rows /\ S[i] = rows[i] /\ id \notin rows[i].ids

LEMMA Writing ==
  ASSUME NEW rows \in Seq(Row), Apart(rows), NEW id \in Identifier,
         NEW row \in Row, row.ids = RowOf(rows, id).ids
  PROVE  /\ Stored(rows, id, row) \in Seq(Row) /\ Apart(Stored(rows, id, row))
         /\ id \in row.ids
         /\ Len(Stored(rows, id, row)) = IF RowsWith(rows, id) = {} THEN Len(rows) + 1
                                         ELSE Len(rows)
         /\ Changed(Stored(rows, id, row), rows, id, row)
         /\ RowsWith(rows, id) = {} => RowOf(rows, id) = NewRow({id})
         /\ RowsWith(rows, id) # {} => \E i \in DOMAIN rows : RowOf(rows, id) = rows[i]
<1> DEFINE R == Resolved(rows, id)
           c == ContactId(R, id)
           S == Stored(rows, id, row)
<1>1. /\ R \in Seq(Row) /\ Apart(R) /\ c \in DOMAIN R /\ id \in RowOf(rows, id).ids
      /\ \A i \in DOMAIN R : i # c => i \in DOMAIN rows /\ R[i] = rows[i]
      /\ IF RowsWith(rows, id) = {}
         THEN RowOf(rows, id) = NewRow({id}) /\ Len(R) = Len(rows) + 1
         ELSE R = rows
  BY Lookup
<1>2. S = [R EXCEPT ![c] = row] /\ R[c] = RowOf(rows, id)
  BY DEF Stored, RowOf
<1> HIDE DEF R, c, S
<1>3. /\ DOMAIN S = DOMAIN R /\ S[c] = row
      /\ \A i \in DOMAIN R : i # c => S[i] = R[i]
  BY <1>1, <1>2
<1>4. S \in Seq(Row) /\ Len(S) = Len(R)
  BY <1>1, <1>2
<1>5. Apart(S)
  BY <1>1, <1>2, <1>3 DEF Apart
<1>6. \A i \in DOMAIN R : i # c => id \notin rows[i].ids
  BY <1>1, <1>2 DEF Apart
<1>7. RowsWith(rows, id) # {} => \E i \in DOMAIN rows : RowOf(rows, id) = rows[i]
  BY <1>1, <1>2
<1>8. Changed(S, rows, id, row)
  BY <1>1, <1>3, <1>6 DEF Changed
<1> QED
  BY <1>1, <1>3, <1>4, <1>5, <1>7, <1>8 DEF S

\* What a send finds or creates is written back as it is.
LEMMA Unwritten ==
  ASSUME NEW rows \in Seq(Row), Apart(rows), NEW id \in Identifier
  PROVE  Resolved(rows, id) = Stored(rows, id, RowOf(rows, id))
<1>1. Resolved(rows, id) \in Seq(Row)
      /\ ContactId(Resolved(rows, id), id) \in DOMAIN Resolved(rows, id)
  BY Lookup
<1> QED
  BY <1>1 DEF Stored, RowOf

-----------------------------------------------------------------------------
(* Types. *)

SendRecord == [pc: {"idle", "resolve", "encrypt", "save", "archive", "done"},
               sealed: BOOLEAN, key: Key \cup {NoKey}]

Types ==
  /\ contacts \in Seq(Row) /\ Apart(contacts)
  /\ send \in [Send -> SendRecord]
  /\ envelopes \in Seq(Envelope)
  /\ handling \subseteq [env: Envelope, pc: {"decrypt", "profile"}]
  /\ reader \in {"reading", "create", "profile", "launch", "dead"}
  /\ theirs \in [key: Key, session: BOOLEAN]
  /\ written \in 0..MaxEnvelopes
  /\ reader \in {"create", "profile", "launch"} => envelopes # << >>

LEMMA TypesInit == Init => Types
<1> SUFFICES ASSUME Init PROVE Types
  OBVIOUS
<1>1. contacts \in Seq(Row) /\ Apart(contacts) /\ envelopes \in Seq(Envelope)
  BY DEF Init, Apart
<1>2. send \in [Send -> SendRecord]
  BY DEF Init, SendRecord
<1>3. theirs \in [key: Key, session: BOOLEAN] /\ written \in 0..MaxEnvelopes
  BY ConstantsAssumption DEF Init, Key
<1> QED
  BY <1>1, <1>2, <1>3 DEF Init, Types

\* A send goes on.
LEMMA Progresses ==
  ASSUME Types, NEW s \in Send, NEW pc \in {"resolve", "encrypt", "save", "archive", "done"},
         Progress(s, pc)
  PROVE  /\ send' \in [Send -> SendRecord] /\ send'[s].pc = pc
         /\ \A x \in Send : x # s => send'[x] = send[x]
<1> DEFINE r == [send[s] EXCEPT !.pc = pc]
<1>1. send \in [Send -> SendRecord] /\ send[s] \in SendRecord
  BY DEF Types
<1>2. r \in SendRecord /\ r.pc = pc
  BY <1>1 DEF SendRecord
<1>3. send' = [send EXCEPT ![s] = r]
  BY DEF Progress
<1> HIDE DEF r
<1> QED
  BY <1>1, <1>2, <1>3

\* What the contact's device is given of an envelope.
LEMMA Enqueues ==
  ASSUME Types, NEW type \in {"receipt", "bundle", "message"}, NEW b \in BOOLEAN, Enqueue(type, b)
  PROVE  /\ envelopes' \in Seq(Envelope) /\ written' \in 0..MaxEnvelopes
         /\ envelopes' # << >>
         /\ Len(envelopes') = Len(envelopes) + 1
         /\ \A i \in DOMAIN envelopes : envelopes'[i] = envelopes[i]
         /\ envelopes'[Len(envelopes')].type = type
<1> DEFINE e == [n |-> written', type |-> type, key |-> theirs.key, profileKey |-> b]
<1>1. written' \in 1..MaxEnvelopes /\ theirs.key \in Key
  BY ConstantsAssumption DEF Types, Enqueue
<1>2. e \in Envelope /\ e.type = type
  BY <1>1 DEF Envelope
<1>3. envelopes' = Append(envelopes, e)
  BY DEF Enqueue
<1> HIDE DEF e
<1>4. written' \in 0..MaxEnvelopes
  BY <1>1, ConstantsAssumption
<1>5. envelopes \in Seq(Envelope)
  BY DEF Types
<1>6. /\ envelopes' \in Seq(Envelope) /\ Len(envelopes') = Len(envelopes) + 1
      /\ \A i \in DOMAIN envelopes : envelopes'[i] = envelopes[i]
      /\ envelopes'[Len(envelopes) + 1] = e
  BY <1>2, <1>3, <1>5
<1>7. envelopes' # << >>
  BY <1>5, <1>6
<1> QED
  BY <1>2, <1>4, <1>6, <1>7

\* A row with the identity of a key that was saved, and a session.
LEMMA Saved ==
  ASSUME NEW row \in Row, NEW key \in Key \cup {NoKey}, NEW n \in Key \cup {NoKey}
  PROVE  /\ SaveIdentity(row, key) \in Row /\ SaveIdentity(row, key).ids = row.ids
         /\ SaveIdentity(row, key).identity = key /\ SaveIdentity(row, key).session = row.session
         /\ [SaveIdentity(row, key) EXCEPT !.session = n] \in Row
         /\ [SaveIdentity(row, key) EXCEPT !.session = n].ids = row.ids
         /\ [SaveIdentity(row, key) EXCEPT !.session = n].identity = key
         /\ [SaveIdentity(row, key) EXCEPT !.session = n].session = n
<1>1. row.identity \in Key \cup {NoKey} /\ (row.identity \in {NoKey, key}) \in BOOLEAN
  BY DEF Row
<1> DEFINE b == row.identity \in {NoKey, key}
<1>2. SaveIdentity(row, key) = [row EXCEPT !.identity = key, !.trusted = b]
  BY DEF SaveIdentity
<1> HIDE DEF b
<1>3. b \in BOOLEAN
  BY DEF b
<1> QED
  BY <1>2, <1>3 DEF Row

LEMMA Written ==
  ASSUME NEW row \in Row, NEW n \in Key \cup {NoKey}
  PROVE  /\ [row EXCEPT !.session = n] \in Row /\ [row EXCEPT !.session = n].ids = row.ids
         /\ [row EXCEPT !.session = n].session = n
         /\ [row EXCEPT !.profileKey = TRUE] \in Row
         /\ [row EXCEPT !.profileKey = TRUE].ids = row.ids
         /\ [row EXCEPT !.profileKey = TRUE].session = row.session
         /\ [row EXCEPT !.profileKey = TRUE].identity = row.identity
BY DEF Row

-----------------------------------------------------------------------------
(* Sessions. *)

Archiving == \E s \in Send : send[s].pc = "archive"

RowOK(r, archiving) == r.session \in {NoKey, r.identity} \/ ("phone" \in r.ids /\ archiving)

SessionsInv == \A i \in DOMAIN contacts : RowOK(contacts[i], Archiving)

LEMMA FoundOK ==
  ASSUME Types, SessionsInv, NEW id \in Identifier
  PROVE  /\ RowOf(contacts, id) \in Row /\ RowOK(RowOf(contacts, id), Archiving)
         /\ id \in RowOf(contacts, id).ids
<1>1. /\ RowOf(contacts, id) \in Row /\ id \in RowOf(contacts, id).ids
      /\ RowsWith(contacts, id) = {} => RowOf(contacts, id) = NewRow({id})
  BY Lookup DEF Types
<1>2. RowsWith(contacts, id) # {} => \E i \in DOMAIN contacts : RowOf(contacts, id) = contacts[i]
  BY <1>1, Writing DEF Types
<1>3. NewRow({id}).session = NoKey
  BY DEF NewRow
<1> QED
  BY <1>1, <1>2, <1>3 DEF SessionsInv, RowOK

\* A row is written, and no other depends on a send that archives.
LEMMA StoredOK ==
  ASSUME Types, SessionsInv, NEW id \in Identifier, NEW row \in Row,
         row.ids = RowOf(contacts, id).ids, contacts' = Stored(contacts, id, row), RowOK(row, Archiving'),
         Archiving => Archiving' \/ id = "phone"
  PROVE  contacts' \in Seq(Row) /\ Apart(contacts)' /\ SessionsInv'
<1>1. contacts' \in Seq(Row) /\ Apart(contacts') /\ Changed(contacts', contacts, id, row)
  BY Writing DEF Types
<1>2. Apart(contacts)'
  BY <1>1 DEF Apart
<1>3. ASSUME NEW i \in DOMAIN contacts' PROVE RowOK(contacts'[i], Archiving')
  BY <1>1 DEF SessionsInv, RowOK, Changed
<1> QED
  BY <1>1, <1>2, <1>3 DEF SessionsInv

SendOnly == UNCHANGED <<envelopes, reader, handling, theirs, written>>

LEMMA SendParts ==
  ASSUME Types, SendOnly, send' \in [Send -> SendRecord],
         contacts' \in Seq(Row), Apart(contacts)'
  PROVE  Types'
BY DEF Types, SendOnly

LEMMA SendsKeep ==
  ASSUME Types, SessionsInv, NEW s \in Send,
         \/ Request(s) \/ GetUnidentifiedAccess(s)
         \/ SaveFailedIdentity(s) \/ ArchiveAllSessions(s)
  PROVE  Types' /\ SessionsInv'
<1>1. SendOnly
  BY DEF SendOnly, Request, GetUnidentifiedAccess, SaveFailedIdentity, ArchiveAllSessions
<1>2. /\ RowOf(contacts, "phone") \in Row /\ RowOK(RowOf(contacts, "phone"), Archiving)
      /\ "phone" \in RowOf(contacts, "phone").ids /\ "phone" \in Identifier
  BY FoundOK DEF Identifier
<1> DEFINE row == RowOf(contacts, "phone")
           Kept == /\ send' \in [Send -> SendRecord]
                   /\ contacts' \in Seq(Row) /\ Apart(contacts)' /\ SessionsInv'
<1>3. CASE Request(s)
  <2>1. /\ send' \in [Send -> SendRecord] /\ send'[s].pc = "resolve"
        /\ \A x \in Send : x # s => send'[x] = send[x]
    BY <1>3, Progresses DEF Request
  <2>2. Archiving => Archiving'
    BY <1>3, <2>1 DEF Archiving, Request
  <2>3. UNCHANGED contacts
    BY <1>3 DEF Request
  <2>4. SessionsInv' /\ Apart(contacts)'
    BY <2>2, <2>3 DEF Types, SessionsInv, RowOK, Apart
  <2> QED
    BY <1>1, <2>1, <2>3, <2>4 DEF Types, SendOnly
<1>4. CASE GetUnidentifiedAccess(s)
  <2> DEFINE pc == IF ~row.profileKey /\ BlockUnsealed THEN "done" ELSE "encrypt"
  <2>1. /\ contacts' = Resolved(contacts, "phone") /\ send[s].pc = "resolve"
        /\ send' = [send EXCEPT ![s].sealed = row.profileKey, ![s].pc = pc]
    BY <1>4 DEF GetUnidentifiedAccess
  <2>2. row.profileKey \in BOOLEAN
    BY <1>2 DEF Row
  <2>3. pc \in {"done", "encrypt"}
    OBVIOUS
  <2> HIDE DEF pc, row
  <2>4. send' \in [Send -> SendRecord]
    BY <2>1, <2>2, <2>3 DEF Types, SendRecord
  <2>5. \A x \in Send : x # s => send'[x] = send[x]
    BY <2>1 DEF Types
  <2>6. Archiving => Archiving'
    BY <2>1, <2>5 DEF Archiving
  <2>7. contacts' = Stored(contacts, "phone", row)
    BY <2>1, <1>2, Unwritten DEF Types, row
  <2>8. RowOK(row, Archiving')
    BY <1>2, <2>6 DEF RowOK, row
  <2>9. row \in Row
    BY <1>2 DEF row
  <2>10. contacts' \in Seq(Row) /\ Apart(contacts)' /\ SessionsInv'
    BY <1>2, <2>6, <2>7, <2>8, <2>9, StoredOK DEF row
  <2> QED
    BY <1>1, <2>4, <2>10, SendParts
<1>5. CASE SaveFailedIdentity(s)
  <2> DEFINE pc == IF row.identity = NoKey THEN "done" ELSE "archive"
             new == SaveIdentity(row, send[s].key)
  <2>1. /\ contacts' = Stored(contacts, "phone", new) /\ send[s].pc = "save"
        /\ Progress(s, pc)
    BY <1>5 DEF SaveFailedIdentity
  <2>2. /\ pc \in {"done", "archive"} /\ (pc = "archive" <=> row.identity # NoKey)
        /\ send[s].key \in Key \cup {NoKey}
    BY DEF Types, SendRecord
  <2> HIDE DEF pc
  <2>3. /\ send' \in [Send -> SendRecord] /\ send'[s].pc = pc
        /\ \A x \in Send : x # s => send'[x] = send[x]
    BY <2>1, <2>2, Progresses
  <2>4. Archiving => Archiving'
    BY <2>1, <2>3 DEF Archiving
  <2>5. row.identity # NoKey => Archiving'
    BY <2>2, <2>3 DEF Archiving
  <2>6. /\ new \in Row /\ new.ids = row.ids /\ new.session = row.session
    BY <1>2, <2>2, Saved
  <2>7. RowOK(new, Archiving')
    <3>1. CASE row.session = NoKey
      BY <2>6, <3>1 DEF RowOK
    <3>2. CASE row.session # NoKey
      <4>1. Archiving'
        BY <1>2, <2>4, <2>5, <3>2 DEF RowOK
      <4> QED
        BY <1>2, <2>6, <4>1 DEF RowOK
    <3> QED
      BY <3>1, <3>2
  <2>8. contacts' \in Seq(Row) /\ Apart(contacts)' /\ SessionsInv'
    <3> HIDE DEF new
    <3> QED
      BY <1>2, <2>1, <2>4, <2>6, <2>7, StoredOK
  <2> QED
    BY <1>1, <2>3, <2>8, SendParts
<1>6. CASE ArchiveAllSessions(s)
  <2> DEFINE new == [row EXCEPT !.session = NoKey]
  <2>1. contacts' = Stored(contacts, "phone", new) /\ Progress(s, "done")
    BY <1>6 DEF ArchiveAllSessions
  <2>2. send' \in [Send -> SendRecord]
    BY <2>1, Progresses
  <2>3. new \in Row /\ new.ids = row.ids /\ new.session = NoKey
    BY <1>2, Written
  <2>4. RowOK(new, Archiving')
    BY <2>3 DEF RowOK
  <2>5. contacts' \in Seq(Row) /\ Apart(contacts)' /\ SessionsInv'
    <3> HIDE DEF new
    <3> QED
      BY <1>2, <2>1, <2>3, <2>4, StoredOK
  <2> QED
    BY <1>1, <2>2, <2>5, SendParts
<1> QED
  BY <1>3, <1>4, <1>5, <1>6

\* libsignal delivers a message, or saves nothing.
LEMMA DeliveryKeeps ==
  ASSUME Types, SessionsInv, NEW id \in Identifier, NEW sealed \in BOOLEAN,
         Archiving => Archiving', Deliver(id, sealed) \/ NotDelivered
  PROVE  /\ contacts' \in Seq(Row) /\ Apart(contacts)' /\ SessionsInv'
         /\ theirs' \in [key: Key, session: BOOLEAN]
         /\ envelopes' \in Seq(Envelope) /\ written' \in 0..MaxEnvelopes
         /\ envelopes # << >> => envelopes' # << >>
<1>1. CASE NotDelivered
  BY <1>1 DEF NotDelivered, Types, SessionsInv, RowOK, Apart
<1>2. CASE Deliver(id, sealed)
  <2> DEFINE row == RowOf(contacts, id)
             new == [SaveIdentity(row, theirs.key) EXCEPT !.session = theirs.key]
  <2>1. theirs.key \in Key /\ row \in Row
    BY FoundOK DEF Types
  <2>2. new \in Row /\ new.ids = row.ids /\ new.session = new.identity
    BY <2>1, Saved
  <2>3. contacts' = Stored(contacts, id, new)
    BY <1>2 DEF Deliver
  <2>4. RowOK(new, Archiving')
    BY <2>2 DEF RowOK
  <2>5. contacts' \in Seq(Row) /\ Apart(contacts)' /\ SessionsInv'
    <3> HIDE DEF new
    <3> QED
      BY <2>2, <2>3, <2>4, StoredOK
  <2>6. theirs' \in [key: Key, session: BOOLEAN]
    BY <1>2 DEF Deliver, Types
  <2>7. UNCHANGED <<envelopes, written>> \/ Enqueue("receipt", FALSE)
    BY <1>2 DEF Deliver
  <2>8. /\ envelopes' \in Seq(Envelope) /\ written' \in 0..MaxEnvelopes
        /\ envelopes # << >> => envelopes' # << >>
    <3>1. CASE UNCHANGED <<envelopes, written>>
      BY <3>1 DEF Types
    <3>2. CASE Enqueue("receipt", FALSE)
      BY <3>2, Enqueues
    <3> QED
      BY <2>7, <3>1, <3>2
  <2> QED
    BY <2>5, <2>6, <2>8
<1> QED
  BY <1>1, <1>2

LEMMA SendMessageKeeps ==
  ASSUME Types, SessionsInv, NEW s \in Send, SendMessage(s)
  PROVE  Types' /\ SessionsInv'
<1>1. /\ Deliver("phone", send[s].sealed) \/ NotDelivered
      /\ UNCHANGED <<reader, handling>>
      /\ send[s].pc = "encrypt" /\ send[s].sealed \in BOOLEAN /\ "phone" \in Identifier
  BY DEF SendMessage, Types, SendRecord, Identifier
<1>2. /\ send' \in [Send -> SendRecord]
      /\ \A x \in Send : x # s => send'[x] = send[x]
  <2>1. CASE Progress(s, "done")
    BY <2>1, Progresses
  <2>2. CASE send' = [send EXCEPT ![s].pc = "save", ![s].key = theirs.key]
    <3>1. theirs.key \in Key \cup {NoKey} /\ send \in [Send -> SendRecord]
      BY DEF Types
    <3> PICK k \in Key \cup {NoKey} : k = theirs.key
      BY <3>1
    <3> DEFINE f == [send EXCEPT ![s].pc = "save"]
    <3>2. f \in [Send -> SendRecord] /\ \A x \in Send : x # s => f[x] = send[x]
      BY <3>1 DEF SendRecord
    <3>3. send' = [f EXCEPT ![s].key = k]
      BY <2>2
    <3> HIDE DEF f
    <3> QED
      BY <3>2, <3>3 DEF SendRecord
  <2> QED
    BY <2>1, <2>2 DEF SendMessage
<1>3. Archiving => Archiving'
  BY <1>1, <1>2 DEF Archiving
<1>4. /\ contacts' \in Seq(Row) /\ Apart(contacts)' /\ SessionsInv'
      /\ theirs' \in [key: Key, session: BOOLEAN]
      /\ envelopes' \in Seq(Envelope) /\ written' \in 0..MaxEnvelopes
      /\ envelopes # << >> => envelopes' # << >>
  BY <1>1, <1>3, DeliveryKeeps
<1> QED
  BY <1>1, <1>2, <1>4 DEF Types

\* The row that a receipt completes is the only one.
LEMMA ReceiptKeeps ==
  ASSUME Types, SessionsInv, ReadReceipt
  PROVE  Types' /\ SessionsInv'
<1> DEFINE byPhone == RowsWith(contacts, "phone")
           byUuid == RowsWith(contacts, "uuid")
           c == CHOOSE i \in byPhone \cup byUuid : TRUE
<1>1. /\ UNCHANGED <<send, handling, theirs, written>> /\ reader = "reading"
      /\ envelopes # << >> /\ envelopes' = Tail(envelopes)
      /\ \/ reader' = "dead" /\ UNCHANGED contacts
         \/ /\ byPhone \cup byUuid # {}
            /\ byPhone = {} \/ byUuid = {} \/ byPhone = byUuid
            /\ contacts' = [contacts EXCEPT ![c].ids = Identifier] /\ UNCHANGED reader
  BY DEF ReadReceipt
<1>2. envelopes' \in Seq(Envelope)
  BY <1>1 DEF Types
<1>3. Archiving' = Archiving
  BY <1>1 DEF Archiving
<1>4. CASE reader' = "dead" /\ UNCHANGED contacts
  BY <1>1, <1>2, <1>3, <1>4 DEF Types, SessionsInv, RowOK, Apart
<1>5. CASE /\ byPhone \cup byUuid # {}
           /\ byPhone = {} \/ byUuid = {} \/ byPhone = byUuid
           /\ contacts' = [contacts EXCEPT ![c].ids = Identifier] /\ UNCHANGED reader
  <2>1. \A i, j \in byPhone : i = j
    BY DEF Types, Apart, RowsWith
  <2>2. \A i, j \in byUuid : i = j
    BY DEF Types, Apart, RowsWith
  <2>3. c \in byPhone \cup byUuid
    BY <1>5
  <2>4. \A i \in byPhone \cup byUuid : i = c
    <3> HIDE DEF byPhone, byUuid, c
    <3> QED
      BY <1>5, <2>1, <2>2, <2>3
  <2>5. c \in DOMAIN contacts /\ \A i \in DOMAIN contacts : i # c => contacts[i].ids \cap Identifier = {}
    BY <2>3, <2>4 DEF RowsWith, Identifier
  <2> HIDE DEF byPhone, byUuid, c
  <2>6. contacts[c] \in Row /\ contacts \in Seq(Row)
    BY <2>5 DEF Types
  <2> DEFINE new == [contacts[c] EXCEPT !.ids = Identifier]
  <2>7. /\ new \in Row /\ new.ids = Identifier /\ new.session = contacts[c].session
        /\ new.identity = contacts[c].identity
    <3>1. Identifier \in (SUBSET Identifier) \ {{}}
      BY DEF Identifier
    <3> QED
      BY <2>6, <3>1 DEF Row
  <2>8. contacts' = [contacts EXCEPT ![c] = new]
    BY <1>5
  <2> HIDE DEF new
  <2>9. /\ contacts' \in Seq(Row) /\ DOMAIN contacts' = DOMAIN contacts /\ contacts'[c] = new
        /\ \A i \in DOMAIN contacts : i # c => contacts'[i] = contacts[i]
    BY <2>5, <2>6, <2>7, <2>8
  <2>10. Apart(contacts)'
    BY <2>5, <2>7, <2>9 DEF Apart, Types
  <2>11. ASSUME NEW i \in DOMAIN contacts' PROVE RowOK(contacts'[i], Archiving')
    BY <1>3, <2>5, <2>7, <2>9 DEF SessionsInv, RowOK, Identifier
  <2> QED
    BY <1>1, <1>2, <1>5, <2>9, <2>10, <2>11 DEF Types, SessionsInv
<1> QED
  BY <1>1, <1>4, <1>5

LEMMA CreateKeeps ==
  ASSUME Types, SessionsInv, CreateContact
  PROVE  Types' /\ SessionsInv'
<1>1. UNCHANGED <<send, envelopes, handling, theirs, written>> /\ reader = "create"
  BY DEF CreateContact
<1>2. Archiving' = Archiving
  BY <1>1 DEF Archiving
<1>3. CASE reader' = "dead" /\ UNCHANGED contacts
  BY <1>1, <1>2, <1>3 DEF Types, SessionsInv, RowOK, Apart
<1>4. CASE /\ \A id \in Identifier : RowsWith(contacts, id) = {}
           /\ reader' = "profile" /\ contacts' = Append(contacts, NewRow(Identifier))
  <2>1. /\ NewRow(Identifier) \in Row /\ NewRow(Identifier).session = NoKey
    <3>1. Identifier \in (SUBSET Identifier) \ {{}}
      BY DEF Identifier
    <3> QED
      BY <3>1 DEF Row, NewRow
  <2>2. /\ contacts' \in Seq(Row) /\ Len(contacts) \in Nat
        /\ DOMAIN contacts' = 1..(Len(contacts) + 1) /\ DOMAIN contacts = 1..Len(contacts)
        /\ contacts'[Len(contacts) + 1] = NewRow(Identifier)
        /\ \A i \in DOMAIN contacts : contacts'[i] = contacts[i]
    BY <1>4, <2>1 DEF Types
  <2>3. \A i \in DOMAIN contacts' : i \in DOMAIN contacts \/ i = Len(contacts) + 1
    BY <2>2
  <2>4. \A i \in DOMAIN contacts : contacts[i] \in Row
    BY DEF Types
  <2>5. \A i \in DOMAIN contacts : contacts[i].ids = {}
    BY <1>4, <2>4 DEF RowsWith, Row
  <2>6. Apart(contacts)'
    BY <2>2, <2>3, <2>5 DEF Apart
  <2>7. ASSUME NEW i \in DOMAIN contacts' PROVE RowOK(contacts'[i], Archiving')
    BY <1>2, <2>1, <2>2, <2>3 DEF SessionsInv, RowOK
  <2> QED
    BY <1>1, <1>4, <2>2, <2>6, <2>7 DEF Types, SessionsInv
<1> QED
  BY <1>3, <1>4 DEF CreateContact

LEMMA ProfileKeyKeeps ==
  ASSUME Types, SessionsInv, SendProfileKey
  PROVE  Types' /\ SessionsInv'
<1> DEFINE sealed == RowOf(contacts, "uuid").profileKey
<1>1. /\ UNCHANGED <<send, handling>> /\ reader = "profile" /\ reader' = "launch"
      /\ Deliver("uuid", sealed) \/ NotDelivered
  BY DEF SendProfileKey
<1>2. "uuid" \in Identifier /\ RowOf(contacts, "uuid") \in Row
  BY FoundOK DEF Identifier
<1>3. sealed \in BOOLEAN
  BY <1>2 DEF Row
<1>4. Archiving' = Archiving
  BY <1>1 DEF Archiving
<1> HIDE DEF sealed
<1>5. /\ contacts' \in Seq(Row) /\ Apart(contacts)' /\ SessionsInv'
      /\ theirs' \in [key: Key, session: BOOLEAN]
      /\ envelopes' \in Seq(Envelope) /\ written' \in 0..MaxEnvelopes
      /\ envelopes # << >> => envelopes' # << >>
  BY <1>1, <1>2, <1>3, <1>4, DeliveryKeeps
<1> QED
  BY <1>1, <1>5 DEF Types

LEMMA HandlingKeeps ==
  ASSUME Types, SessionsInv, NEW h \in handling, Decrypt(h) \/ StoreProfileKey(h)
  PROVE  Types' /\ SessionsInv'
<1> DEFINE row == RowOf(contacts, "uuid")
<1>1. /\ row \in Row /\ RowOK(row, Archiving) /\ "uuid" \in Identifier
  BY FoundOK DEF Identifier
<1>2. UNCHANGED <<send, envelopes, reader, theirs, written>>
  BY DEF Decrypt, StoreProfileKey
<1>3. Archiving' = Archiving
  BY <1>2 DEF Archiving
<1>4. h \in [env: Envelope, pc: {"decrypt", "profile"}] /\ h.env.key \in Key
  BY DEF Types, Envelope
<1>5. handling' \subseteq [env: Envelope, pc: {"decrypt", "profile"}]
  <2>1. [h EXCEPT !.pc = "profile"] \in [env: Envelope, pc: {"decrypt", "profile"}]
    BY <1>4
  <2> QED
    BY <2>1 DEF Types, Decrypt, StoreProfileKey
<1>6. PICK new \in Row : /\ new.ids = row.ids /\ RowOK(new, Archiving)
                         /\ contacts' = Stored(contacts, "uuid", new)
  <2>1. CASE contacts' = Stored(contacts, "uuid", row)
    BY <1>1, <2>1
  <2>2. CASE contacts' = Stored(contacts, "uuid",
               [SaveIdentity(row, h.env.key) EXCEPT !.session = h.env.key])
    <3> DEFINE new == [SaveIdentity(row, h.env.key) EXCEPT !.session = h.env.key]
    <3>1. new \in Row /\ new.ids = row.ids /\ new.session = new.identity
      BY <1>1, <1>4, Saved
    <3>2. contacts' = Stored(contacts, "uuid", new)
      BY <2>2
    <3> HIDE DEF new
    <3> QED
      BY <3>1, <3>2 DEF RowOK
  <2>3. CASE contacts' = Stored(contacts, "uuid", [row EXCEPT !.profileKey = TRUE])
    <3> DEFINE new == [row EXCEPT !.profileKey = TRUE]
    <3>1. /\ new \in Row /\ new.ids = row.ids /\ new.session = row.session
          /\ new.identity = row.identity
      BY <1>1, Written DEF NoKey
    <3>2. contacts' = Stored(contacts, "uuid", new)
      BY <2>3
    <3> HIDE DEF new
    <3> QED
      BY <1>1, <3>1, <3>2 DEF RowOK
  <2> QED
    BY <2>1, <2>2, <2>3 DEF Decrypt, StoreProfileKey
<1> HIDE DEF row
<1>7. contacts' \in Seq(Row) /\ Apart(contacts)' /\ SessionsInv'
  BY <1>1, <1>3, <1>6, StoredOK DEF row
<1> QED
  BY <1>2, <1>5, <1>7 DEF Types

LEMMA OthersKeep ==
  ASSUME Types, SessionsInv, ReadMessage \/ Launch \/ Write \/ Reinstall \/ UNCHANGED vars
  PROVE  Types' /\ SessionsInv'
<1>1. UNCHANGED <<contacts, send>>
  BY DEF ReadMessage, Launch, Write, Reinstall, vars
<1>2. contacts' \in Seq(Row) /\ Apart(contacts)' /\ SessionsInv'
  BY <1>1 DEF Types, SessionsInv, RowOK, Archiving, Apart
<1>3. CASE ReadMessage
  BY <1>1, <1>2, <1>3 DEF Types, ReadMessage
<1>4. CASE Launch
  <2>1. /\ envelopes # << >> /\ envelopes \in Seq(Envelope)
        /\ UNCHANGED <<theirs, written>> /\ reader' = "reading"
        /\ envelopes' = Tail(envelopes)
        /\ handling' = handling \cup {[env |-> Head(envelopes), pc |-> "decrypt"]}
    BY <1>4 DEF Launch, Types
  <2>2. Head(envelopes) \in Envelope /\ envelopes' \in Seq(Envelope)
    BY <2>1
  <2> QED
    BY <1>1, <1>2, <2>1, <2>2 DEF Types
<1>5. CASE Write
  <2>1. PICK b \in BOOLEAN : Enqueue(IF theirs.session THEN "message" ELSE "bundle", b)
    BY <1>5 DEF Write
  <2>2. (IF theirs.session THEN "message" ELSE "bundle") \in {"receipt", "bundle", "message"}
    OBVIOUS
  <2>3. /\ envelopes' \in Seq(Envelope) /\ written' \in 0..MaxEnvelopes /\ envelopes' # << >>
    BY <2>1, <2>2, Enqueues
  <2> QED
    BY <1>1, <1>2, <1>5, <2>3 DEF Types, Write
<1>6. CASE Reinstall
  <2>1. theirs' \in [key: Key, session: BOOLEAN]
    BY <1>6, ConstantsAssumption DEF Types, Reinstall, Key
  <2> QED
    BY <1>1, <1>2, <1>6, <2>1 DEF Types, Reinstall
<1>7. CASE UNCHANGED vars
  BY <1>2, <1>7 DEF Types, vars
<1> QED
  BY <1>3, <1>4, <1>5, <1>6, <1>7

LEMMA RowsNext == Types /\ SessionsInv /\ [Next]_vars => Types' /\ SessionsInv'
<1> SUFFICES ASSUME Types, SessionsInv, [Next]_vars PROVE Types' /\ SessionsInv'
  OBVIOUS
<1> QED
  BY SendsKeep, SendMessageKeeps, ReceiptKeeps, CreateKeeps, ProfileKeyKeeps, HandlingKeeps,
     OthersKeep DEF Next

\* A session is with the device whose key is on record, for any number of
\* sends, keys and envelopes and whether or not messages cross: it differs from it
\* only while a send is about to archive it.
THEOREM SessionsAreCurrent == Spec => []SessionsCurrent
<1>1. Init => Types /\ SessionsInv
  BY TypesInit DEF Init, SessionsInv
<1>2. Types /\ SessionsInv => SessionsCurrent
  BY DEF SessionsInv, SessionsCurrent, RowOK, Archiving
<1> QED
  BY <1>1, <1>2, RowsNext, PTL DEF Spec

\* A contact has at most two rows, no two of which share an identifier, and all
\* that is under way about it has its types.
THEOREM TypeCorrect == Spec => []TypeOK
<1>1. Init => Types /\ SessionsInv
  BY TypesInit DEF Init, SessionsInv
<1>2. Types => TypeOK
  <2> SUFFICES ASSUME Types PROVE TypeOK
    OBVIOUS
  <2>1. contacts \in Seq(Row) /\ Apart(contacts) /\ Len(contacts) \in Nat
        /\ DOMAIN contacts = 1..Len(contacts)
    BY DEF Types
  <2>2. Len(contacts) <= 2
    <3>1. SUFFICES ASSUME Len(contacts) > 2 PROVE FALSE
      BY <2>1
    <3>2. 1 \in DOMAIN contacts /\ 2 \in DOMAIN contacts /\ 3 \in DOMAIN contacts
      BY <2>1, <3>1
    <3>3. \A i \in DOMAIN contacts : \/ "phone" \in contacts[i].ids
                                    \/ "uuid" \in contacts[i].ids
      <4> SUFFICES ASSUME NEW i \in DOMAIN contacts
                   PROVE  "phone" \in contacts[i].ids \/ "uuid" \in contacts[i].ids
        OBVIOUS
      <4>1. contacts[i] \in Row
        BY <2>1
      <4>2. contacts[i].ids \subseteq Identifier /\ contacts[i].ids # {}
        BY <4>1 DEF Row
      <4> QED
        BY <4>2 DEF Identifier
    <3>4. /\ contacts[1].ids \cap contacts[2].ids = {}
          /\ contacts[1].ids \cap contacts[3].ids = {}
          /\ contacts[2].ids \cap contacts[3].ids = {}
      BY <2>1, <3>2 DEF Apart
    <3> QED
      BY <3>2, <3>3, <3>4
  <2> QED
    BY <2>1, <2>2 DEF Types, TypeOK, Apart, SendRecord
<1> QED
  BY <1>1, <1>2, RowsNext, PTL DEF Spec

-----------------------------------------------------------------------------
(* One contact, as long as messages do not cross. *)

Known == contacts # << >>

\* At most one row, which has the phone number.
OneRow == Known => Len(contacts) = 1 /\ contacts[1].ids \in {{"phone"}, Identifier}

\* What comes from the contact once it has a session.
Answers == \E i \in DOMAIN envelopes : envelopes[i].type \in {"receipt", "message"}

OneInv ==
  /\ OneRow
  /\ reader # "dead"
  /\ reader = "create" /\ Known => contacts[1].ids = {"phone"}
  /\ reader = "profile" => Known /\ contacts[1].ids = Identifier
  /\ reader = "launch" \/ handling # {} \/ theirs.session \/ Answers => Known

\* The row stays, or a first one is created.
RowStays == Known' /\ OneRow' /\ (Known => contacts'[1].ids = contacts[1].ids)
                   /\ (~Known => contacts'[1].ids = {"phone"})

LEMMA EmptyLen == Len(<< >>) = 0
OBVIOUS

LEMMA StoredOne ==
  ASSUME Types, OneRow, NEW id \in Identifier, NEW row \in Row,
         row.ids = RowOf(contacts, id).ids, contacts' = Stored(contacts, id, row),
         id = "phone" \/ (Known /\ contacts[1].ids = Identifier)
  PROVE  RowStays
<1>1. /\ contacts' \in Seq(Row) /\ contacts \in Seq(Row) /\ Changed(contacts', contacts, id, row)
      /\ Len(contacts') = IF RowsWith(contacts, id) = {} THEN Len(contacts) + 1
                          ELSE Len(contacts)
      /\ RowsWith(contacts, id) = {} => RowOf(contacts, id) = NewRow({id})
      /\ RowsWith(contacts, id) # {} => \E i \in DOMAIN contacts : RowOf(contacts, id) = contacts[i]
  BY Writing DEF Types
<1>2. CASE Known
  <2>1. Len(contacts) = 1 /\ DOMAIN contacts = {1} /\ id \in contacts[1].ids
    BY <1>1, <1>2 DEF OneRow
  <2>2. RowsWith(contacts, id) # {}
    BY <2>1 DEF RowsWith
  <2>3. Len(contacts') = 1 /\ DOMAIN contacts' = {1} /\ RowOf(contacts, id) = contacts[1]
    BY <1>1, <2>1, <2>2
  <2>4. contacts'[1] = row
    BY <1>1, <2>3 DEF Changed
  <2>5. contacts' # << >>
    <3>1. CASE contacts' = << >>
      <4>1. Len(contacts') = Len(<< >>)
        BY <3>1
      <4> QED
        BY ONLY <4>1, <2>3, EmptyLen
    <3> QED
      BY <3>1
  <2>6. contacts'[1].ids = contacts[1].ids
    BY <2>3, <2>4
  <2>7. contacts[1].ids \in {{"phone"}, Identifier}
    BY <1>2 DEF OneRow
  <2>8. Known' /\ OneRow'
    BY <2>3, <2>5, <2>6, <2>7 DEF OneRow, Known
  <2> QED
    BY <1>2, <2>6, <2>8 DEF RowStays
<1>3. CASE ~Known
  <2>1. contacts = << >> /\ id = "phone"
    BY <1>3 DEF Known
  <2>2. RowsWith(contacts, id) = {}
    BY <2>1 DEF RowsWith
  <2>3. Len(contacts') = 1 /\ DOMAIN contacts' = {1} /\ RowOf(contacts, id) = NewRow({"phone"})
    BY <1>1, <2>1, <2>2
  <2>4. contacts'[1] = row /\ row.ids = {"phone"}
    BY <1>1, <2>3 DEF Changed, NewRow
  <2>5. contacts' # << >>
    BY <2>3, EmptyLen
  <2> QED
    BY <1>3, <2>3, <2>4, <2>5 DEF RowStays, OneRow, Known
<1> QED
  BY <1>2, <1>3

\* What a step needs that changes nothing else but the sends.
LEMMA RowStaysOne ==
  ASSUME OneInv, RowStays, UNCHANGED reader
  PROVE  OneInv'
BY DEF OneInv, RowStays

LEMMA DeliveryOne ==
  ASSUME Types, OneInv, NEW id \in Identifier, NEW sealed, Deliver(id, sealed) \/ NotDelivered,
         id = "phone" \/ (Known /\ contacts[1].ids = Identifier)
  PROVE  RowStays \/ (UNCHANGED <<contacts, theirs, envelopes>>)
<1>1. CASE NotDelivered
  BY <1>1 DEF NotDelivered
<1>2. CASE Deliver(id, sealed)
  <2> DEFINE row == RowOf(contacts, id)
             new == [SaveIdentity(row, theirs.key) EXCEPT !.session = theirs.key]
  <2>1. theirs.key \in Key /\ row \in Row
    BY Lookup DEF Types
  <2>2. new \in Row /\ new.ids = row.ids
    BY <2>1, Saved
  <2>3. contacts' = Stored(contacts, id, new)
    BY <1>2 DEF Deliver
  <2> HIDE DEF new
  <2> QED
    BY <2>2, <2>3, StoredOne DEF OneInv
<1> QED
  BY <1>1, <1>2

LEMMA SendsOne ==
  ASSUME Types, OneInv, NEW s \in Send,
         \/ Request(s) \/ GetUnidentifiedAccess(s) \/ SendMessage(s)
         \/ SaveFailedIdentity(s) \/ ArchiveAllSessions(s)
  PROVE  OneInv'
<1> DEFINE row == RowOf(contacts, "phone")
<1>1. row \in Row /\ "phone" \in Identifier /\ send[s].key \in Key \cup {NoKey}
  BY Lookup DEF Types, Identifier, SendRecord
<1>2. UNCHANGED <<reader, handling>>
  BY DEF Request, GetUnidentifiedAccess, SendMessage, SaveFailedIdentity, ArchiveAllSessions
<1>3. RowStays \/ UNCHANGED <<contacts, theirs, envelopes>>
  <2>1. CASE Request(s)
    BY <2>1 DEF Request
  <2>2. CASE GetUnidentifiedAccess(s)
    <3>1. contacts' = Stored(contacts, "phone", row)
      BY <2>2, <1>1, Unwritten DEF GetUnidentifiedAccess, Types
    <3> QED
      BY <1>1, <3>1, StoredOne DEF OneInv
  <2>3. CASE SendMessage(s)
    <3>1. Deliver("phone", send[s].sealed) \/ NotDelivered
      BY <2>3 DEF SendMessage
    <3> QED
      BY <1>1, <3>1, DeliveryOne
  <2>4. CASE SaveFailedIdentity(s)
    <3> DEFINE new == SaveIdentity(row, send[s].key)
    <3>1. new \in Row /\ new.ids = row.ids
      BY <1>1, Saved
    <3>2. contacts' = Stored(contacts, "phone", new)
      BY <2>4 DEF SaveFailedIdentity
    <3> HIDE DEF new
    <3> QED
      BY <1>1, <3>1, <3>2, StoredOne DEF OneInv
  <2>5. CASE ArchiveAllSessions(s)
    <3> DEFINE new == [row EXCEPT !.session = NoKey]
    <3>1. new \in Row /\ new.ids = row.ids
      BY <1>1, Written
    <3>2. contacts' = Stored(contacts, "phone", new)
      BY <2>5 DEF ArchiveAllSessions
    <3> HIDE DEF new
    <3> QED
      BY <1>1, <3>1, <3>2, StoredOne DEF OneInv
  <2> QED
    BY <2>1, <2>2, <2>3, <2>4, <2>5
<1>4. CASE RowStays
  BY <1>2, <1>4, RowStaysOne
<1>5. CASE UNCHANGED <<contacts, theirs, envelopes>>
  BY <1>2, <1>5 DEF OneInv, OneRow, Known, Answers
<1> QED
  BY <1>3, <1>4, <1>5

\* Steps of the read loop and of what it launched, from a state in which no
\* messages cross.
LEMMA ReadsOne ==
  ASSUME Types, OneInv, ~Crossed,
         \/ ReadReceipt \/ ReadMessage \/ CreateContact \/ SendProfileKey \/ Launch
  PROVE  OneInv'
<1>1. /\ contacts \in Seq(Row) /\ envelopes \in Seq(Envelope)
      /\ Known => Len(contacts) = 1 /\ DOMAIN contacts = {1}
      /\ Known => contacts[1].ids \in {{"phone"}, Identifier}
  BY DEF Types, OneInv, OneRow
<1>2. Known /\ contacts[1].ids = {"phone"} =>
        /\ reader \notin {"create", "launch"} /\ handling = {}
        /\ envelopes # << >> => Head(envelopes).type = "receipt"
  BY <1>1 DEF Crossed
<1>3. envelopes # << >> => /\ Head(envelopes).type \in {"receipt", "message"} => Answers
                           /\ envelopes' = Tail(envelopes) => (Answers' => Answers)
  <2>1. SUFFICES ASSUME envelopes # << >>
                 PROVE  /\ Head(envelopes).type \in {"receipt", "message"} => Answers
                        /\ envelopes' = Tail(envelopes) => (Answers' => Answers)
    OBVIOUS
  <2>2. Head(envelopes) = envelopes[1] /\ 1 \in DOMAIN envelopes
    BY <1>1, <2>1
  <2>3. \A i \in DOMAIN Tail(envelopes) :
          i + 1 \in DOMAIN envelopes /\ Tail(envelopes)[i] = envelopes[i + 1]
    BY <1>1, <2>1
  <2> QED
    BY <2>2, <2>3 DEF Answers
<1>4. CASE ReadReceipt
  <2>1. /\ envelopes # << >> /\ Head(envelopes).type = "receipt" /\ reader = "reading"
        /\ envelopes' = Tail(envelopes) /\ UNCHANGED <<handling, theirs>>
    BY <1>4 DEF ReadReceipt
  <2>2. Known
    BY <1>3, <2>1 DEF OneInv
  <2>3. /\ RowsWith(contacts, "phone") = {1}
        /\ RowsWith(contacts, "uuid") \in {{}, {1}}
    BY <1>1, <2>2 DEF RowsWith, Identifier
  <2>4. (CHOOSE i \in RowsWith(contacts, "phone") \cup RowsWith(contacts, "uuid") : TRUE) = 1
    BY <2>3
  <2>5. contacts' = [contacts EXCEPT ![1].ids = Identifier] /\ UNCHANGED reader
    BY <1>4, <2>3, <2>4 DEF ReadReceipt
  <2>6. Len(contacts') = 1 /\ contacts'[1].ids = Identifier
    <3> DEFINE new == [contacts[1] EXCEPT !.ids = Identifier]
    <3>1. new \in Row /\ new.ids = Identifier
      <4>1. contacts[1] \in Row /\ Identifier \in (SUBSET Identifier) \ {{}}
        BY <1>1, <2>2 DEF Identifier
      <4> QED
        BY <4>1 DEF Row
    <3>2. contacts' = [contacts EXCEPT ![1] = new]
      BY <2>5
    <3> HIDE DEF new
    <3> QED
      BY <1>1, <2>2, <3>1, <3>2
  <2>7. Known' /\ OneRow'
    BY <2>6, EmptyLen DEF Known, OneRow
  <2> QED
    BY <2>1, <2>5, <2>7 DEF OneInv
<1>5. CASE ReadMessage
  <2>1. /\ envelopes # << >> /\ UNCHANGED <<contacts, envelopes, handling, theirs>>
        /\ reader = "reading"
        /\ \/ Head(envelopes).type = "message" /\ reader' = "launch"
           \/ /\ Head(envelopes).type = "bundle"
              /\ reader' = IF RowsWith(contacts, "uuid") = {} THEN "create" ELSE "launch"
    BY <1>5 DEF ReadMessage
  <2>2. UNCHANGED <<OneRow, Known, Answers>>
    BY <2>1 DEF OneRow, Known, Answers
  <2>3. CASE Head(envelopes).type = "message" /\ reader' = "launch"
    BY <1>3, <2>1, <2>2, <2>3 DEF OneInv
  <2>4. CASE RowsWith(contacts, "uuid") = {} /\ reader' = "create"
    <3>1. Known => contacts[1].ids = {"phone"}
      BY <1>1, <2>4 DEF RowsWith, Identifier
    <3> QED
      BY <2>1, <2>2, <2>4, <3>1 DEF OneInv
  <2>5. CASE RowsWith(contacts, "uuid") # {} /\ reader' = "launch"
    <3>1. Known
      BY <2>5, <1>1 DEF RowsWith, Known
    <3> QED
      BY <2>1, <2>2, <2>5, <3>1 DEF OneInv
  <2> QED
    BY <2>1, <2>3, <2>4, <2>5
<1>6. CASE CreateContact
  <2>1. reader = "create" /\ UNCHANGED <<envelopes, handling, theirs>>
    BY <1>6 DEF CreateContact
  <2>2. contacts = << >>
    BY <1>2, <2>1 DEF OneInv, Known
  <2>3. \A id \in Identifier : RowsWith(contacts, id) = {}
    BY <2>2 DEF RowsWith
  <2>4. reader' = "profile" /\ contacts' = Append(contacts, NewRow(Identifier))
    BY <1>6, <2>3 DEF CreateContact
  <2>5. contacts' = <<NewRow(Identifier)>>
    BY <2>2, <2>4
  <2>6. Known' /\ OneRow' /\ contacts'[1].ids = Identifier
    BY <2>5 DEF Known, OneRow, NewRow
  <2> QED
    BY <2>1, <2>4, <2>6 DEF OneInv
<1>7. CASE SendProfileKey
  <2>1. /\ reader = "profile" /\ reader' = "launch" /\ UNCHANGED handling
        /\ Deliver("uuid", RowOf(contacts, "uuid").profileKey) \/ NotDelivered
        /\ "uuid" \in Identifier
    BY <1>7 DEF SendProfileKey, Identifier
  <2>2. Known /\ contacts[1].ids = Identifier
    BY <2>1 DEF OneInv
  <2>3. RowStays \/ UNCHANGED <<contacts, theirs, envelopes>>
    BY <2>1, <2>2, DeliveryOne
  <2>4. Known' /\ OneRow'
    BY <2>2, <2>3 DEF RowStays, OneInv, OneRow, Known
  <2> QED
    BY <2>1, <2>4 DEF OneInv
<1>8. CASE Launch
  <2>1. /\ reader = "launch" /\ reader' = "reading" /\ UNCHANGED contacts
    BY <1>8 DEF Launch
  <2>2. Known' /\ OneRow'
    BY <2>1 DEF OneInv, OneRow, Known
  <2> QED
    BY <2>1, <2>2 DEF OneInv
<1> QED
  BY <1>4, <1>5, <1>6, <1>7, <1>8

LEMMA HandlingOne ==
  ASSUME Types, OneInv, ~Crossed, NEW h \in handling, Decrypt(h) \/ StoreProfileKey(h)
  PROVE  OneInv'
<1> DEFINE row == RowOf(contacts, "uuid")
<1>1. row \in Row /\ "uuid" \in Identifier
  BY Lookup DEF Types, Identifier
<1>2. UNCHANGED reader
  BY DEF Decrypt, StoreProfileKey
<1>3. Known /\ contacts[1].ids = Identifier
  <2>1. Known
    BY DEF OneInv
  <2>2. contacts[1].ids \in {{"phone"}, Identifier} /\ 1 \in DOMAIN contacts
    BY <2>1 DEF OneInv, OneRow, Types
  <2> QED
    BY <2>1, <2>2 DEF Crossed
<1>4. h.env.key \in Key
  BY DEF Types, Envelope
<1>5. PICK new \in Row : new.ids = row.ids /\ contacts' = Stored(contacts, "uuid", new)
  <2>1. CASE contacts' = Stored(contacts, "uuid", row)
    BY <1>1, <2>1
  <2>2. CASE contacts' = Stored(contacts, "uuid",
               [SaveIdentity(row, h.env.key) EXCEPT !.session = h.env.key])
    <3> DEFINE new == [SaveIdentity(row, h.env.key) EXCEPT !.session = h.env.key]
    <3>1. new \in Row /\ new.ids = row.ids
      BY <1>1, <1>4, Saved
    <3>2. contacts' = Stored(contacts, "uuid", new)
      BY <2>2
    <3> HIDE DEF new
    <3> QED
      BY <3>1, <3>2
  <2>3. CASE contacts' = Stored(contacts, "uuid", [row EXCEPT !.profileKey = TRUE])
    <3> DEFINE new == [row EXCEPT !.profileKey = TRUE]
    <3>1. new \in Row /\ new.ids = row.ids
      BY <1>1, Written DEF NoKey
    <3>2. contacts' = Stored(contacts, "uuid", new)
      BY <2>3
    <3> HIDE DEF new
    <3> QED
      BY <3>1, <3>2
  <2> QED
    BY <2>1, <2>2, <2>3 DEF Decrypt, StoreProfileKey
<1> HIDE DEF row
<1>6. RowStays
  BY <1>1, <1>3, <1>5, StoredOne DEF OneInv, row
<1> QED
  BY <1>2, <1>6, RowStaysOne

LEMMA TheirsOne ==
  ASSUME Types, OneInv, Write \/ Reinstall \/ UNCHANGED vars
  PROVE  OneInv'
<1>1. UNCHANGED <<contacts, reader, handling>>
  BY DEF Write, Reinstall, vars
<1>2. UNCHANGED <<Known, OneRow>>
  BY <1>1 DEF Known, OneRow
<1>3. CASE Write
  <2>1. PICK b \in BOOLEAN : Enqueue(IF theirs.session THEN "message" ELSE "bundle", b)
    BY <1>3 DEF Write
  <2> DEFINE type == IF theirs.session THEN "message" ELSE "bundle"
  <2>2. type \in {"receipt", "bundle", "message"}
    OBVIOUS
  <2>3. /\ envelopes' \in Seq(Envelope) /\ envelopes \in Seq(Envelope)
        /\ Len(envelopes') = Len(envelopes) + 1
        /\ \A i \in DOMAIN envelopes : envelopes'[i] = envelopes[i]
        /\ envelopes'[Len(envelopes')].type = type
    BY <2>1, <2>2, Enqueues DEF Types
  <2>4. \A i \in DOMAIN envelopes' : i \in DOMAIN envelopes \/ i = Len(envelopes')
    BY <2>3
  <2>5. Answers' => Answers \/ theirs.session
    BY <2>3, <2>4 DEF Answers
  <2> QED
    BY <1>1, <1>2, <1>3, <2>5 DEF OneInv, Write
<1>4. CASE Reinstall
  BY <1>1, <1>2, <1>4 DEF OneInv, Reinstall, Answers
<1>5. CASE UNCHANGED vars
  BY <1>1, <1>2, <1>5 DEF OneInv, vars, Answers
<1> QED
  BY <1>3, <1>4, <1>5

\* A contact is one record and nothing of it ends the read loop, for any number
\* of sends, keys and envelopes, as long as messages do not cross.
THEOREM OneContactUncrossed == ASSUME Crossing = FALSE PROVE Spec => []OneContact
<1> DEFINE I == Types /\ SessionsInv /\ OneInv
<1>1. Init => I
  <2>1. Init => OneInv
    BY DEF Init, OneInv, OneRow, Known, Answers
  <2> QED
    BY <2>1, TypesInit DEF Init, SessionsInv
<1>2. I /\ [Next]_vars => I'
  <2> SUFFICES ASSUME Types, OneInv, [Next]_vars PROVE OneInv'
    BY RowsNext
  <2>1. CASE UNCHANGED vars
    BY <2>1, TheirsOne
  <2>2. CASE Next
    <3>1. ~Crossed
      BY <2>2 DEF Next
    <3> QED
      BY <2>2, <3>1, SendsOne, ReadsOne, HandlingOne, TheirsOne DEF Next
  <2> QED
    BY <2>1, <2>2
<1>3. I => OneContact
  BY EmptyLen DEF OneInv, OneRow, Known, OneContact
<1> HIDE DEF I
<1> QED
  BY <1>1, <1>2, <1>3, PTL DEF Spec

-----------------------------------------------------------------------------
(***************************************************************************)
(* The server's sockets.  While the actor lives and the server runs, the   *)
(* two coroutines of a connection and its close go through their stages    *)
(* one after the other, and whoever waits for the actor waits for one      *)
(* message.                                                                *)
(***************************************************************************)

Lifetime ==
  /\ actor \in {"alive", "dead"}
  /\ stop \in [pc: {"no", "receivers", "clear", "clearing", "connections", "stopped"},
               at: Conn \cup {None}]

Live == actor = "alive" /\ stop.pc = "no"

Addressed(m) ==
  /\ m.op \in {"add", "remove"} => m.of \in Conn
  /\ m.op = "send" => m.of \in Line

\* Who waits for the actor is where its message says.
Asked(m) ==
  /\ m.op = "add" => setup[m.of] = "adding"
  /\ m.op = "remove" => closing[m.of] = "removing"
  /\ m.op # "clear"

AskedOnce ==
  \A i, j \in DOMAIN mailbox :
    i # j /\ mailbox[i].op \in {"add", "remove"} => mailbox[i] # mailbox[j]

Mailed ==
  /\ \A i \in DOMAIN mailbox : Addressed(mailbox[i]) /\ Asked(mailbox[i])
  /\ AskedOnce

\* A receiver runs once its connection was set up for it, and asks for the close.
Received(c) ==
  /\ setup[c] # "ended"
  /\ receiver[c] = "none" <=> setup[c] \in {"none", "accepted"}
  /\ c \in readers <=> receiver[c] = "reading"
  /\ receiver[c] \in {"none", "starting", "reading"} <=> closing[c] = "no"
  /\ receiver[c] = "ended" => closing[c] = "ended"

\* The server has a connection until its close is over, and its socket is open
\* until the close begins.
Connected(c) ==
  /\ c \in connections <=> setup[c] # "none" /\ closing[c] # "ended"
  /\ setup[c] # "none" /\ closing[c] = "no" => c \in open

\* The pool has its writer from when it is added until it is removed, unless
\* the remove came first.
Pooled(c) ==
  /\ c \in writers => setup[c] = "done"
  /\ c \notin early /\ setup[c] = "done" =>
       (c \in writers <=> closing[c] \in {"no", "begun", "removing"})
  /\ c \in early => closing[c] \in {"removed", "ended"}
  /\ closing[c] \in {"removed", "ended"} => setup[c] = "done" \/ c \in early

Whole(c) == Received(c) /\ Connected(c) /\ Pooled(c)

LiveInv == SocketsTypeOK /\ Mailed /\ \A c \in Conn : Whole(c)

MapsInv == Lifetime /\ (Live => LiveInv)

\* What a connection's part of the invariant reads.
WholeOf(c) == <<setup[c], receiver[c], closing[c], c \in readers, c \in connections, c \in open,
                c \in writers, c \in early>>

\* A step about one connection leaves the others whole.
LEMMA OthersWhole ==
  ASSUME NEW d, WholeOf(d)' = WholeOf(d), Whole(d)
  PROVE  Whole(d)'
<1>1. /\ setup'[d] = setup[d] /\ receiver'[d] = receiver[d] /\ closing'[d] = closing[d]
      /\ (d \in readers') = (d \in readers) /\ (d \in connections') = (d \in connections)
      /\ (d \in open') = (d \in open) /\ (d \in writers') = (d \in writers)
      /\ (d \in early') = (d \in early)
  BY DEF WholeOf
<1> QED
  BY <1>1 DEF Whole, Received, Connected, Pooled

-----------------------------------------------------------------------------
(* The mailbox.                                                            *)

Waits(m) == \E i \in DOMAIN mailbox : mailbox[i] = m

\* A message is sent by whoever waits for its answer, and for no other.
LEMMA PostMailed ==
  ASSUME mailbox \in Seq(Message), Mailed, NEW m \in Message, mailbox' = Append(mailbox, m),
         Addressed(m), Asked(m)', m.op \in {"add", "remove"} => ~Asked(m),
         \A n \in Message : Waits(n) => Asked(n)'
  PROVE  mailbox' \in Seq(Message) /\ Mailed'
<1>1. /\ mailbox' \in Seq(Message) /\ Len(mailbox') = Len(mailbox) + 1 /\ Len(mailbox) \in Nat
      /\ mailbox'[Len(mailbox) + 1] = m
      /\ \A i \in DOMAIN mailbox : mailbox'[i] = mailbox[i] /\ mailbox[i] \in Message
      /\ DOMAIN mailbox = 1..Len(mailbox) /\ DOMAIN mailbox' = 1..Len(mailbox')
  OBVIOUS
<1>2. \A i \in DOMAIN mailbox' : i \in DOMAIN mailbox \/ i = Len(mailbox) + 1
  BY <1>1
<1>3. \A i \in DOMAIN mailbox' : \A n \in Message : mailbox'[i] = n => Addressed(n) /\ Asked(n)'
  BY <1>1, <1>2 DEF Mailed, Waits
<1>4. m.op \in {"add", "remove"} => \A i \in DOMAIN mailbox : mailbox[i] # m
  BY DEF Mailed
<1>5. AskedOnce'
  <2>1. SUFFICES ASSUME NEW i \in DOMAIN mailbox', NEW j \in DOMAIN mailbox', i # j,
                        mailbox'[i].op \in {"add", "remove"}
                 PROVE  mailbox'[i] # mailbox'[j]
    BY DEF AskedOnce
  <2> QED
    BY <1>1, <1>2, <1>4, <2>1 DEF Mailed, AskedOnce
<1>6. \A i \in DOMAIN mailbox' : mailbox'[i] \in Message
  BY <1>1
<1> QED
  BY <1>1, <1>3, <1>5, <1>6 DEF Mailed, Addressed, Asked

\* A message that is taken was one of its kind.
LEMMA TookMailed ==
  ASSUME mailbox \in Seq(Message), Mailed, mailbox # << >>, Took,
         \A n \in Message : (\E i \in 2..Len(mailbox) : mailbox[i] = n) => Asked(n)'
  PROVE  mailbox' \in Seq(Message) /\ Mailed'
<1>1. /\ mailbox' \in Seq(Message) /\ Len(mailbox) \in Nat \ {0}
      /\ Len(mailbox') = Len(mailbox) - 1
      /\ \A i \in 1..Len(mailbox') : mailbox'[i] = mailbox[i + 1]
      /\ DOMAIN mailbox = 1..Len(mailbox) /\ DOMAIN mailbox' = 1..Len(mailbox')
  BY DEF Took
<1>2. \A i \in DOMAIN mailbox' : i + 1 \in 2..Len(mailbox) /\ i + 1 \in DOMAIN mailbox
  BY <1>1
<1>3. \A i \in DOMAIN mailbox' : \A n \in Message : mailbox'[i] = n => Addressed(n) /\ Asked(n)'
  BY <1>1, <1>2 DEF Mailed
<1>4. AskedOnce'
  <2>1. SUFFICES ASSUME NEW i \in DOMAIN mailbox', NEW j \in DOMAIN mailbox', i # j,
                        mailbox'[i].op \in {"add", "remove"}
                 PROVE  mailbox'[i] # mailbox'[j]
    BY DEF AskedOnce
  <2>2. i \in Nat /\ j \in Nat /\ i + 1 # j + 1
    BY <1>1, <2>1
  <2> QED
    BY <1>1, <1>2, <2>1, <2>2 DEF Mailed, AskedOnce
<1>5. \A i \in DOMAIN mailbox' : mailbox'[i] \in Message
  BY <1>1
<1> QED
  BY <1>1, <1>3, <1>4, <1>5 DEF Mailed, Addressed, Asked

\* Nothing is sent or taken.
LEMMA SameMailed ==
  ASSUME mailbox \in Seq(Message), Mailed, UNCHANGED mailbox,
         \A n \in Message : Waits(n) => Asked(n)'
  PROVE  mailbox' \in Seq(Message) /\ Mailed'
<1>1. \A i \in DOMAIN mailbox : mailbox[i] \in Message
  OBVIOUS
<1>2. \A i \in DOMAIN mailbox : \A n \in Message : mailbox[i] = n => Addressed(n) /\ Asked(n)'
  BY DEF Mailed, Waits
<1> QED
  BY <1>1, <1>2 DEF Mailed, Addressed, Asked, AskedOnce

\* The message at the head is from whoever waits for it, and no other is.
LEMMA AtHead ==
  ASSUME mailbox \in Seq(Message), Mailed, mailbox # << >>
  PROVE  /\ Head(mailbox) \in Message /\ Addressed(Head(mailbox)) /\ Asked(Head(mailbox))
         /\ \A i \in 2..Len(mailbox) :
              /\ mailbox[i] \in Message /\ Addressed(mailbox[i]) /\ Asked(mailbox[i])
              /\ Head(mailbox).op \in {"add", "remove"} => mailbox[i] # Head(mailbox)
<1>1. Head(mailbox) = mailbox[1] /\ 1 \in DOMAIN mailbox /\ Len(mailbox) \in Nat
      /\ DOMAIN mailbox = 1..Len(mailbox) /\ \A i \in DOMAIN mailbox : mailbox[i] \in Message
  OBVIOUS
<1>2. \A i \in 2..Len(mailbox) : i \in DOMAIN mailbox /\ i # 1
  BY <1>1
<1> QED
  BY <1>1, <1>2 DEF Mailed, AskedOnce

-----------------------------------------------------------------------------
(* One step of a living server.                                            *)

\* The app does not touch the maps.
LEMMA AppStep ==
  ASSUME LiveInv, App
  PROVE  LiveInv'
<1>t. SocketsTypeOK /\ Mailed /\ \A d \in Conn : Whole(d)
  BY DEF LiveInv
<1>1. SocketsTypeOK' /\ UNCHANGED mailbox
  BY <1>t DEF SocketsTypeOK, App, Connect, Disconnect, WriteLine, pool, Goes, server, readings
<1>2. \A n \in Message : Waits(n) => Asked(n)'
  <2>1. SUFFICES ASSUME NEW n \in Message, Waits(n) PROVE Asked(n)'
    OBVIOUS
  <2>2. Addressed(n) /\ Asked(n)
    BY <1>t, <2>1 DEF Mailed, Waits
  <2> QED
    BY <1>t, <2>2 DEF Asked, Addressed, SocketsTypeOK, App, Connect, Disconnect, WriteLine, pool, Goes, server, readings
<1>3. Mailed'
  BY <1>t, <1>1, <1>2, SameMailed DEF SocketsTypeOK
<1>4. ASSUME NEW d \in Conn PROVE Whole(d)'
  <2>1. WholeOf(d)' = WholeOf(d)
    BY <1>t DEF WholeOf, SocketsTypeOK, App, Connect, Disconnect, WriteLine, pool, Goes, server, readings
  <2> QED
    BY <1>t, <2>1, OthersWhole
<1> QED
  BY <1>1, <1>3, <1>4 DEF LiveInv

\* A new connection.
LEMMA AcceptStep ==
  ASSUME LiveInv, NEW c \in Conn, Accept(c)
  PROVE  LiveInv'
<1>t. SocketsTypeOK /\ Mailed /\ \A d \in Conn : Whole(d)
  BY DEF LiveInv
<1>1. SocketsTypeOK' /\ UNCHANGED mailbox
  BY <1>t DEF SocketsTypeOK, Accept, pool, Goes, server, readings
<1>2. \A n \in Message : Waits(n) => Asked(n)'
  <2>1. SUFFICES ASSUME NEW n \in Message, Waits(n) PROVE Asked(n)'
    OBVIOUS
  <2>2. Addressed(n) /\ Asked(n)
    BY <1>t, <2>1 DEF Mailed, Waits
  <2> QED
    BY <1>t, <2>2 DEF Asked, Addressed, SocketsTypeOK, Accept, pool, Goes, server, readings
<1>3. Mailed'
  BY <1>t, <1>1, <1>2, SameMailed DEF SocketsTypeOK
<1>4. ASSUME NEW d \in Conn, d # c PROVE Whole(d)'
  <2>1. WholeOf(d)' = WholeOf(d)
    BY <1>t, <1>4 DEF WholeOf, SocketsTypeOK, Accept, pool, Goes, server, readings
  <2> QED
    BY <1>t, <2>1, OthersWhole
<1>5. Whole(c)'
  BY <1>t DEF SocketsTypeOK, Whole, Received, Connected, Pooled, Accept, pool, Goes, server, readings
<1> QED
  BY <1>1, <1>3, <1>4, <1>5 DEF LiveInv

\* Its receiver is connected.
LEMMA ConnectReceiverStep ==
  ASSUME LiveInv, NEW c \in Conn, ConnectReceiver(c)
  PROVE  LiveInv'
<1>t. SocketsTypeOK /\ Mailed /\ \A d \in Conn : Whole(d)
  BY DEF LiveInv
<1>1. SocketsTypeOK' /\ UNCHANGED mailbox
  BY <1>t DEF SocketsTypeOK, ConnectReceiver, pool, Goes, server, readings
<1>2. \A n \in Message : Waits(n) => Asked(n)'
  <2>1. SUFFICES ASSUME NEW n \in Message, Waits(n) PROVE Asked(n)'
    OBVIOUS
  <2>2. Addressed(n) /\ Asked(n)
    BY <1>t, <2>1 DEF Mailed, Waits
  <2> QED
    BY <1>t, <2>2 DEF Asked, Addressed, SocketsTypeOK, ConnectReceiver, pool, Goes, server, readings
<1>3. Mailed'
  BY <1>t, <1>1, <1>2, SameMailed DEF SocketsTypeOK
<1>4. ASSUME NEW d \in Conn, d # c PROVE Whole(d)'
  <2>1. WholeOf(d)' = WholeOf(d)
    BY <1>t, <1>4 DEF WholeOf, SocketsTypeOK, ConnectReceiver, pool, Goes, server, readings
  <2> QED
    BY <1>t, <2>1, OthersWhole
<1>5. Whole(c)'
  BY <1>t DEF SocketsTypeOK, Whole, Received, Connected, Pooled, ConnectReceiver, pool, Goes, server, readings
<1> QED
  BY <1>1, <1>3, <1>4, <1>5 DEF LiveInv

\* A connection that is not read yet was not closed.
LEMMA StartReaderStep ==
  ASSUME LiveInv, NEW c \in Conn, StartReader(c)
  PROVE  LiveInv'
<1>t. SocketsTypeOK /\ Mailed /\ \A d \in Conn : Whole(d)
  BY DEF LiveInv
<1>1. SocketsTypeOK' /\ UNCHANGED mailbox
  BY <1>t DEF SocketsTypeOK, StartReader, pool, Goes, server, readings
<1>2. \A n \in Message : Waits(n) => Asked(n)'
  <2>1. SUFFICES ASSUME NEW n \in Message, Waits(n) PROVE Asked(n)'
    OBVIOUS
  <2>2. Addressed(n) /\ Asked(n)
    BY <1>t, <2>1 DEF Mailed, Waits
  <2> QED
    BY <1>t, <2>2 DEF Asked, Addressed, SocketsTypeOK, StartReader, pool, Goes, server, readings
<1>3. Mailed'
  BY <1>t, <1>1, <1>2, SameMailed DEF SocketsTypeOK
<1>4. ASSUME NEW d \in Conn, d # c PROVE Whole(d)'
  <2>1. WholeOf(d)' = WholeOf(d)
    BY <1>t, <1>4 DEF WholeOf, SocketsTypeOK, StartReader, pool, Goes, server, readings
  <2> QED
    BY <1>t, <2>1, OthersWhole
<1>5. Whole(c)'
  BY <1>t DEF SocketsTypeOK, Whole, Received, Connected, Pooled, StartReader, pool, Goes, server, readings
<1> QED
  BY <1>1, <1>3, <1>4, <1>5 DEF LiveInv

\* A receiver that reads has its entry.
LEMMA ReadLineStep ==
  ASSUME LiveInv, NEW c \in Conn, ReadLine(c)
  PROVE  LiveInv'
<1>t. SocketsTypeOK /\ Mailed /\ \A d \in Conn : Whole(d)
  BY DEF LiveInv
<1>1. SocketsTypeOK' /\ UNCHANGED mailbox
  BY <1>t DEF SocketsTypeOK, ReadLine, pool, Goes, server, readings
<1>2. \A n \in Message : Waits(n) => Asked(n)'
  <2>1. SUFFICES ASSUME NEW n \in Message, Waits(n) PROVE Asked(n)'
    OBVIOUS
  <2>2. Addressed(n) /\ Asked(n)
    BY <1>t, <2>1 DEF Mailed, Waits
  <2> QED
    BY <1>t, <2>2 DEF Asked, Addressed, SocketsTypeOK, ReadLine, pool, Goes, server, readings
<1>3. Mailed'
  BY <1>t, <1>1, <1>2, SameMailed DEF SocketsTypeOK
<1>4. ASSUME NEW d \in Conn, d # c PROVE Whole(d)'
  <2>1. WholeOf(d)' = WholeOf(d)
    BY <1>t, <1>4 DEF WholeOf, SocketsTypeOK, ReadLine, pool, Goes, server, readings
  <2> QED
    BY <1>t, <2>1, OthersWhole
<1>5. Whole(c)'
  BY <1>t DEF SocketsTypeOK, Whole, Received, Connected, Pooled, ReadLine, pool, Goes, server, readings
<1> QED
  BY <1>1, <1>3, <1>4, <1>5 DEF LiveInv

\* A receiver asks for the close once.
LEMMA ReadEndStep ==
  ASSUME LiveInv, NEW c \in Conn, ReadEnd(c)
  PROVE  LiveInv'
<1>t. SocketsTypeOK /\ Mailed /\ \A d \in Conn : Whole(d)
  BY DEF LiveInv
<1>n. closing[c] = "no"
  BY <1>t DEF ReadEnd, Whole, Received
<1>1. SocketsTypeOK' /\ UNCHANGED mailbox
  BY <1>t DEF SocketsTypeOK, ReadEnd, pool, Goes, server, readings
<1>2. \A n \in Message : Waits(n) => Asked(n)'
  <2>1. SUFFICES ASSUME NEW n \in Message, Waits(n) PROVE Asked(n)'
    OBVIOUS
  <2>2. Addressed(n) /\ Asked(n)
    BY <1>t, <2>1 DEF Mailed, Waits
  <2> QED
    BY <1>t, <1>n, <2>2 DEF Asked, Addressed, SocketsTypeOK, ReadEnd, pool, Goes, server, readings
<1>3. Mailed'
  BY <1>t, <1>1, <1>2, SameMailed DEF SocketsTypeOK
<1>4. ASSUME NEW d \in Conn, d # c PROVE Whole(d)'
  <2>1. WholeOf(d)' = WholeOf(d)
    BY <1>t, <1>4 DEF WholeOf, SocketsTypeOK, ReadEnd, pool, Goes, server, readings
  <2> QED
    BY <1>t, <2>1, OthersWhole
<1>5. Whole(c)'
  BY <1>t DEF SocketsTypeOK, Whole, Received, Connected, Pooled, ReadEnd, pool, Goes, server, readings
<1> QED
  BY <1>1, <1>3, <1>4, <1>5 DEF LiveInv

\* A receiver that reads has its entry and an open socket.
LEMMA EndReaderStep ==
  ASSUME LiveInv, NEW c \in Conn, EndReader(c)
  PROVE  LiveInv'
<1>t. SocketsTypeOK /\ Mailed /\ \A d \in Conn : Whole(d)
  BY DEF LiveInv
<1>1. SocketsTypeOK' /\ UNCHANGED mailbox
  BY <1>t DEF SocketsTypeOK, EndReader, pool, Goes, server, readings
<1>2. \A n \in Message : Waits(n) => Asked(n)'
  <2>1. SUFFICES ASSUME NEW n \in Message, Waits(n) PROVE Asked(n)'
    OBVIOUS
  <2>2. Addressed(n) /\ Asked(n)
    BY <1>t, <2>1 DEF Mailed, Waits
  <2> QED
    BY <1>t, <2>2 DEF Asked, Addressed, SocketsTypeOK, EndReader, pool, Goes, server, readings
<1>3. Mailed'
  BY <1>t, <1>1, <1>2, SameMailed DEF SocketsTypeOK
<1>4. ASSUME NEW d \in Conn, d # c PROVE Whole(d)'
  <2>1. WholeOf(d)' = WholeOf(d)
    BY <1>t, <1>4 DEF WholeOf, SocketsTypeOK, EndReader, pool, Goes, server, readings
  <2> QED
    BY <1>t, <2>1, OthersWhole
<1>5. Whole(c)'
  BY <1>t DEF SocketsTypeOK, Whole, Received, Connected, Pooled, EndReader, pool, Goes, server, readings
<1> QED
  BY <1>1, <1>3, <1>4, <1>5 DEF LiveInv

\* The server forgets a connection at the end of its close.
LEMMA CloseConnectionStep ==
  ASSUME LiveInv, NEW c \in Conn, CloseConnection(c)
  PROVE  LiveInv'
<1>t. SocketsTypeOK /\ Mailed /\ \A d \in Conn : Whole(d)
  BY DEF LiveInv
<1>1. SocketsTypeOK' /\ UNCHANGED mailbox
  BY <1>t DEF SocketsTypeOK, CloseConnection, pool, Goes, server, readings
<1>2. \A n \in Message : Waits(n) => Asked(n)'
  <2>1. SUFFICES ASSUME NEW n \in Message, Waits(n) PROVE Asked(n)'
    OBVIOUS
  <2>2. Addressed(n) /\ Asked(n)
    BY <1>t, <2>1 DEF Mailed, Waits
  <2> QED
    BY <1>t, <2>2 DEF Asked, Addressed, SocketsTypeOK, CloseConnection, pool, Goes, server, readings
<1>3. Mailed'
  BY <1>t, <1>1, <1>2, SameMailed DEF SocketsTypeOK
<1>4. ASSUME NEW d \in Conn, d # c PROVE Whole(d)'
  <2>1. WholeOf(d)' = WholeOf(d)
    BY <1>t, <1>4 DEF WholeOf, SocketsTypeOK, CloseConnection, pool, Goes, server, readings
  <2> QED
    BY <1>t, <2>1, OthersWhole
<1>5. Whole(c)'
  BY <1>t DEF SocketsTypeOK, Whole, Received, Connected, Pooled, CloseConnection, pool, Goes, server, readings
<1> QED
  BY <1>1, <1>3, <1>4, <1>5 DEF LiveInv

\* The coroutine that connects asks for a writer.
LEMMA ConnectSenderStep ==
  ASSUME LiveInv, Live, NEW c \in Conn, ConnectSender(c)
  PROVE  LiveInv'
<1> DEFINE m == [op |-> "add", of |-> c]
<1>t. SocketsTypeOK /\ Mailed /\ \A d \in Conn : Whole(d)
  BY DEF LiveInv
<1>m. m \in Message /\ m.op = "add" /\ m.of = c /\ mailbox' = Append(mailbox, m)
  BY DEF Message, Live, Post, ConnectSender, Goes, server, readings
<1> HIDE DEF m
<1>2. \A n \in Message : Waits(n) => Asked(n)'
  <2>1. SUFFICES ASSUME NEW n \in Message, Waits(n) PROVE Asked(n)'
    OBVIOUS
  <2>2. Addressed(n) /\ Asked(n)
    BY <1>t, <2>1 DEF Mailed, Waits
  <2> QED
    BY <1>t, <2>2 DEF Asked, Addressed, SocketsTypeOK, Live, Post, ConnectSender, Goes, server, readings
<1>a. Addressed(m) /\ Asked(m)' /\ (m.op \in {"add", "remove"} => ~Asked(m))
  BY <1>t, <1>m DEF Asked, Addressed, SocketsTypeOK, Live, Post, ConnectSender, Goes, server, readings
<1>3. mailbox' \in Seq(Message) /\ Mailed'
  BY <1>t, <1>m, <1>2, <1>a, PostMailed DEF SocketsTypeOK
<1>1. SocketsTypeOK'
  BY <1>t, <1>3 DEF SocketsTypeOK, Live, Post, ConnectSender, Goes, server, readings
<1>4. ASSUME NEW d \in Conn, d # c PROVE Whole(d)'
  <2>1. WholeOf(d)' = WholeOf(d)
    BY <1>t, <1>4 DEF WholeOf, SocketsTypeOK, Live, Post, ConnectSender, Goes, server, readings
  <2> QED
    BY <1>t, <2>1, OthersWhole
<1>5. Whole(c)'
  BY <1>t DEF SocketsTypeOK, Whole, Received, Connected, Pooled, Live, Post, ConnectSender, Goes, server, readings
<1> QED
  BY <1>1, <1>3, <1>4, <1>5 DEF LiveInv

\* A close asks for the writer's removal.
LEMMA CloseSenderStep ==
  ASSUME LiveInv, Live, NEW c \in Conn, CloseSender(c)
  PROVE  LiveInv'
<1> DEFINE m == [op |-> "remove", of |-> c]
<1>t. SocketsTypeOK /\ Mailed /\ \A d \in Conn : Whole(d)
  BY DEF LiveInv
<1>m. m \in Message /\ m.op = "remove" /\ m.of = c /\ mailbox' = Append(mailbox, m)
  BY DEF Message, Live, Post, CloseSender, Goes, server, readings
<1> HIDE DEF m
<1>2. \A n \in Message : Waits(n) => Asked(n)'
  <2>1. SUFFICES ASSUME NEW n \in Message, Waits(n) PROVE Asked(n)'
    OBVIOUS
  <2>2. Addressed(n) /\ Asked(n)
    BY <1>t, <2>1 DEF Mailed, Waits
  <2> QED
    BY <1>t, <2>2 DEF Asked, Addressed, SocketsTypeOK, Live, Post, CloseSender, Goes, server, readings
<1>a. Addressed(m) /\ Asked(m)' /\ (m.op \in {"add", "remove"} => ~Asked(m))
  BY <1>t, <1>m DEF Asked, Addressed, SocketsTypeOK, Live, Post, CloseSender, Goes, server, readings
<1>3. mailbox' \in Seq(Message) /\ Mailed'
  BY <1>t, <1>m, <1>2, <1>a, PostMailed DEF SocketsTypeOK
<1>1. SocketsTypeOK'
  BY <1>t, <1>3 DEF SocketsTypeOK, Live, Post, CloseSender, Goes, server, readings
<1>4. ASSUME NEW d \in Conn, d # c PROVE Whole(d)'
  <2>1. WholeOf(d)' = WholeOf(d)
    BY <1>t, <1>4 DEF WholeOf, SocketsTypeOK, Live, Post, CloseSender, Goes, server, readings
  <2> QED
    BY <1>t, <2>1, OthersWhole
<1>5. Whole(c)'
  BY <1>t DEF SocketsTypeOK, Whole, Received, Connected, Pooled, Live, Post, CloseSender, Goes, server, readings
<1> QED
  BY <1>1, <1>3, <1>4, <1>5 DEF LiveInv

\* An answer goes to the pool.
LEMMA AnswerStep ==
  ASSUME LiveInv, Live, NEW r \in Line, Answer(r)
  PROVE  LiveInv'
<1> DEFINE m == [op |-> "send", of |-> r]
<1>t. SocketsTypeOK /\ Mailed /\ \A d \in Conn : Whole(d)
  BY DEF LiveInv
<1>m. m \in Message /\ m.op = "send" /\ m.of = r /\ mailbox' = Append(mailbox, m)
  BY DEF Message, Live, Post, Answer, Goes, server, readings
<1> HIDE DEF m
<1>2. \A n \in Message : Waits(n) => Asked(n)'
  <2>1. SUFFICES ASSUME NEW n \in Message, Waits(n) PROVE Asked(n)'
    OBVIOUS
  <2>2. Addressed(n) /\ Asked(n)
    BY <1>t, <2>1 DEF Mailed, Waits
  <2> QED
    BY <1>t, <2>2 DEF Asked, Addressed, SocketsTypeOK, Live, Post, Answer, Goes, server, readings
<1>a. Addressed(m) /\ Asked(m)' /\ (m.op \in {"add", "remove"} => ~Asked(m))
  BY <1>t, <1>m DEF Asked, Addressed, SocketsTypeOK, Live, Post, Answer, Goes, server, readings
<1>3. mailbox' \in Seq(Message) /\ Mailed'
  BY <1>t, <1>m, <1>2, <1>a, PostMailed DEF SocketsTypeOK
<1>1. SocketsTypeOK'
  BY <1>t, <1>3 DEF SocketsTypeOK, Live, Post, Answer, Goes, server, readings
<1>4. ASSUME NEW d \in Conn PROVE Whole(d)'
  <2>1. WholeOf(d)' = WholeOf(d)
    BY <1>t DEF WholeOf, SocketsTypeOK, Live, Post, Answer, Goes, server, readings
  <2> QED
    BY <1>t, <2>1, OthersWhole
<1> QED
  BY <1>1, <1>3, <1>4 DEF LiveInv

\* The pool takes the connection that asks for a writer.
LEMMA TakeAddStep ==
  ASSUME LiveInv, TakeAdd, Live'
  PROVE  LiveInv'
<1>t. SocketsTypeOK /\ Mailed /\ mailbox \in Seq(Message) /\ \A d \in Conn : Whole(d)
  BY DEF LiveInv, SocketsTypeOK
<1>0. mailbox # << >> /\ Head(mailbox).op = "add"
  BY DEF TakeAdd, Takes
<1>h. /\ Head(mailbox) \in Message /\ Addressed(Head(mailbox)) /\ Asked(Head(mailbox))
      /\ \A i \in 2..Len(mailbox) :
           /\ mailbox[i] \in Message /\ Addressed(mailbox[i]) /\ Asked(mailbox[i])
           /\ mailbox[i] # Head(mailbox)
  BY <1>t, <1>0, AtHead
<1>c. PICK c \in Conn : c = Head(mailbox).of /\ Head(mailbox) = [op |-> "add", of |-> c]
                        /\ setup[c] = "adding"
  BY <1>0, <1>h DEF Message, Addressed, Asked
<1>2. /\ writers' = writers \cup {c} /\ setup' = [setup EXCEPT ![c] = "done"] /\ Took
      /\ UNCHANGED <<client, wire, readings, connections, open, closing, actor, request, stop, early>>
  BY <1>c DEF TakeAdd, Live, Die, Goes
<1>3. \A n \in Message : (\E i \in 2..Len(mailbox) : mailbox[i] = n) => Asked(n)'
  <2>1. SUFFICES ASSUME NEW n \in Message, NEW i \in 2..Len(mailbox), mailbox[i] = n
                 PROVE  Asked(n)'
    OBVIOUS
  <2>2. Addressed(n) /\ Asked(n) /\ n # [op |-> "add", of |-> c]
    BY <1>h, <1>c, <2>1
  <2>3. n.op = "add" => n.of # c
    BY <2>2 DEF Message
  <2> QED
    BY <1>t, <1>2, <2>2, <2>3 DEF Asked, Addressed, SocketsTypeOK
<1>4. mailbox' \in Seq(Message) /\ Mailed'
  BY <1>t, <1>0, <1>2, <1>3, TookMailed
<1>5. SocketsTypeOK'
  BY <1>t, <1>2, <1>4 DEF SocketsTypeOK, readings
<1>6. ASSUME NEW d \in Conn, d # c PROVE Whole(d)'
  <2>1. WholeOf(d)' = WholeOf(d)
    BY <1>t, <1>2, <1>6 DEF WholeOf, SocketsTypeOK, readings
  <2> QED
    BY <1>t, <2>1, OthersWhole
<1>7. Whole(c)'
  BY <1>t, <1>2, <1>c DEF SocketsTypeOK, Whole, Received, Connected, Pooled, readings
<1> QED
  BY <1>4, <1>5, <1>6, <1>7 DEF LiveInv

\* The pool drops the writer of the connection that closes, or learns that it
\* was never there.
LEMMA TakeRemoveStep ==
  ASSUME LiveInv, TakeRemove
  PROVE  LiveInv'
<1>t. SocketsTypeOK /\ Mailed /\ mailbox \in Seq(Message) /\ \A d \in Conn : Whole(d)
  BY DEF LiveInv, SocketsTypeOK
<1>0. mailbox # << >> /\ Head(mailbox).op = "remove"
  BY DEF TakeRemove, Takes
<1>h. /\ Head(mailbox) \in Message /\ Addressed(Head(mailbox)) /\ Asked(Head(mailbox))
      /\ \A i \in 2..Len(mailbox) :
           /\ mailbox[i] \in Message /\ Addressed(mailbox[i]) /\ Asked(mailbox[i])
           /\ mailbox[i] # Head(mailbox)
  BY <1>t, <1>0, AtHead
<1>c. PICK c \in Conn : c = Head(mailbox).of /\ Head(mailbox) = [op |-> "remove", of |-> c]
                        /\ closing[c] = "removing"
  BY <1>0, <1>h DEF Message, Addressed, Asked
<1>2. /\ writers' = writers \ {c} /\ closing' = [closing EXCEPT ![c] = "removed"] /\ Took
      /\ open' = IF c \in writers THEN open \ {c} ELSE open
      /\ early' = IF c \in writers THEN early ELSE early \cup {c}
      /\ UNCHANGED <<client, wire, readings, connections, setup, actor, request, stop>>
  BY <1>c DEF TakeRemove, Goes
<1>3. \A n \in Message : (\E i \in 2..Len(mailbox) : mailbox[i] = n) => Asked(n)'
  <2>1. SUFFICES ASSUME NEW n \in Message, NEW i \in 2..Len(mailbox), mailbox[i] = n
                 PROVE  Asked(n)'
    OBVIOUS
  <2>2. Addressed(n) /\ Asked(n) /\ n # [op |-> "remove", of |-> c]
    BY <1>h, <1>c, <2>1
  <2>3. n.op = "remove" => n.of # c
    BY <2>2 DEF Message
  <2> QED
    BY <1>t, <1>2, <2>2, <2>3 DEF Asked, Addressed, SocketsTypeOK
<1>4. mailbox' \in Seq(Message) /\ Mailed'
  BY <1>t, <1>0, <1>2, <1>3, TookMailed
<1>5. SocketsTypeOK'
  BY <1>t, <1>2, <1>4 DEF SocketsTypeOK, readings
<1>6. ASSUME NEW d \in Conn, d # c PROVE Whole(d)'
  <2>1. WholeOf(d)' = WholeOf(d)
    BY <1>t, <1>2, <1>6 DEF WholeOf, SocketsTypeOK, readings
  <2> QED
    BY <1>t, <2>1, OthersWhole
<1>7. Whole(c)'
  BY <1>t, <1>2, <1>c DEF SocketsTypeOK, Whole, Received, Connected, Pooled, readings
<1> QED
  BY <1>4, <1>5, <1>6, <1>7 DEF LiveInv

\* An answer leaves the maps alone.
LEMMA TakeSendStep ==
  ASSUME LiveInv, TakeSend, Live'
  PROVE  LiveInv'
<1>t. SocketsTypeOK /\ Mailed /\ mailbox \in Seq(Message) /\ \A d \in Conn : Whole(d)
  BY DEF LiveInv, SocketsTypeOK
<1>0. mailbox # << >> /\ Head(mailbox).op = "send"
  BY DEF TakeSend, Takes
<1>h. \A i \in 2..Len(mailbox) : Addressed(mailbox[i]) /\ Asked(mailbox[i])
  BY <1>t, <1>0, AtHead
<1>2. /\ Took /\ request' \in [Line -> {"new", "written", "read", "answering", "answered", "lost"}]
      /\ UNCHANGED <<client, wire, readings, server, writers, actor, stop, early>>
  BY <1>t DEF TakeSend, Live, Die, Goes, SocketsTypeOK
<1>3. \A n \in Message : (\E i \in 2..Len(mailbox) : mailbox[i] = n) => Asked(n)'
  BY <1>h, <1>2 DEF Asked, server
<1>4. mailbox' \in Seq(Message) /\ Mailed'
  BY <1>t, <1>0, <1>2, <1>3, TookMailed
<1>5. SocketsTypeOK'
  BY <1>t, <1>2, <1>4 DEF SocketsTypeOK, readings, server
<1>6. ASSUME NEW d \in Conn PROVE Whole(d)'
  <2>1. WholeOf(d)' = WholeOf(d)
    BY <1>2 DEF WholeOf, readings, server
  <2> QED
    BY <1>t, <2>1, OthersWhole
<1> QED
  BY <1>4, <1>5, <1>6 DEF LiveInv

\* A message asks to clear the pool only once the server stops.
LEMMA NoClear ==
  ASSUME LiveInv, TakeClear
  PROVE  FALSE
<1>1. mailbox \in Seq(Message) /\ Mailed /\ mailbox # << >> /\ Head(mailbox).op = "clear"
  BY DEF LiveInv, SocketsTypeOK, TakeClear, Takes
<1> QED
  BY <1>1, AtHead DEF Asked

-----------------------------------------------------------------------------
(* The server's life.                                                      *)

\* A server that has begun to stop does not start again, nor does an actor.
LEMMA LifetimeStep ==
  ASSUME Lifetime, SocketsNext
  PROVE  /\ Lifetime'
         /\ Live' => /\ Live
                     /\ \/ App \/ TakeAdd \/ TakeRemove \/ TakeSend \/ TakeClear
                        \/ \E c \in Conn : Accept(c) \/ Set(c) \/ Receive(c) \/ Close(c)
                        \/ \E r \in Line : Answer(r)
<1>1. CASE App
  BY <1>1 DEF Lifetime, Live, App, Connect, Disconnect, WriteLine, pool
<1>2. CASE Listen
  BY <1>2 DEF Lifetime, Live, Listen, Accept, pool
<1>3. CASE Stop
  BY <1>3 DEF Lifetime, Live, Stop
<1>4. CASE Stopping
  BY <1>4 DEF Lifetime, Live, Stopping, StopReceiver, StopReceiverEnds, StopSender,
              CloseAllConnections, Post, pool
<1>5. CASE Pool
  <2>1. CASE TakeAdd
    BY <2>1 DEF Lifetime, Live, TakeAdd, Takes, Die
  <2>2. CASE TakeRemove
    BY <2>2 DEF Lifetime, Live, TakeRemove, Takes
  <2>3. CASE TakeSend
    BY <2>3 DEF Lifetime, Live, TakeSend, Takes, Die
  <2>4. CASE TakeClear
    BY <2>4 DEF Lifetime, Live, TakeClear, Takes
  <2> QED
    BY <1>5, <2>1, <2>2, <2>3, <2>4 DEF Pool
<1>6. ASSUME NEW c \in Conn, Set(c) \/ Receive(c) \/ Close(c)
      PROVE  UNCHANGED <<actor, stop>>
  BY <1>6 DEF Set, Receive, Close, ConnectReceiver, ConnectSender, StartReader, ReadLine, ReadEnd,
              EndReader, CloseSender, CloseConnection, Post, pool
<1>7. ASSUME NEW r \in Line, Answer(r)
      PROVE  UNCHANGED <<actor, stop>>
  BY <1>7 DEF Answer, Post, pool
<1> QED
  BY <1>1, <1>2, <1>3, <1>4, <1>5, <1>6, <1>7 DEF SocketsNext, Lifetime, Live

LEMMA MapsInvInit == SocketsInit => MapsInv
<1>1. SUFFICES ASSUME SocketsInit PROVE MapsInv
  OBVIOUS
<1>2. SocketsTypeOK
  BY <1>1 DEF SocketsInit, SocketsTypeOK
<1>3. Mailed
  BY <1>1 DEF SocketsInit, Mailed, AskedOnce
<1>4. \A c \in Conn : Whole(c)
  BY <1>1 DEF SocketsInit, Whole, Received, Connected, Pooled
<1> QED
  BY <1>2, <1>3, <1>4 DEF MapsInv, LiveInv, Lifetime, SocketsTypeOK

LEMMA MapsInvStep == MapsInv /\ [SocketsNext]_socketVars => MapsInv'
<1>1. ASSUME MapsInv, SocketsNext PROVE MapsInv'
  <2>1. SUFFICES ASSUME Live' PROVE LiveInv'
    BY <1>1, LifetimeStep DEF MapsInv
  <2>2. /\ Live /\ LiveInv
        /\ \/ App \/ TakeAdd \/ TakeRemove \/ TakeSend \/ TakeClear
           \/ \E c \in Conn : Accept(c) \/ Set(c) \/ Receive(c) \/ Close(c)
           \/ \E r \in Line : Answer(r)
    BY <1>1, <2>1, LifetimeStep DEF MapsInv
  <2>3. CASE App
    BY <2>2, <2>3, AppStep
  <2>4. CASE TakeAdd
    BY <2>1, <2>2, <2>4, TakeAddStep
  <2>5. CASE TakeRemove
    BY <2>2, <2>5, TakeRemoveStep
  <2>6. CASE TakeSend
    BY <2>1, <2>2, <2>6, TakeSendStep
  <2>7. CASE TakeClear
    BY <2>2, <2>7, NoClear
  <2>8. ASSUME NEW c \in Conn, Accept(c) \/ Set(c) PROVE LiveInv'
    BY <2>2, <2>8, AcceptStep, ConnectReceiverStep, ConnectSenderStep DEF Set
  <2>9. ASSUME NEW c \in Conn, Receive(c) \/ Close(c) PROVE LiveInv'
    BY <2>2, <2>9, StartReaderStep, ReadLineStep, ReadEndStep, EndReaderStep, CloseSenderStep,
       CloseConnectionStep DEF Receive, Close
  <2>10. ASSUME NEW r \in Line, Answer(r) PROVE LiveInv'
    BY <2>2, <2>10, AnswerStep
  <2> QED
    BY <2>2, <2>3, <2>4, <2>5, <2>6, <2>7, <2>8, <2>9, <2>10
<1>2. ASSUME MapsInv, UNCHANGED socketVars PROVE MapsInv'
  <2>1. /\ UNCHANGED <<client, wire, connections, open, setup, closing, receiver, readers>>
        /\ UNCHANGED <<writers, mailbox, actor, request, stop, early>>
    BY <1>2 DEF socketVars, server, readings, pool
  <2>2. Lifetime' /\ (Live' => Live)
    BY <1>2, <2>1 DEF MapsInv, Lifetime, Live
  <2>3. ASSUME Live PROVE LiveInv'
    <3>1. SocketsTypeOK' /\ Mailed'
      BY <1>2, <2>1, <2>3 DEF MapsInv, LiveInv, SocketsTypeOK, Mailed, Addressed, Asked, AskedOnce
    <3>2. ASSUME NEW d \in Conn PROVE Whole(d)'
      BY <1>2, <2>1, <2>3, OthersWhole DEF MapsInv, LiveInv, WholeOf
    <3> QED
      BY <3>1, <3>2 DEF LiveInv
  <2> QED
    BY <2>2, <2>3 DEF MapsInv
<1> QED
  BY <1>1, <1>2

\* While the actor lives and the server runs, the maps of server, receiver and
\* pool name the same connections, apart from those with something on its way
\* and those that ended before they had a writer.
THEOREM ServerMapsAgree == SocketsSpec => []MapsAgree
<1>1. MapsInv => MapsAgree
  <2>1. SUFFICES ASSUME MapsInv, Live, NEW c \in Conn \ early, Settled(c)
                 PROVE  /\ (c \in connections) = (c \in writers)
                        /\ (c \in connections) = (c \in readers)
    BY DEF MapsAgree, Live
  <2>2. Whole(c)
    BY <2>1 DEF MapsInv, LiveInv
  <2> QED
    BY <2>1, <2>2 DEF Whole, Received, Connected, Pooled, Settled
<1> QED
  BY <1>1, MapsInvInit, MapsInvStep, PTL DEF SocketsSpec

=============================================================================
