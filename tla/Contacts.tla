------------------------------ MODULE Contacts ------------------------------
(***************************************************************************)
(* What a signalc account knows of one contact: its records                *)
(* (ContactStore.kt), the identity key it trusts (SignalcIdentityStore.kt) *)
(* and the session it holds (SignalcSessionStore.kt), as sends             *)
(* (SocketReceiver.kt, SignalSender.kt) and envelopes (SignalReceiver.kt)  *)
(* change them.  A contact has a phone number, by which signalboost writes *)
(* to it, and a UUID, by which libsignal looks up whoever writes to us: a  *)
(* record that lacks one of the two is completed by a receipt.             *)
(*                                                                         *)
(* libsignal and the contact's own device are modelled by what signalc     *)
(* sees of them.  Contacts share nothing, so one is enough.                *)
(***************************************************************************)
EXTENDS Naturals, Sequences, FiniteSets, SequencesExt

CONSTANTS
  Send,          \* SEND requests to the contact
  MaxKeys,       \* bound: identity keys the contact has had
  MaxEnvelopes,  \* bound: envelopes of the contact
  BlockUnsealed, \* toggles.blockUnsealedMessages
  Crossing       \* bound: whether exploration goes on once messages cross

ASSUME ConstantsAssumption ==
  /\ MaxKeys \in Nat \ {0} /\ MaxEnvelopes \in Nat
  /\ BlockUnsealed \in BOOLEAN /\ Crossing \in BOOLEAN

Key == 1..MaxKeys
NoKey == 0
Identifier == {"phone", "uuid"}
Envelope == [n: 1..MaxEnvelopes, type: {"receipt", "bundle", "message"},
             key: Key, profileKey: BOOLEAN]

VARIABLES
  contacts,   \* rows of contacts, by contact id, with their identity and session
  send,       \* SEND requests in progress
  envelopes,  \* on their way to the account, in the order they are read
  reader,     \* the read loop of the account's subscription
  handling,   \* envelopes being decrypted and relayed
  theirs,     \* the contact's device: its key, and whether it has a session
  written     \* envelopes so far

vars == <<contacts, send, envelopes, reader, handling, theirs, written>>

Row == [ids: (SUBSET Identifier) \ {{}}, profileKey: BOOLEAN,
        identity: Key \cup {NoKey}, trusted: BOOLEAN, session: Key \cup {NoKey}]

TypeOK ==
  /\ contacts \in Seq(Row) /\ Len(contacts) <= 2
  /\ \A i, j \in DOMAIN contacts : i # j => contacts[i].ids \cap contacts[j].ids = {}
  /\ send \in [Send -> [pc: {"idle", "resolve", "encrypt", "save", "archive", "done"},
                        sealed: BOOLEAN, key: Key \cup {NoKey}]]
  /\ envelopes \in Seq(Envelope) /\ handling \subseteq [env: Envelope, pc: {"decrypt", "profile"}]
  /\ reader \in {"reading", "create", "profile", "launch", "dead"}
  /\ theirs \in [key: Key, session: BOOLEAN]
  /\ written \in 0..MaxEnvelopes

Init ==
  /\ contacts = << >>
  /\ send = [s \in Send |-> [pc |-> "idle", sealed |-> FALSE, key |-> NoKey]]
  /\ envelopes = << >> /\ handling = {}
  /\ reader = "reading"
  /\ theirs = [key |-> 1, session |-> FALSE]
  /\ written = 0

-----------------------------------------------------------------------------
(* Records.                                                                *)

RowsWith(rows, id) == {i \in DOMAIN rows : id \in rows[i].ids}
NewRow(ids) == [ids |-> ids, profileKey |-> FALSE, identity |-> NoKey,
                trusted |-> TRUE, session |-> NoKey]

\* resolveContactId creates the row that it does not find.
Resolved(rows, id) == IF RowsWith(rows, id) = {} THEN Append(rows, NewRow({id})) ELSE rows
ContactId(rows, id) == CHOOSE i \in RowsWith(rows, id) : TRUE
RowOf(rows, id) == Resolved(rows, id)[ContactId(Resolved(rows, id), id)]
Stored(rows, id, row) == [Resolved(rows, id) EXCEPT ![ContactId(Resolved(rows, id), id)] = row]

IsTrustedIdentity(row, key) == row.identity = NoKey \/ (row.identity = key /\ row.trusted)

\* The first key is trusted; of later ones, one that is seen twice.
SaveIdentity(row, key) ==
  [row EXCEPT !.identity = key, !.trusted = row.identity \in {NoKey, key}]

-----------------------------------------------------------------------------
(* Sending.                                                                *)

Progress(s, pc) == send' = [send EXCEPT ![s].pc = pc]

Request(s) ==
  /\ send[s].pc = "idle"
  /\ Progress(s, "resolve")
  /\ UNCHANGED <<contacts, envelopes, reader, handling, theirs, written>>

\* Without the contact's profile key the message is unsealed, or blocked.
GetUnidentifiedAccess(s) ==
  /\ send[s].pc = "resolve"
  /\ contacts' = Resolved(contacts, "phone")
  /\ LET sealed == RowOf(contacts, "phone").profileKey IN
     send' = [send EXCEPT ![s].sealed = sealed,
                          ![s].pc = IF ~sealed /\ BlockUnsealed THEN "done" ELSE "encrypt"]
  /\ UNCHANGED <<envelopes, reader, handling, theirs, written>>

Enqueue(type, hasProfileKey) ==
  /\ written < MaxEnvelopes
  /\ written' = written + 1
  /\ envelopes' = Append(envelopes, [n |-> written', type |-> type,
                                     key |-> theirs.key, profileKey |-> hasProfileKey])

\* libsignal's delivery to `id`: it starts a session unless it has one with the
\* contact's present device.  An unsealed message is answered by a receipt.
Deliver(id, sealed) ==
  LET row == RowOf(contacts, id) IN
  /\ IsTrustedIdentity(row, theirs.key)
  /\ contacts' = Stored(contacts, id, [SaveIdentity(row, theirs.key) EXCEPT !.session = theirs.key])
  /\ theirs' = [theirs EXCEPT !.session = TRUE]
  /\ IF sealed THEN UNCHANGED <<envelopes, written>> ELSE Enqueue("receipt", FALSE)

NotDelivered == UNCHANGED <<contacts, theirs, envelopes, written>>

SendMessage(s) ==
  /\ send[s].pc = "encrypt"
  /\ \/ Deliver("phone", send[s].sealed) /\ Progress(s, "done")
     \/ NotDelivered /\ Progress(s, "done")
     \/ /\ ~IsTrustedIdentity(RowOf(contacts, "phone"), theirs.key)
        /\ send' = [send EXCEPT ![s].pc = "save", ![s].key = theirs.key]
        /\ NotDelivered
  /\ UNCHANGED <<reader, handling>>

\* mutant: the sessions of the old key are kept
SaveFailedIdentityOnly(s) ==
  /\ send[s].pc = "save"
  /\ contacts' = Stored(contacts, "phone", SaveIdentity(RowOf(contacts, "phone"), send[s].key))
  /\ Progress(s, "done")
  /\ UNCHANGED <<envelopes, reader, handling, theirs, written>>

SaveFailedIdentity(s) ==
  /\ send[s].pc = "save"
  /\ LET row == RowOf(contacts, "phone") IN
     /\ contacts' = Stored(contacts, "phone", SaveIdentity(row, send[s].key))
     /\ Progress(s, IF row.identity = NoKey THEN "done" ELSE "archive")
  /\ UNCHANGED <<envelopes, reader, handling, theirs, written>>

ArchiveAllSessions(s) ==
  /\ send[s].pc = "archive"
  /\ contacts' = Stored(contacts, "phone", [RowOf(contacts, "phone") EXCEPT !.session = NoKey])
  /\ Progress(s, "done")
  /\ UNCHANGED <<envelopes, reader, handling, theirs, written>>

-----------------------------------------------------------------------------
(* Receiving: one envelope after the other, decrypted in the background.   *)

ReadReceipt ==
  /\ reader = "reading" /\ envelopes # << >> /\ Head(envelopes).type = "receipt"
  /\ envelopes' = Tail(envelopes)
  /\ LET byPhone == RowsWith(contacts, "phone")
         byUuid == RowsWith(contacts, "uuid")
     IN IF byPhone \cup byUuid = {} \/ (byPhone # {} /\ byUuid # {} /\ byPhone # byUuid)
        THEN reader' = "dead" /\ UNCHANGED contacts       \* no row, or a unique index
        ELSE /\ contacts' = [contacts EXCEPT ![CHOOSE i \in byPhone \cup byUuid : TRUE].ids = Identifier]
             /\ UNCHANGED reader
  /\ UNCHANGED <<send, handling, theirs, written>>

\* mutant: the contact is created without a look for it
ReadMessageUnchecked ==
  /\ reader = "reading" /\ envelopes # << >>
  /\ \/ Head(envelopes).type = "message" /\ reader' = "launch"
     \/ Head(envelopes).type = "bundle" /\ reader' = "create"
  /\ UNCHANGED <<contacts, send, envelopes, handling, theirs, written>>

ReadMessage ==
  /\ reader = "reading" /\ envelopes # << >>
  /\ \/ Head(envelopes).type = "message" /\ reader' = "launch"
     \/ /\ Head(envelopes).type = "bundle"
        /\ reader' = IF RowsWith(contacts, "uuid") = {} THEN "create" ELSE "launch"
  /\ UNCHANGED <<contacts, send, envelopes, handling, theirs, written>>

\* An insert that a unique index refuses ends the read loop.
CreateContact ==
  /\ reader = "create"
  /\ IF \E id \in Identifier : RowsWith(contacts, id) # {}
     THEN reader' = "dead" /\ UNCHANGED contacts
     ELSE reader' = "profile" /\ contacts' = Append(contacts, NewRow(Identifier))
  /\ UNCHANGED <<send, envelopes, handling, theirs, written>>

\* The result of sendProfileKey is not looked at.
SendProfileKey ==
  /\ reader = "profile"
  /\ reader' = "launch"
  /\ LET sealed == RowOf(contacts, "uuid").profileKey IN
     \/ (sealed \/ ~BlockUnsealed) /\ Deliver("uuid", sealed)
     \/ NotDelivered
  /\ UNCHANGED <<send, handling>>

\* processMessage goes on in a coroutine of its own.
Launch ==
  /\ reader = "launch"
  /\ handling' = handling \cup {[env |-> Head(envelopes), pc |-> "decrypt"]}
  /\ envelopes' = Tail(envelopes)
  /\ reader' = "reading"
  /\ UNCHANGED <<contacts, send, theirs, written>>

\* Decrypting looks the sender up by UUID, refuses a key that is not trusted,
\* and needs a session unless the message starts one.
Decrypt(h) ==
  /\ h \in handling /\ h.pc = "decrypt"
  /\ LET row == RowOf(contacts, "uuid")
         starts == h.env.type = "bundle"
         fails == \/ ~IsTrustedIdentity(row, h.env.key)
                  \/ ~starts /\ row.session # h.env.key
     IN /\ contacts' = Stored(contacts, "uuid",
             IF ~fails /\ starts
             THEN [SaveIdentity(row, h.env.key) EXCEPT !.session = h.env.key] ELSE row)
        /\ handling' = (handling \ {h}) \cup
             IF fails \/ ~h.env.profileKey THEN {} ELSE {[h EXCEPT !.pc = "profile"]}
  /\ UNCHANGED <<send, envelopes, reader, theirs, written>>

StoreProfileKey(h) ==
  /\ h \in handling /\ h.pc = "profile"
  /\ contacts' = Stored(contacts, "uuid", [RowOf(contacts, "uuid") EXCEPT !.profileKey = TRUE])
  /\ handling' = handling \ {h}
  /\ UNCHANGED <<send, envelopes, reader, theirs, written>>

-----------------------------------------------------------------------------
(* The contact.                                                            *)

\* It starts a session with a prekey message.
Write ==
  /\ \E hasProfileKey \in BOOLEAN :
       Enqueue(IF theirs.session THEN "message" ELSE "bundle", hasProfileKey)
  /\ UNCHANGED <<contacts, send, reader, handling, theirs>>

Reinstall ==
  /\ theirs.key < MaxKeys
  /\ theirs' = [key |-> theirs.key + 1, session |-> FALSE]
  /\ UNCHANGED <<contacts, send, envelopes, reader, handling, written>>

\* The contact wrote before signalc saw a receipt of our first message to it:
\* one record will have the phone number and another the UUID.
Crossed ==
  /\ \E i \in DOMAIN contacts : contacts[i].ids = {"phone"}
  /\ \/ reader \in {"create", "launch"} \/ handling # {}
     \/ envelopes # << >> /\ Head(envelopes).type # "receipt"

Next ==
  /\ Crossing \/ ~Crossed
  /\ \/ \E s \in Send :
          \/ Request(s) \/ GetUnidentifiedAccess(s) \/ SendMessage(s)
          \/ SaveFailedIdentity(s) \/ ArchiveAllSessions(s)
     \/ ReadReceipt \/ ReadMessage \/ CreateContact \/ SendProfileKey \/ Launch
     \/ \E h \in handling : Decrypt(h) \/ StoreProfileKey(h)
     \/ Write \/ Reinstall

Spec == Init /\ [][Next]_vars

-----------------------------------------------------------------------------
(* Properties.                                                             *)

\* The contact's phone number and UUID never belong to two records, and no
\* receipt or prekey bundle of it ends the account's read loop: "so we can
\* resolve either UUID or phone number to the same contact id".
OneContact == Len(contacts) <= 1 /\ reader # "dead"

\* A session is with the device whose key is on record: one that a changed key
\* has made obsolete is archived before the failed send is answered.
SessionsCurrent ==
  (\A s \in Send : send[s].pc # "archive") =>
    \A i \in DOMAIN contacts : contacts[i].session \in {NoKey, contacts[i].identity}
=============================================================================
