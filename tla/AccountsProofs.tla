---------------------------- MODULE AccountsProofs ----------------------------
(***************************************************************************)
(* What Accounts promises for every set of handlers and messages, every    *)
(* size of a batch and of the reserve, every range of key ids, and any     *)
(* number of restarts.                                                     *)
(***************************************************************************)
EXTENDS Accounts, FiniteSetTheorems, WellFoundedInduction, NaturalsInduction, TLAPS

Operations == {"none", "register", "verify", "bundle"}
Statuses == {None, "NEW", "REGISTERED", "VERIFIED"}
Offsets == 0..(MaxKeyId + 1)
Batches == 1..MaxBatches \cup {None}
SignedIds == Nat \cup {None}

Steps == {"idle", "find", "create", "loaded", "saveRegistered", "saveVerified",
          "createContact", "count", "readLast", "readSigned", "storeSigned",
          "storeKeys", "publish"}

CallRecord ==
  [op: Operations, pc: Steps, account: Statuses, msg: Message \cup {None},
   offset: Offsets, batch: Batches, signedId: SignedIds]

Server == [code: BOOLEAN, keys: SUBSET Key, signed: Key \cup {None}]
MessageRecord == [state: {"unsent", "sent", "handled", "gone"},
                  key: Key \cup {None}, signed: Key \cup {None}]

Types ==
  /\ status \in {"none", "NEW", "REGISTERED", "VERIFIED"}
  /\ ownContact \in BOOLEAN
  /\ preKeys \subseteq Key /\ signedKeys \subseteq Key
  /\ server \in Server
  /\ msg \in [Message -> MessageRecord]
  /\ call \in [Call -> CallRecord]
  /\ announced \in BOOLEAN /\ interrupted \in BOOLEAN
  /\ batches \in 0..MaxBatches /\ crashes \in 0..MaxCrashes

Refreshing == {"readSigned", "storeSigned", "storeKeys", "publish"}
Storing == {"storeSigned", "storeKeys", "publish"}
Verifying == {"saveVerified", "createContact"} \cup Refreshing

\* The ids of keys stay within what their generators reach.
IdsBounded ==
  /\ \A k \in preKeys : k.id < MaxKeyId
  /\ \A k \in signedKeys : k.id <= batches
  /\ \A c \in Call : call[c].pc \in Storing =>
       call[c].batch \in 1..batches /\ call[c].signedId \in 1..batches

\* A handler at a step is about the request that leads there.
CallOK(k) ==
  /\ k.pc = "idle" => k.op = "none" /\ k.account = None
  /\ k.pc \in {"find", "create", "loaded"} => k.op \in {"register", "verify"}
  /\ k.pc \in {"create", "saveRegistered"} => k.account = "NEW"
  /\ k.pc = "saveRegistered" => k.op = "register"
  /\ k.pc \in {"saveVerified", "createContact"} => k.op = "verify"
  /\ k.pc \in {"count", "readLast"} => k.op = "bundle"
  /\ k.pc \in Refreshing => k.op \in {"verify", "bundle"}
  /\ k.pc \in Verifying /\ k.op = "verify" => k.account = "REGISTERED"
  /\ k.op = "bundle" => k.msg \in Message /\ k.pc \in {"count", "readLast"} \cup Refreshing
  /\ k.op # "bundle" => k.msg = None

CallsOK == \A c \in Call : CallOK(call[c])

\* The registration under way, which loaded a new account or makes one.
Registers(c) ==
  /\ call[c].op = "register"
  /\ call[c].pc \in {"create", "loaded", "saveRegistered"}
  /\ call[c].account = "NEW"

\* Why a verified account stays so: while a registration may still save its
\* account nobody has seen it registered.
RegistersOK ==
  /\ \A c, d \in Call : call[c].op = "register" /\ call[d].op = "register" => c = d
  /\ \A c \in Call : Registers(c) => status \in {"none", "NEW"}
  /\ \A c \in Call : call[c].account \in {"REGISTERED", "VERIFIED"} =>
       status \in {"REGISTERED", "VERIFIED"}

Publishes(c) == call[c].op = "verify" /\ call[c].pc \in {"createContact"} \cup Refreshing

\* Why a verified account has prekeys: who is to publish them is under way.
ReachableInv ==
  /\ announced => server.signed # None
  /\ status = "VERIFIED" /\ ~interrupted /\ server.signed = None =>
       \E c \in Call : Publishes(c)

Verifies(c) == call[c].op = "verify" /\ call[c].pc \in Verifying

\* Why one handler at a time makes prekeys: the code is used up once, before any
\* prekeys are published, without which no contact writes.
VerifiersOK ==
  /\ \A c, d \in Call : Verifies(c) /\ Verifies(d) => c = d
  /\ \A c \in Call : Verifies(c) => ~server.code /\ server.signed = None
  /\ server.signed # None => ~server.code /\ status \in {"REGISTERED", "VERIFIED"}
  /\ \A c \in Call : call[c].op = "bundle" => server.signed # None
  /\ \A m \in Message : msg[m].state # "unsent" => server.signed # None

\* One bundle is handled at a time, and its message is neither decrypted nor lost
\* meanwhile.
OneBundle ==
  /\ \A c, d \in Call : call[c].op = "bundle" /\ call[d].op = "bundle" => c = d
  /\ \A c \in Call : call[c].op = "bundle" => msg[call[c].msg].state = "sent"

Making(c) == call[c].pc \in Storing

\* Why every key that is out is held: no key is given to two contacts, the
\* batches of keys that are out are not those being made, whose ids are free and
\* whose rows are there before they are published.
HeldInv ==
  /\ PublishedHeld
  /\ \A k \in server.keys : k.batch <= batches
  /\ \A m \in Outstanding : msg[m].key # None =>
       /\ msg[m].key.batch <= batches
       /\ msg[m].key \notin server.keys
       /\ \A n \in Outstanding : n # m => msg[n].key # msg[m].key
  /\ \A c \in Call : Making(c) =>
       /\ \A k \in server.keys : k.batch # call[c].batch
       /\ \A m \in Outstanding : msg[m].key # None => msg[m].key.batch # call[c].batch
       /\ call[c].pc = "storeSigned" => \A k \in signedKeys : k.id # call[c].signedId
       /\ call[c].pc # "storeSigned" => SignedKeyOf(c) \in signedKeys
       /\ call[c].pc = "publish" => GenPreKeys(c) \subseteq preKeys

-----------------------------------------------------------------------------
(* Ids. *)

\* A set of natural numbers with a bound, together with 0, has a greatest one,
\* and that is what LastId returns for the ids of the set's keys.
LEMMA LastIdIsGreatest ==
  ASSUME NEW rows \in SUBSET Key, NEW B \in Nat, \A k \in rows : k.id <= B
  PROVE  /\ LastId(rows) \in 0..B
         /\ \A k \in rows : k.id <= LastId(rows)
<1> DEFINE ids == {k.id : k \in rows} \cup {0}
           bounds == {n \in Nat : \A i \in ids : i <= n}
<1>1. ids \subseteq 0..B
  BY DEF Key
<1>2. B \in bounds
  BY <1>1
<1>3. PICK b \in bounds : \A n \in bounds : <<n, b>> \notin OpToRel(<, Nat)
  BY <1>2, WFMin, NatLessThanWellFounded, Zenon
<1>4. \A n \in bounds : ~(n < b)
  BY <1>3, Zenon DEF OpToRel
<1>5. b \in ids
  <2>1. CASE b = 0
    BY <2>1
  <2>2. CASE b # 0
    <3>1. b - 1 \in Nat /\ b - 1 < b
      BY <2>2
    <3>2. b - 1 \notin bounds
      BY <3>1, <1>4
    <3>3. PICK i \in ids : ~(i <= b - 1)
      BY <3>1, <3>2
    <3>4. i \in Nat /\ b \in Nat /\ i <= b
      BY <1>1
    <3>5. i = b
      BY <3>3, <3>4
    <3> QED
      BY <3>5
  <2> QED
    BY <2>1, <2>2
<1>6. \A i \in ids : b >= i
  BY <1>1
<1> HIDE DEF ids
<1>7. Max(ids) \in ids /\ \A i \in ids : Max(ids) >= i
  BY <1>5, <1>6, Zenon DEF Max
<1>8. LastId(rows) = Max(ids)
  BY DEF LastId, ids
<1>9. \A k \in rows : k.id \in ids
  BY DEF ids
<1>10. Max(ids) \in 0..B
  BY <1>1, <1>7
<1>11. \A i \in ids : i <= Max(ids)
  BY <1>1, <1>7, <1>10
<1> QED
  BY <1>8, <1>9, <1>10, <1>11

-----------------------------------------------------------------------------
(* Types. *)

\* The initial state has the right types.
LEMMA TypesInit == Init => Types /\ IdsBounded
<1> SUFFICES ASSUME Init PROVE Types /\ IdsBounded
  OBVIOUS
<1>1. Idle \in CallRecord
  BY ConstantsAssumption
  DEF CallRecord, Operations, Steps, Statuses, Offsets, Batches, SignedIds, Idle
<1>2. call \in [Call -> CallRecord]
  BY <1>1 DEF Init
<1>3. server \in Server /\ msg \in [Message -> MessageRecord]
  BY DEF Init, Server, MessageRecord
<1>4. IdsBounded
  BY DEF Init, IdsBounded, Idle, Storing
<1>5. /\ preKeys \subseteq Key /\ signedKeys \subseteq Key
      /\ batches \in 0..MaxBatches /\ crashes \in 0..MaxCrashes
  BY ConstantsAssumption DEF Init
<1> QED
  BY <1>2, <1>3, <1>4, <1>5 DEF Init, Types

\* The keys that a handler generated are keys.
LEMMA GeneratedKeys ==
  ASSUME Types, IdsBounded, NEW c \in Call, call[c].pc \in Storing
  PROVE  /\ SignedKeyOf(c) \in Key /\ SignedKeyOf(c) # None
         /\ SignedKeyOf(c).id = call[c].signedId /\ SignedKeyOf(c).id <= batches
         /\ SignedKeyOf(c).batch = call[c].batch
         /\ GenPreKeys(c) \subseteq Key
         /\ \A k \in GenPreKeys(c) : k.id < MaxKeyId /\ k.batch = call[c].batch
<1>1. /\ call[c].batch \in 1..MaxBatches /\ call[c].signedId \in Nat
      /\ call[c].signedId <= batches /\ call[c].offset \in Nat
  BY ConstantsAssumption DEF Types, IdsBounded, CallRecord, Offsets
<1>2. /\ SignedKeyOf(c) \in Key /\ SignedKeyOf(c).id = call[c].signedId
      /\ SignedKeyOf(c).batch = call[c].batch
  BY <1>1 DEF SignedKeyOf, Key
<1>3. \A n \in Nat : n % MaxKeyId \in Nat /\ n % MaxKeyId < MaxKeyId
  BY ConstantsAssumption
<1>4. \A i \in 0..(BatchSize - 1) : call[c].offset + i \in Nat
  BY <1>1, ConstantsAssumption
<1>5. ASSUME NEW k \in GenPreKeys(c)
      PROVE  k \in Key /\ k.id < MaxKeyId /\ k.batch = call[c].batch
  BY <1>1, <1>3, <1>4, <1>5 DEF GenPreKeys, Key
<1> QED
  BY <1>1, <1>2, <1>5, NoneAssumption

\* The ids that a handler of prekeys starts from.
LEMMA LastIds ==
  ASSUME Types, IdsBounded
  PROVE  /\ LastId(preKeys) + 1 \in 0..(MaxKeyId + 1)
         /\ LastId(signedKeys) + 1 \in 1..(batches + 1)
         /\ \A k \in signedKeys : k.id < LastId(signedKeys) + 1
<1>1. LastId(preKeys) \in 0..MaxKeyId
  BY LastIdIsGreatest, ConstantsAssumption DEF Types, IdsBounded, Key
<1>2. /\ LastId(signedKeys) \in 0..batches
      /\ \A k \in signedKeys : k.id <= LastId(signedKeys)
  BY LastIdIsGreatest, ConstantsAssumption DEF Types, IdsBounded, Key
<1> QED
  BY <1>1, <1>2, ConstantsAssumption DEF Types, Key

\* What a handler assigns leaves its record a record.
LEMMA RecordUpdates ==
  ASSUME NEW k \in CallRecord, NEW pc \in Steps
  PROVE  /\ Idle \in CallRecord
         /\ [k EXCEPT !.pc = pc] \in CallRecord
         /\ \A a \in Statuses : [k EXCEPT !.pc = pc, !.account = a] \in CallRecord
         /\ \A b \in Batches, i \in SignedIds :
              [k EXCEPT !.pc = pc, !.batch = b, !.signedId = i] \in CallRecord
         /\ \A o \in Offsets : [k EXCEPT !.pc = pc, !.offset = o] \in CallRecord
         /\ \A op \in Operations : [Idle EXCEPT !.op = op, !.pc = pc] \in CallRecord
         /\ \A op \in Operations, m \in Message :
              [Idle EXCEPT !.op = op, !.pc = pc, !.msg = m] \in CallRecord
<1>1. Idle \in CallRecord
  BY ConstantsAssumption
  DEF CallRecord, Operations, Steps, Statuses, Offsets, Batches, SignedIds, Idle
<1>2. [k EXCEPT !.pc = pc] \in CallRecord
  BY DEF CallRecord
<1>3. ASSUME NEW a \in Statuses PROVE [k EXCEPT !.pc = pc, !.account = a] \in CallRecord
  BY DEF CallRecord
<1>4. ASSUME NEW b \in Batches, NEW i \in SignedIds
      PROVE  [k EXCEPT !.pc = pc, !.batch = b, !.signedId = i] \in CallRecord
  BY DEF CallRecord
<1>5. ASSUME NEW o \in Offsets PROVE [k EXCEPT !.pc = pc, !.offset = o] \in CallRecord
  BY DEF CallRecord
<1>6. ASSUME NEW op \in Operations PROVE [Idle EXCEPT !.op = op, !.pc = pc] \in CallRecord
  BY <1>1 DEF CallRecord
<1>7. ASSUME NEW op \in Operations, NEW m \in Message
      PROVE  [Idle EXCEPT !.op = op, !.pc = pc, !.msg = m] \in CallRecord
  BY <1>1 DEF CallRecord
<1> QED
  BY <1>1, <1>2, <1>3, <1>4, <1>5, <1>6, <1>7

\* A step of a handler changes its own record only, and to one of these.
LEMMA StepsOfCall ==
  ASSUME Types, NEW c \in Call
  PROVE  /\ call[c] \in CallRecord
         /\ \A r \in CallRecord : [call EXCEPT ![c] = r] \in [Call -> CallRecord]
         /\ \A pc \in Steps : Step(c, pc) => call' \in [Call -> CallRecord]
         /\ Finish(c) => call' \in [Call -> CallRecord]
<1>1. call \in [Call -> CallRecord] /\ call[c] \in CallRecord
  BY DEF Types
<1>2. ASSUME NEW r \in CallRecord PROVE [call EXCEPT ![c] = r] \in [Call -> CallRecord]
  BY <1>1
<1>3. ASSUME NEW pc \in Steps, Step(c, pc) PROVE call' \in [Call -> CallRecord]
  <2>1. [call[c] EXCEPT !.pc = pc] \in CallRecord
    BY <1>1, RecordUpdates
  <2> QED
    BY <1>2, <1>3, <2>1 DEF Step
<1>4. Finish(c) => call' \in [Call -> CallRecord]
  <2>1. Idle \in CallRecord
    BY <1>1, RecordUpdates DEF Steps
  <2> QED
    BY <1>2, <2>1 DEF Finish
<1> QED
  BY <1>1, <1>2, <1>3, <1>4

\* Handlers' records stay records.
LEMMA CallsNext ==
  ASSUME Types, IdsBounded, [Next]_vars
  PROVE  call' \in [Call -> CallRecord]
<1>1. ASSUME NEW c \in Call, NEW op \in {"register", "verify"}, Receive(c, op)
      PROVE  call' \in [Call -> CallRecord]
  <2>1. [Idle EXCEPT !.op = op, !.pc = "find"] \in CallRecord
    BY RecordUpdates, StepsOfCall DEF Steps, Operations
  <2> QED
    BY <1>1, <2>1, StepsOfCall DEF Receive
<1>2. ASSUME NEW c \in Call, FindByUsername(c) PROVE call' \in [Call -> CallRecord]
  <2>1. PICK pc \in Steps, a \in Statuses :
          call' = [call EXCEPT ![c].pc = pc, ![c].account = a]
    BY <1>2 DEF FindByUsername, Types, Steps, Statuses
  <2>2. [call[c] EXCEPT !.pc = pc, !.account = a] \in CallRecord
    BY RecordUpdates, StepsOfCall
  <2> QED
    BY <2>1, <2>2, StepsOfCall
<1>3. ASSUME NEW c \in Call, CreateAccount(c) PROVE call' \in [Call -> CallRecord]
  BY <1>3, StepsOfCall DEF Steps, CreateAccount
<1>4. ASSUME NEW c \in Call, Reject(c) PROVE call' \in [Call -> CallRecord]
  BY <1>4, StepsOfCall DEF Steps, Reject
<1>5. ASSUME NEW c \in Call, RequestSmsCode(c) PROVE call' \in [Call -> CallRecord]
  BY <1>5, StepsOfCall DEF Steps, RequestSmsCode
<1>6. ASSUME NEW c \in Call, SaveRegistered(c) PROVE call' \in [Call -> CallRecord]
  BY <1>6, StepsOfCall DEF Steps, SaveRegistered
<1>7. ASSUME NEW c \in Call, VerifyCode(c) PROVE call' \in [Call -> CallRecord]
  BY <1>7, StepsOfCall DEF Steps, VerifyCode
<1>8. ASSUME NEW c \in Call, SaveVerified(c) PROVE call' \in [Call -> CallRecord]
  BY <1>8, StepsOfCall DEF Steps, SaveVerified
<1>9. ASSUME NEW c \in Call, CreateOwnContact(c) PROVE call' \in [Call -> CallRecord]
  BY <1>9, StepsOfCall DEF Steps, CreateOwnContact
<1>10. ASSUME NEW c \in Call, GenSignedPreKey(c) PROVE call' \in [Call -> CallRecord]
  <2> DEFINE id == LastId(signedKeys) + 1
  <2>1. batches' \in Batches /\ id \in SignedIds
    BY <1>10, LastIds, ConstantsAssumption DEF GenSignedPreKey, Types, Batches, SignedIds
  <2> HIDE DEF id
  <2>2. [call[c] EXCEPT !.pc = "storeSigned", !.batch = batches', !.signedId = id]
          \in CallRecord
    BY <2>1, RecordUpdates, StepsOfCall DEF Steps
  <2> QED
    BY <1>10, <2>2, StepsOfCall DEF GenSignedPreKey, id
<1>11. ASSUME NEW c \in Call, StoreSignedPreKey(c) PROVE call' \in [Call -> CallRecord]
  BY <1>11, StepsOfCall DEF Steps, StoreSignedPreKey
<1>12. ASSUME NEW c \in Call, StorePreKeys(c) PROVE call' \in [Call -> CallRecord]
  BY <1>12, StepsOfCall DEF Steps, Throw, StorePreKeys
<1>13. ASSUME NEW c \in Call, SetPreKeys(c) PROVE call' \in [Call -> CallRecord]
  BY <1>13, StepsOfCall DEF Steps, Throw, SetPreKeys
<1>14. ASSUME NEW c \in Call, NEW m \in Message, ReadPreKeyBundle(c, m)
       PROVE  call' \in [Call -> CallRecord]
  <2>1. [Idle EXCEPT !.op = "bundle", !.pc = "count", !.msg = m] \in CallRecord
    BY RecordUpdates, StepsOfCall DEF Steps, Operations
  <2> QED
    BY <1>14, <2>1, StepsOfCall DEF ReadPreKeyBundle
<1>15. ASSUME NEW c \in Call, CountPreKeys(c) PROVE call' \in [Call -> CallRecord]
  BY <1>15, StepsOfCall DEF Steps, CountPreKeys
<1>16. ASSUME NEW c \in Call, GetLastPreKeyId(c) PROVE call' \in [Call -> CallRecord]
  <2> DEFINE next == LastId(preKeys) + 1
  <2>1. next \in Offsets
    BY LastIds DEF Offsets
  <2> HIDE DEF next
  <2>2. [call[c] EXCEPT !.pc = "readSigned", !.offset = next] \in CallRecord
    BY <2>1, RecordUpdates, StepsOfCall DEF Steps
  <2> QED
    BY <1>16, <2>2, StepsOfCall DEF GetLastPreKeyId, next
<1>17. ASSUME NEW m \in Message, WriteFirstMessage(m) PROVE call' \in [Call -> CallRecord]
  BY <1>17 DEF Types, WriteFirstMessage
<1>18. ASSUME NEW m \in Message, Decrypt(m) PROVE call' \in [Call -> CallRecord]
  BY <1>18 DEF Types, Decrypt
<1>19. CASE Crash
  <2>1. Idle \in CallRecord
    BY ConstantsAssumption
    DEF CallRecord, Operations, Steps, Statuses, Offsets, Batches, SignedIds, Idle
  <2> QED
    BY <1>19, <2>1 DEF Crash
<1>20. CASE UNCHANGED vars
  BY <1>20 DEF Types, vars
<1> QED
  BY <1>1, <1>2, <1>3, <1>4, <1>5, <1>6, <1>7, <1>8, <1>9, <1>10, <1>11,
     <1>12, <1>13, <1>14, <1>15, <1>16, <1>17, <1>18, <1>19, <1>20
  DEF Next, Handle

\* What happens to a message leaves its record a record.
LEMMA MessageUpdates ==
  ASSUME Types, NEW m, NEW state \in {"unsent", "sent", "handled", "gone"}
  PROVE  [msg EXCEPT ![m].state = state] \in [Message -> MessageRecord]
<1>1. msg \in [Message -> MessageRecord]
  BY DEF Types
<1>2. ASSUME NEW r \in MessageRecord PROVE [r EXCEPT !.state = state] \in MessageRecord
  BY DEF MessageRecord
<1>3. m \in Message => [msg[m] EXCEPT !.state = state] \in MessageRecord
  BY <1>1, <1>2
<1> HIDE DEF MessageRecord
<1> QED
  BY <1>1, <1>3

\* An exception leaves every variable but its own as it is.
LEMMA ThrowTypes ==
  ASSUME Types, NEW c \in Call, Throw(c)
  PROVE  msg' \in [Message -> MessageRecord] /\ interrupted' \in BOOLEAN
  BY MessageUpdates DEF Throw, Types

\* What happens to the server leaves it a record.
LEMMA ServerUpdates ==
  ASSUME Types
  PROVE  /\ \A b \in BOOLEAN : [server EXCEPT !.code = b] \in Server
         /\ \A k : [server EXCEPT !.keys = @ \ {k}] \in Server
         /\ \A ks \in SUBSET Key, k \in Key :
              [server EXCEPT !.keys = ks, !.signed = k] \in Server
  BY DEF Types, Server

\* Every step keeps the types.
LEMMA TypesNext ==
  ASSUME Types, IdsBounded, [Next]_vars
  PROVE  Types'
<1>c. call' \in [Call -> CallRecord]
  BY CallsNext
<1>1. ASSUME NEW c \in Call, NEW op \in {"register", "verify"}, Receive(c, op) PROVE Types'
  BY <1>1, <1>c DEF Types, tables, counters, Receive
<1>2. ASSUME NEW c \in Call, FindByUsername(c) PROVE Types'
  BY <1>2, <1>c DEF Types, tables, counters, FindByUsername
<1>3. ASSUME NEW c \in Call, CreateAccount(c) PROVE Types'
  BY <1>3, <1>c DEF Types, tables, counters, CreateAccount
<1>4. ASSUME NEW c \in Call, Reject(c) PROVE Types'
  BY <1>4, <1>c DEF Types, tables, counters, Reject
<1>5. ASSUME NEW c \in Call, RequestSmsCode(c) PROVE Types'
  BY <1>5, <1>c, ServerUpdates DEF Types, tables, counters, RequestSmsCode
<1>6. ASSUME NEW c \in Call, SaveRegistered(c) PROVE Types'
  BY <1>6, <1>c DEF Types, tables, counters, SaveRegistered
<1>7. ASSUME NEW c \in Call, VerifyCode(c) PROVE Types'
  BY <1>7, <1>c, ServerUpdates DEF Types, tables, counters, VerifyCode
<1>8. ASSUME NEW c \in Call, SaveVerified(c) PROVE Types'
  BY <1>8, <1>c DEF Types, tables, counters, SaveVerified
<1>9. ASSUME NEW c \in Call, CreateOwnContact(c) PROVE Types'
  BY <1>9, <1>c DEF Types, tables, counters, CreateOwnContact
<1>10. ASSUME NEW c \in Call, GenSignedPreKey(c) PROVE Types'
  BY <1>10, <1>c, ConstantsAssumption DEF Types, tables, GenSignedPreKey
<1>11. ASSUME NEW c \in Call, StoreSignedPreKey(c) PROVE Types'
  <2>1. SignedKeyOf(c) \in Key
    BY <1>11, GeneratedKeys DEF StoreSignedPreKey, At, Storing
  <2> QED
    BY <1>11, <1>c, <2>1 DEF Types, counters, StoreSignedPreKey
<1>12. ASSUME NEW c \in Call, StorePreKeys(c) PROVE Types'
  <2>1. GenPreKeys(c) \subseteq Key
    BY <1>12, GeneratedKeys DEF StorePreKeys, At, Storing
  <2> QED
    BY <1>12, <1>c, <2>1, ThrowTypes DEF Types, StorePreKeys
<1>13. ASSUME NEW c \in Call, SetPreKeys(c) PROVE Types'
  <2>1. SignedKeyOf(c) \in Key /\ GenPreKeys(c) \subseteq Key
    BY <1>13, GeneratedKeys DEF SetPreKeys, At, Storing
  <2>2. [server EXCEPT !.keys = GenPreKeys(c), !.signed = SignedKeyOf(c)] \in Server
    BY <2>1, ServerUpdates
  <2>3. [msg EXCEPT ![call[c].msg].state = "handled"] \in [Message -> MessageRecord]
    BY MessageUpdates
  <2>4. server' \in Server /\ announced' \in BOOLEAN
    BY <1>13, <2>2 DEF Types, SetPreKeys
  <2>5. msg' \in [Message -> MessageRecord] /\ interrupted' \in BOOLEAN
    BY <1>13, <2>3, ThrowTypes DEF Types, SetPreKeys
  <2> QED
    BY <1>13, <1>c, <2>4, <2>5 DEF Types, tables, SetPreKeys
<1>14. ASSUME NEW c \in Call, NEW m \in Message, ReadPreKeyBundle(c, m) PROVE Types'
  BY <1>14, <1>c DEF Types, tables, counters, ReadPreKeyBundle
<1>15. ASSUME NEW c \in Call, CountPreKeys(c) PROVE Types'
  <2>1. [msg EXCEPT ![call[c].msg].state = "handled"] \in [Message -> MessageRecord]
    BY MessageUpdates
  <2> QED
    BY <1>15, <1>c, <2>1 DEF Types, tables, counters, CountPreKeys
<1>16. ASSUME NEW c \in Call, GetLastPreKeyId(c) PROVE Types'
  BY <1>16, <1>c DEF Types, tables, counters, GetLastPreKeyId
<1>17. ASSUME NEW m \in Message, WriteFirstMessage(m) PROVE Types'
  <2>1. PICK k \in Key \cup {None} :
          /\ msg' = [msg EXCEPT ![m] = [state |-> "sent", key |-> k, signed |-> server.signed]]
          /\ server' = [server EXCEPT !.keys = server.keys \ {k}]
    BY <1>17 DEF WriteFirstMessage, Types, Server
  <2>2. [state |-> "sent", key |-> k, signed |-> server.signed] \in MessageRecord
    BY DEF Types, Server, MessageRecord
  <2> QED
    BY <1>17, <1>c, <2>1, <2>2, ServerUpdates DEF Types, tables, counters, WriteFirstMessage
<1>18. ASSUME NEW m \in Message, Decrypt(m) PROVE Types'
  BY <1>18, <1>c, MessageUpdates DEF Types, counters, Decrypt
<1>19. CASE Crash
  <2>1. \A m \in Message : [msg[m] EXCEPT !.state = "gone"] \in MessageRecord
    BY DEF Types, MessageRecord
  <2>2. msg' \in [Message -> MessageRecord]
    BY <1>19, <2>1 DEF Types, Crash
  <2> QED
    BY <1>19, <1>c, <2>2, ConstantsAssumption DEF Types, tables, Crash
<1>20. CASE UNCHANGED vars
  BY <1>20, <1>c DEF Types, tables, counters, vars
<1> QED
  BY <1>1, <1>2, <1>3, <1>4, <1>5, <1>6, <1>7, <1>8, <1>9, <1>10, <1>11,
     <1>12, <1>13, <1>14, <1>15, <1>16, <1>17, <1>18, <1>19, <1>20
  DEF Next, Handle

-----------------------------------------------------------------------------
(* Handlers. *)

\* What is left of other handlers, and of the handler's own fields.
LEMMA StepEffects ==
  ASSUME Types, NEW c \in Call
  PROVE  /\ \A pc : Step(c, pc) => \A d \in Call :
              /\ call'[d].pc = IF d = c THEN pc ELSE call[d].pc
              /\ call'[d].op = call[d].op /\ call'[d].account = call[d].account
              /\ call'[d].msg = call[d].msg /\ call'[d].offset = call[d].offset
              /\ call'[d].batch = call[d].batch /\ call'[d].signedId = call[d].signedId
              /\ d # c => call'[d] = call[d]
         /\ Finish(c) => \A d \in Call :
              /\ call'[d] = IF d = c THEN Idle ELSE call[d]
              /\ call'[d].pc = IF d = c THEN "idle" ELSE call[d].pc
              /\ call'[d].op = IF d = c THEN "none" ELSE call[d].op
              /\ call'[d].account = IF d = c THEN None ELSE call[d].account
              /\ call'[d].msg = IF d = c THEN None ELSE call[d].msg
<1>1. call \in [Call -> CallRecord] /\ call[c] \in CallRecord
  BY DEF Types
<1>2. ASSUME NEW pc, Step(c, pc), NEW d \in Call
      PROVE  /\ call'[d].pc = IF d = c THEN pc ELSE call[d].pc
             /\ call'[d].op = call[d].op /\ call'[d].account = call[d].account
             /\ call'[d].msg = call[d].msg /\ call'[d].offset = call[d].offset
             /\ call'[d].batch = call[d].batch /\ call'[d].signedId = call[d].signedId
             /\ d # c => call'[d] = call[d]
  BY <1>1, <1>2 DEF Step, CallRecord
<1>3. ASSUME Finish(c), NEW d \in Call
      PROVE  call'[d] = IF d = c THEN Idle ELSE call[d]
  BY <1>1, <1>3 DEF Finish
<1> QED
  BY <1>2, <1>3 DEF Idle

\* A request starts with an empty record.
LEMMA ReceiveEffects ==
  ASSUME Types, NEW c \in Call, NEW op \in {"register", "verify"}, Receive(c, op),
         NEW d \in Call
  PROVE  /\ call[c].pc = "idle"
         /\ call'[d].op = IF d = c THEN op ELSE call[d].op
         /\ call'[d].pc = IF d = c THEN "find" ELSE call[d].pc
         /\ call'[d].account = IF d = c THEN None ELSE call[d].account
         /\ call'[d].msg = IF d = c THEN None ELSE call[d].msg
         /\ d # c => call'[d] = call[d]
<1>1. call \in [Call -> CallRecord] /\ call[c] \in CallRecord
  BY DEF Types
<1>2. call'[d] = IF d = c THEN [Idle EXCEPT !.op = op, !.pc = "find"] ELSE call[d]
  BY <1>1 DEF Receive
<1>3. call[c].pc = "idle"
  BY DEF Receive, At
<1> QED
  BY <1>1, <1>2, <1>3 DEF CallRecord, Idle

\* So does a bundle.
LEMMA BundleEffects ==
  ASSUME Types, NEW c \in Call, NEW m \in Message, ReadPreKeyBundle(c, m),
         NEW d \in Call
  PROVE  /\ call[c].pc = "idle"
         /\ call'[d].op = IF d = c THEN "bundle" ELSE call[d].op
         /\ call'[d].pc = IF d = c THEN "count" ELSE call[d].pc
         /\ call'[d].account = IF d = c THEN None ELSE call[d].account
         /\ call'[d].msg = IF d = c THEN m ELSE call[d].msg
         /\ d # c => call'[d] = call[d]
<1>1. call \in [Call -> CallRecord] /\ call[c] \in CallRecord
  BY DEF Types
<1>2. call'[d] = IF d = c THEN 
        [Idle EXCEPT !.op = "bundle", !.pc = "count", !.msg = m] ELSE call[d]
  BY <1>1 DEF ReadPreKeyBundle
<1>3. call[c].pc = "idle"
  BY DEF ReadPreKeyBundle, At
<1> QED
  BY <1>1, <1>2, <1>3 DEF CallRecord, Idle

\* A handler loads the account's status.
LEMMA FindEffects ==
  ASSUME Types, NEW c \in Call, FindByUsername(c), NEW d \in Call
  PROVE  /\ call[c].pc = "find"
         /\ call'[d].pc = IF d = c THEN (IF status = "none" THEN "create" ELSE "loaded") ELSE call[d].pc
         /\ call'[d].account = IF d = c THEN (IF status = "none" THEN "NEW" ELSE status) ELSE call[d].account
         /\ call'[d].op = call[d].op /\ call'[d].msg = call[d].msg
         /\ call'[d].offset = call[d].offset /\ call'[d].batch = call[d].batch
         /\ call'[d].signedId = call[d].signedId
         /\ d # c => call'[d] = call[d]
<1>1. call \in [Call -> CallRecord] /\ call[c] \in CallRecord
  BY DEF Types
<1>2. call'[d] = IF d = c THEN 
        [call[c] EXCEPT !.pc = IF status = "none" THEN "create" ELSE "loaded",
                        !.account = IF status = "none" THEN "NEW" ELSE status] ELSE call[d]
  BY <1>1 DEF FindByUsername
<1>3. call[c].pc = "find"
  BY DEF FindByUsername, At
<1> QED
  BY <1>1, <1>2, <1>3 DEF CallRecord, Idle

\* A handler takes a batch and an id of a signed prekey.
LEMMA GenerateEffects ==
  ASSUME Types, NEW c \in Call, GenSignedPreKey(c), NEW d \in Call
  PROVE  /\ call[c].pc = "readSigned"
         /\ call'[d].pc = IF d = c THEN "storeSigned" ELSE call[d].pc
         /\ call'[d].batch = IF d = c THEN batches' ELSE call[d].batch
         /\ call'[d].signedId = IF d = c THEN LastId(signedKeys) + 1 ELSE call[d].signedId
         /\ call'[d].op = call[d].op /\ call'[d].account = call[d].account
         /\ call'[d].msg = call[d].msg /\ call'[d].offset = call[d].offset
         /\ d # c => call'[d] = call[d]
<1>1. call \in [Call -> CallRecord] /\ call[c] \in CallRecord
  BY DEF Types
<1>2. call'[d] = IF d = c THEN 
        [call[c] EXCEPT !.pc = "storeSigned", !.batch = batches',
                        !.signedId = LastId(signedKeys) + 1] ELSE call[d]
  BY <1>1 DEF GenSignedPreKey
<1>3. call[c].pc = "readSigned"
  BY DEF GenSignedPreKey, At
<1> QED
  BY <1>1, <1>2, <1>3 DEF CallRecord, Idle

\* A handler takes the ids of one-time prekeys.
LEMMA OffsetEffects ==
  ASSUME Types, NEW c \in Call, GetLastPreKeyId(c), NEW d \in Call
  PROVE  /\ call[c].pc = "readLast"
         /\ call'[d].pc = IF d = c THEN "readSigned" ELSE call[d].pc
         /\ call'[d].offset = IF d = c THEN LastId(preKeys) + 1 ELSE call[d].offset
         /\ call'[d].op = call[d].op /\ call'[d].account = call[d].account
         /\ call'[d].msg = call[d].msg /\ call'[d].batch = call[d].batch
         /\ call'[d].signedId = call[d].signedId
         /\ d # c => call'[d] = call[d]
<1>1. call \in [Call -> CallRecord] /\ call[c] \in CallRecord
  BY DEF Types
<1>2. call'[d] = IF d = c THEN 
        [call[c] EXCEPT !.pc = "readSigned", !.offset = LastId(preKeys) + 1] ELSE call[d]
  BY <1>1 DEF GetLastPreKeyId
<1>3. call[c].pc = "readLast"
  BY DEF GetLastPreKeyId, At
<1> QED
  BY <1>1, <1>2, <1>3 DEF CallRecord, Idle

\* The keys' ids stay within their bounds.
LEMMA IdsBoundedNext ==
  ASSUME Types, IdsBounded, [Next]_vars
  PROVE  IdsBounded'
<1> DEFINE Bounded(d) == call'[d].pc \in Storing =>
                           /\ call'[d].batch \in 1..batches'
                           /\ call'[d].signedId \in 1..batches'
           Keys == /\ \A k \in preKeys' : k.id < MaxKeyId
                   /\ \A k \in signedKeys' : k.id <= batches'
<1> SUFFICES /\ Keys
             /\ \A d \in Call : Bounded(d)
  BY DEF IdsBounded
<1> SUFFICES ASSUME NEW d \in Call PROVE Bounded(d) /\ Keys
  BY ConstantsAssumption
<1>t. /\ call[d] \in CallRecord /\ preKeys \subseteq Key /\ signedKeys \subseteq Key
      /\ batches \in Nat
  BY ConstantsAssumption DEF Types
<1>i. Idle.pc \notin Storing
  BY DEF Idle, Storing
<1>1. ASSUME NEW c \in Call, NEW op \in {"register", "verify"}, Receive(c, op)
      PROVE  Bounded(d) /\ Keys
  BY <1>1, <1>i, ReceiveEffects DEF IdsBounded, Storing, tables, counters, Receive
<1>2. ASSUME NEW c \in Call, FindByUsername(c) PROVE Bounded(d) /\ Keys
  <2>1. UNCHANGED <<preKeys, signedKeys, batches>>
    BY <1>2 DEF tables, counters, FindByUsername
  <2>2. call'[d].pc \in Storing => call'[d] = call[d]
    BY <1>2, FindEffects DEF Storing
  <2> QED
    BY <2>1, <2>2 DEF IdsBounded
<1>3. ASSUME NEW c \in Call, CreateAccount(c) PROVE Bounded(d) /\ Keys
  BY <1>3, <1>i, StepEffects DEF IdsBounded, Storing, At, tables, counters, CreateAccount
<1>4. ASSUME NEW c \in Call, Reject(c) PROVE Bounded(d) /\ Keys
  BY <1>4, <1>i, StepEffects DEF IdsBounded, Storing, At, tables, counters, Reject
<1>5. ASSUME NEW c \in Call, RequestSmsCode(c) PROVE Bounded(d) /\ Keys
  BY <1>5, <1>i, StepEffects DEF IdsBounded, Storing, At, tables, counters, RequestSmsCode
<1>6. ASSUME NEW c \in Call, SaveRegistered(c) PROVE Bounded(d) /\ Keys
  BY <1>6, <1>i, StepEffects DEF IdsBounded, Storing, At, tables, counters, SaveRegistered
<1>7. ASSUME NEW c \in Call, VerifyCode(c) PROVE Bounded(d) /\ Keys
  BY <1>7, <1>i, StepEffects DEF IdsBounded, Storing, At, tables, counters, VerifyCode
<1>8. ASSUME NEW c \in Call, SaveVerified(c) PROVE Bounded(d) /\ Keys
  BY <1>8, <1>i, StepEffects DEF IdsBounded, Storing, At, tables, counters, SaveVerified
<1>9. ASSUME NEW c \in Call, CreateOwnContact(c) PROVE Bounded(d) /\ Keys
  BY <1>9, <1>i, StepEffects DEF IdsBounded, Storing, At, tables, counters, CreateOwnContact
<1>10. ASSUME NEW c \in Call, GenSignedPreKey(c) PROVE Bounded(d) /\ Keys
  <2>1. Keys /\ batches' = batches + 1
    BY <1>10, <1>t DEF IdsBounded, Key, tables, GenSignedPreKey
  <2>2. CASE d = c
    <3>1. call'[d].batch = batches' /\ call'[d].signedId = LastId(signedKeys) + 1
      BY <1>10, <1>t, <2>2, GenerateEffects
    <3> QED
      BY <1>t, <2>1, <3>1, LastIds
  <2>3. CASE d # c
    <3>1. call'[d] = call[d]
      BY <1>10, <2>3, GenerateEffects
    <3> QED
      BY <1>t, <2>1, <3>1 DEF IdsBounded
  <2> QED
    BY <2>1, <2>2, <2>3
<1>11. ASSUME NEW c \in Call, StoreSignedPreKey(c) PROVE Bounded(d) /\ Keys
  <2>1. SignedKeyOf(c).id <= batches
    BY <1>11, GeneratedKeys DEF StoreSignedPreKey, At, Storing
  <2> QED
    BY <1>11, <2>1, StepEffects DEF IdsBounded, Storing, At, counters, StoreSignedPreKey
<1>12. ASSUME NEW c \in Call, StorePreKeys(c) PROVE Bounded(d) /\ Keys
  <2>1. \A k \in GenPreKeys(c) : k.id < MaxKeyId
    BY <1>12, GeneratedKeys DEF StorePreKeys, At, Storing
  <2>2. Keys
    BY <1>12, <2>1 DEF IdsBounded, StorePreKeys
  <2> QED
    BY <1>12, <1>i, <2>2, StepEffects DEF IdsBounded, Storing, At, Throw, StorePreKeys
<1>13. ASSUME NEW c \in Call, SetPreKeys(c) PROVE Bounded(d) /\ Keys
  BY <1>13, <1>i, StepEffects DEF IdsBounded, Storing, At, Throw, tables, SetPreKeys
<1>14. ASSUME NEW c \in Call, NEW m \in Message, ReadPreKeyBundle(c, m) PROVE Bounded(d) /\ Keys
  <2>1. UNCHANGED <<preKeys, signedKeys, batches>>
    BY <1>14 DEF tables, counters, ReadPreKeyBundle
  <2>2. call'[d].pc \in Storing => call'[d] = call[d]
    BY <1>14, BundleEffects DEF Storing
  <2> QED
    BY <2>1, <2>2 DEF IdsBounded
<1>15. ASSUME NEW c \in Call, CountPreKeys(c) PROVE Bounded(d) /\ Keys
  BY <1>15, <1>i, StepEffects DEF IdsBounded, Storing, At, tables, counters, CountPreKeys
<1>16. ASSUME NEW c \in Call, GetLastPreKeyId(c) PROVE Bounded(d) /\ Keys
  <2>1. UNCHANGED <<preKeys, signedKeys, batches>>
    BY <1>16 DEF tables, counters, GetLastPreKeyId
  <2>2. call'[d].pc \in Storing => call'[d] = call[d]
    BY <1>16, OffsetEffects DEF Storing
  <2> QED
    BY <2>1, <2>2 DEF IdsBounded
<1>17. ASSUME NEW m \in Message, WriteFirstMessage(m) PROVE Bounded(d) /\ Keys
  BY <1>17 DEF IdsBounded, tables, counters, WriteFirstMessage
<1>18. ASSUME NEW m \in Message, Decrypt(m) PROVE Bounded(d) /\ Keys
  BY <1>18 DEF IdsBounded, counters, Decrypt
<1>19. CASE Crash
  BY <1>19, <1>i DEF IdsBounded, tables, Crash
<1>20. CASE UNCHANGED vars
  BY <1>20 DEF IdsBounded, tables, counters, vars
<1> QED
  BY <1>1, <1>2, <1>3, <1>4, <1>5, <1>6, <1>7, <1>8, <1>9, <1>10, <1>11,
     <1>12, <1>13, <1>14, <1>15, <1>16, <1>17, <1>18, <1>19, <1>20
  DEF Next, Handle

\* Handlers stay where their requests lead.
LEMMA CallsOKNext ==
  ASSUME Types, CallsOK, [Next]_vars
  PROVE  CallsOK'
<1> SUFFICES ASSUME NEW d \in Call PROVE CallOK(call'[d])
  BY DEF CallsOK
<1>t. call[d] \in CallRecord /\ CallOK(call[d])
  BY DEF Types, CallsOK
<1>i. CallOK(Idle)
  BY DEF Idle, CallOK, Refreshing, Verifying
<1> USE DEF Refreshing, Verifying
<1>1. ASSUME NEW c \in Call, NEW op \in {"register", "verify"}, Receive(c, op)
      PROVE  CallOK(call'[d])
  BY <1>1, <1>t, ReceiveEffects DEF CallOK
<1>2. ASSUME NEW c \in Call, FindByUsername(c) PROVE CallOK(call'[d])
  BY <1>2, <1>t, FindEffects DEF CallOK
<1>3. ASSUME NEW c \in Call, CreateAccount(c) PROVE CallOK(call'[d])
  BY <1>3, <1>t, <1>i, StepEffects DEF CallOK, At, CreateAccount
<1>4. ASSUME NEW c \in Call, Reject(c) PROVE CallOK(call'[d])
  BY <1>4, <1>t, <1>i, StepEffects DEF CallOK, At, Reject
<1>5. ASSUME NEW c \in Call, RequestSmsCode(c) PROVE CallOK(call'[d])
  BY <1>5, <1>t, <1>i, StepEffects DEF CallOK, At, RequestSmsCode
<1>6. ASSUME NEW c \in Call, SaveRegistered(c) PROVE CallOK(call'[d])
  BY <1>6, <1>t, <1>i, StepEffects DEF CallOK, At, SaveRegistered
<1>7. ASSUME NEW c \in Call, VerifyCode(c) PROVE CallOK(call'[d])
  BY <1>7, <1>t, <1>i, StepEffects DEF CallOK, At, VerifyCode
<1>8. ASSUME NEW c \in Call, SaveVerified(c) PROVE CallOK(call'[d])
  BY <1>8, <1>t, <1>i, StepEffects DEF CallOK, At, SaveVerified
<1>9. ASSUME NEW c \in Call, CreateOwnContact(c) PROVE CallOK(call'[d])
  BY <1>9, <1>t, <1>i, StepEffects DEF CallOK, At, CreateOwnContact
<1>10. ASSUME NEW c \in Call, GenSignedPreKey(c) PROVE CallOK(call'[d])
  BY <1>10, <1>t, GenerateEffects DEF CallOK
<1>11. ASSUME NEW c \in Call, StoreSignedPreKey(c) PROVE CallOK(call'[d])
  BY <1>11, <1>t, <1>i, StepEffects DEF CallOK, At, StoreSignedPreKey
<1>12. ASSUME NEW c \in Call, StorePreKeys(c) PROVE CallOK(call'[d])
  BY <1>12, <1>t, <1>i, StepEffects DEF CallOK, At, Throw, StorePreKeys
<1>13. ASSUME NEW c \in Call, SetPreKeys(c) PROVE CallOK(call'[d])
  BY <1>13, <1>t, <1>i, StepEffects DEF CallOK, At, Throw, SetPreKeys
<1>14. ASSUME NEW c \in Call, NEW m \in Message, ReadPreKeyBundle(c, m) PROVE CallOK(call'[d])
  BY <1>14, <1>t, BundleEffects DEF CallOK
<1>15. ASSUME NEW c \in Call, CountPreKeys(c) PROVE CallOK(call'[d])
  BY <1>15, <1>t, <1>i, StepEffects DEF CallOK, At, CountPreKeys
<1>16. ASSUME NEW c \in Call, GetLastPreKeyId(c) PROVE CallOK(call'[d])
  BY <1>16, <1>t, OffsetEffects DEF CallOK
<1>17. ASSUME NEW m \in Message, WriteFirstMessage(m) PROVE CallOK(call'[d])
  BY <1>17, <1>t DEF WriteFirstMessage
<1>18. ASSUME NEW m \in Message, Decrypt(m) PROVE CallOK(call'[d])
  BY <1>18, <1>t DEF Decrypt
<1>19. CASE Crash
  BY <1>19, <1>i DEF Crash
<1>20. CASE UNCHANGED vars
  BY <1>20, <1>t DEF vars
<1> QED
  BY <1>1, <1>2, <1>3, <1>4, <1>5, <1>6, <1>7, <1>8, <1>9, <1>10, <1>11,
     <1>12, <1>13, <1>14, <1>15, <1>16, <1>17, <1>18, <1>19, <1>20
  DEF Next, Handle

-----------------------------------------------------------------------------
(* Status. *)

\* At first no handler is at work.
LEMMA HandlersInit == Init => CallsOK /\ RegistersOK /\ ReachableInv
  BY NoneAssumption
  DEF Init, Idle, CallsOK, CallOK, RegistersOK, Registers, ReachableInv, Refreshing, Verifying

\* At most one registration goes on, and it cannot undo what others have seen.
LEMMA RegistersOKNext ==
  ASSUME Types, CallsOK, RegistersOK, [Next]_vars
  PROVE  RegistersOK'
<1> DEFINE Alone(d, e) == call'[d].op = "register" /\ call'[e].op = "register" => d = e
           Early(d) == call'[d].op = "register"
                         /\ call'[d].pc \in {"create", "loaded", "saveRegistered"}
                         /\ call'[d].account = "NEW"
                           => status' \in {"none", "NEW"}
           Seen(d) == call'[d].account \in {"REGISTERED", "VERIFIED"} =>
                        status' \in {"REGISTERED", "VERIFIED"}
           Goal(d, e) == Alone(d, e) /\ Early(d) /\ Seen(d)
<1> SUFFICES ASSUME NEW d \in Call, NEW e \in Call PROVE Goal(d, e)
  BY DEF RegistersOK, Registers
<1>t. /\ status \in {"none", "NEW", "REGISTERED", "VERIFIED"}
      /\ CallOK(call[d]) /\ CallOK(call[e]) /\ \A c \in Call : CallOK(call[c])
      /\ None \notin {"NEW", "REGISTERED", "VERIFIED"}
  BY NoneAssumption DEF Types, CallsOK
<1>r. RegistersOK
  OBVIOUS
<1> USE DEF RegistersOK, Registers
<1>1. ASSUME NEW c \in Call, NEW op \in {"register", "verify"}, Receive(c, op) PROVE Goal(d, e)
  <2>1. UNCHANGED status /\ (op = "register" => \A k \in Call : call[k].op # "register")
    BY <1>1 DEF During, tables, Receive
  <2>2. \A k \in {d, e} :
          /\ call'[k].pc = IF k = c THEN "find" ELSE call[k].pc
          /\ call'[k].op = IF k = c THEN op ELSE call[k].op
          /\ call'[k].account = IF k = c THEN None ELSE call[k].account
    BY <1>1, ReceiveEffects
  <2> QED
    BY <1>t, <1>r, <2>1, <2>2
<1>2. ASSUME NEW c \in Call, FindByUsername(c) PROVE Goal(d, e)
  <2>1. UNCHANGED status
    BY <1>2 DEF tables, FindByUsername
  <2>2. \A k \in {d, e} :
          /\ call'[k].pc = IF k = c THEN (IF status = "none" THEN "create" ELSE "loaded") ELSE call[k].pc
          /\ call'[k].op = call[k].op
          /\ call'[k].account = IF k = c THEN (IF status = "none" THEN "NEW" ELSE status) ELSE call[k].account
    BY <1>2, FindEffects
  <2> QED
    BY <1>t, <1>r, <2>1, <2>2 DEF CallOK
<1>3. ASSUME NEW c \in Call, CreateAccount(c) PROVE Goal(d, e)
  BY <1>3, <1>t, <1>r, StepEffects DEF At, CallOK, tables, counters, CreateAccount
<1>4. ASSUME NEW c \in Call, Reject(c) PROVE Goal(d, e)
  BY <1>4, <1>t, <1>r, StepEffects DEF At, CallOK, tables, counters, Reject
<1>5. ASSUME NEW c \in Call, RequestSmsCode(c) PROVE Goal(d, e)
  BY <1>5, <1>t, <1>r, StepEffects DEF At, CallOK, tables, counters, RequestSmsCode
<1>6. ASSUME NEW c \in Call, SaveRegistered(c) PROVE Goal(d, e)
  BY <1>6, <1>t, <1>r, StepEffects DEF At, CallOK, tables, counters, SaveRegistered
<1>7. ASSUME NEW c \in Call, VerifyCode(c) PROVE Goal(d, e)
  BY <1>7, <1>t, <1>r, StepEffects DEF At, CallOK, tables, counters, VerifyCode
<1>8. ASSUME NEW c \in Call, SaveVerified(c) PROVE Goal(d, e)
  BY <1>8, <1>t, <1>r, StepEffects DEF At, CallOK, Verifying, SaveVerified
<1>9. ASSUME NEW c \in Call, CreateOwnContact(c) PROVE Goal(d, e)
  BY <1>9, <1>t, <1>r, StepEffects DEF At, CallOK, tables, counters, CreateOwnContact
<1>10. ASSUME NEW c \in Call, GenSignedPreKey(c) PROVE Goal(d, e)
  <2>1. UNCHANGED status
    BY <1>10 DEF tables, GenSignedPreKey
  <2>2. \A k \in {d, e} :
          /\ call'[k].pc = IF k = c THEN "storeSigned" ELSE call[k].pc
          /\ call'[k].op = call[k].op
          /\ call'[k].account = call[k].account
    BY <1>10, GenerateEffects
  <2> QED
    BY <1>t, <1>r, <2>1, <2>2
<1>11. ASSUME NEW c \in Call, StoreSignedPreKey(c) PROVE Goal(d, e)
  BY <1>11, <1>t, <1>r, StepEffects DEF At, StoreSignedPreKey
<1>12. ASSUME NEW c \in Call, StorePreKeys(c) PROVE Goal(d, e)
  BY <1>12, <1>t, <1>r, StepEffects DEF At, Throw, StorePreKeys
<1>13. ASSUME NEW c \in Call, SetPreKeys(c) PROVE Goal(d, e)
  BY <1>13, <1>t, <1>r, StepEffects DEF At, Throw, tables, SetPreKeys
<1>14. ASSUME NEW c \in Call, NEW m \in Message, ReadPreKeyBundle(c, m) PROVE Goal(d, e)
  <2>1. UNCHANGED status
    BY <1>14 DEF tables, ReadPreKeyBundle
  <2>2. \A k \in {d, e} :
          /\ call'[k].pc = IF k = c THEN "count" ELSE call[k].pc
          /\ call'[k].op = IF k = c THEN "bundle" ELSE call[k].op
          /\ call'[k].account = IF k = c THEN None ELSE call[k].account
    BY <1>14, BundleEffects
  <2> QED
    BY <1>t, <1>r, <2>1, <2>2
<1>15. ASSUME NEW c \in Call, CountPreKeys(c) PROVE Goal(d, e)
  BY <1>15, <1>t, <1>r, StepEffects DEF At, CallOK, tables, counters, CountPreKeys
<1>16. ASSUME NEW c \in Call, GetLastPreKeyId(c) PROVE Goal(d, e)
  <2>1. UNCHANGED status
    BY <1>16 DEF tables, GetLastPreKeyId
  <2>2. \A k \in {d, e} :
          /\ call'[k].pc = IF k = c THEN "readSigned" ELSE call[k].pc
          /\ call'[k].op = call[k].op
          /\ call'[k].account = call[k].account
    BY <1>16, OffsetEffects
  <2> QED
    BY <1>t, <1>r, <2>1, <2>2
<1>17. ASSUME NEW m \in Message, WriteFirstMessage(m) PROVE Goal(d, e)
  BY <1>17, <1>r DEF tables, WriteFirstMessage
<1>18. ASSUME NEW m \in Message, Decrypt(m) PROVE Goal(d, e)
  BY <1>18, <1>r DEF Decrypt
<1>19. CASE Crash
  BY <1>19, <1>t, <1>r DEF Idle, tables, Crash
<1>20. CASE UNCHANGED vars
  BY <1>20, <1>r DEF tables, vars
<1> QED
  BY <1>1, <1>2, <1>3, <1>4, <1>5, <1>6, <1>7, <1>8, <1>9, <1>10, <1>11,
     <1>12, <1>13, <1>14, <1>15, <1>16, <1>17, <1>18, <1>19, <1>20
  DEF Next, Handle

\* Who is to publish the keys of a verified account does so or is interrupted.
LEMMA ReachableNext ==
  ASSUME Types, IdsBounded, CallsOK, ReachableInv, [Next]_vars
  PROVE  ReachableInv'
<1> DEFINE PublishesNext(d) == /\ call'[d].op = "verify"
                               /\ call'[d].pc \in {"createContact"} \cup Refreshing
           Goal == /\ announced' => server'.signed # None
                   /\ status' = "VERIFIED" /\ ~interrupted' /\ server'.signed = None =>
                        \E d \in Call : PublishesNext(d)
           Quiet == /\ status' = "VERIFIED" => status = "VERIFIED"
                    /\ interrupted => interrupted'
                    /\ server'.signed = server.signed
                    /\ announced' => announced
           Goes(d) == Publishes(d) => interrupted' \/ PublishesNext(d)
<1> SUFFICES Goal
  BY DEF ReachableInv, Publishes
<1>t. /\ server \in Server /\ \A d \in Call : CallOK(call[d])
  BY DEF Types, CallsOK
<1>q. ASSUME Quiet, \A d \in Call : Goes(d) PROVE Goal
  BY <1>q DEF ReachableInv
<1>1. ASSUME NEW c \in Call, NEW op \in {"register", "verify"}, Receive(c, op) PROVE Goal
  <2>1. Quiet
    BY <1>1, <1>t DEF tables, counters, Receive
  <2>2. ASSUME NEW d \in Call PROVE Goes(d)
    BY <1>1, <1>t, ReceiveEffects DEF CallOK, Publishes, Refreshing
  <2> QED
    BY <2>1, <2>2, <1>q
<1>2. ASSUME NEW c \in Call, FindByUsername(c) PROVE Goal
  <2>1. Quiet
    BY <1>2, <1>t DEF tables, counters, FindByUsername
  <2>2. ASSUME NEW d \in Call PROVE Goes(d)
    BY <1>2, <1>t, FindEffects DEF CallOK, Publishes, Refreshing
  <2> QED
    BY <2>1, <2>2, <1>q
<1>3. ASSUME NEW c \in Call, CreateAccount(c) PROVE Goal
  <2>1. Quiet
    BY <1>3, <1>t DEF Server, tables, counters, CreateAccount
  <2>2. ASSUME NEW d \in Call PROVE Goes(d)
    BY <1>3, <1>t, StepEffects DEF Publishes, Refreshing, At, CreateAccount
  <2> QED
    BY <2>1, <2>2, <1>q
<1>4. ASSUME NEW c \in Call, Reject(c) PROVE Goal
  <2>1. Quiet
    BY <1>4, <1>t DEF Server, tables, counters, Reject
  <2>2. ASSUME NEW d \in Call PROVE Goes(d)
    BY <1>4, <1>t, StepEffects DEF Publishes, Refreshing, At, Reject
  <2> QED
    BY <2>1, <2>2, <1>q
<1>5. ASSUME NEW c \in Call, RequestSmsCode(c) PROVE Goal
  <2>1. Quiet
    BY <1>5, <1>t DEF Server, tables, counters, RequestSmsCode
  <2>2. ASSUME NEW d \in Call PROVE Goes(d)
    BY <1>5, <1>t, StepEffects DEF Publishes, Refreshing, At, RequestSmsCode
  <2> QED
    BY <2>1, <2>2, <1>q
<1>6. ASSUME NEW c \in Call, SaveRegistered(c) PROVE Goal
  <2>1. Quiet
    BY <1>6, <1>t DEF Server, tables, counters, SaveRegistered
  <2>2. ASSUME NEW d \in Call PROVE Goes(d)
    BY <1>6, <1>t, StepEffects DEF Publishes, Refreshing, At, SaveRegistered
  <2> QED
    BY <2>1, <2>2, <1>q
<1>7. ASSUME NEW c \in Call, VerifyCode(c) PROVE Goal
  <2>1. Quiet
    BY <1>7, <1>t DEF Server, tables, counters, VerifyCode
  <2>2. ASSUME NEW d \in Call PROVE Goes(d)
    BY <1>7, <1>t, StepEffects DEF Publishes, Refreshing, At, VerifyCode
  <2> QED
    BY <2>1, <2>2, <1>q
<1>8. ASSUME NEW c \in Call, SaveVerified(c) PROVE Goal
  <2>1. PublishesNext(c)
    BY <1>8, <1>t, StepEffects DEF CallOK, At, SaveVerified
  <2> QED
    BY <1>8, <2>1 DEF ReachableInv, counters, SaveVerified
<1>9. ASSUME NEW c \in Call, CreateOwnContact(c) PROVE Goal
  <2>1. Quiet
    BY <1>9, <1>t DEF Server, tables, counters, CreateOwnContact
  <2>2. ASSUME NEW d \in Call PROVE Goes(d)
    BY <1>9, <1>t, StepEffects DEF Publishes, Refreshing, At, CreateOwnContact
  <2> QED
    BY <2>1, <2>2, <1>q
<1>10. ASSUME NEW c \in Call, GenSignedPreKey(c) PROVE Goal
  <2>1. Quiet
    BY <1>10, <1>t DEF tables, counters, GenSignedPreKey
  <2>2. ASSUME NEW d \in Call PROVE Goes(d)
    BY <1>10, <1>t, GenerateEffects DEF CallOK, Publishes, Refreshing
  <2> QED
    BY <2>1, <2>2, <1>q
<1>11. ASSUME NEW c \in Call, StoreSignedPreKey(c) PROVE Goal
  <2>1. Quiet
    BY <1>11, <1>t DEF Server, tables, counters, StoreSignedPreKey
  <2>2. ASSUME NEW d \in Call PROVE Goes(d)
    BY <1>11, <1>t, StepEffects DEF Publishes, Refreshing, At, StoreSignedPreKey
  <2> QED
    BY <2>1, <2>2, <1>q
<1>12. ASSUME NEW c \in Call, StorePreKeys(c) PROVE Goal
  <2>1. Quiet
    BY <1>12, <1>t DEF Server, Throw, StorePreKeys
  <2>2. /\ call[c].pc = "storeKeys"
        /\ \/ Finish(c) /\ (call[c].op = "verify" => interrupted')
           \/ Step(c, "publish")
    BY <1>12 DEF Throw, At, StorePreKeys
  <2>3. ASSUME NEW d \in Call PROVE Goes(d)
    BY <2>2, StepEffects DEF Publishes, Refreshing
  <2> QED
    BY <2>1, <2>3, <1>q
<1>13. ASSUME NEW c \in Call, SetPreKeys(c) PROVE Goal
  <2> HIDE DEF Goal
  <2>g. server'.signed # None => Goal
    BY DEF Goal
  <2>1. CASE server' = [server EXCEPT !.keys = GenPreKeys(c), !.signed = SignedKeyOf(c)]
    <3>1. server'.signed = SignedKeyOf(c)
      BY <2>1, <1>t DEF Server
    <3>2. SignedKeyOf(c) # None
      BY <1>13, GeneratedKeys DEF SetPreKeys, At, Storing
    <3> QED
      BY <3>1, <3>2, <2>g
  <2>2. CASE Throw(c) /\ UNCHANGED <<server, announced>>
    <3>1. Quiet
      BY <1>13, <2>2 DEF Throw, tables, SetPreKeys
    <3>2. Finish(c) /\ (call[c].op = "verify" => interrupted')
      BY <2>2 DEF Throw
    <3>3. ASSUME NEW d \in Call PROVE Goes(d)
      BY <3>2, StepEffects DEF Publishes, Refreshing
    <3> QED
      BY <3>1, <3>3, <1>q
  <2> QED
    BY <1>13, <2>1, <2>2 DEF SetPreKeys
<1>14. ASSUME NEW c \in Call, NEW m \in Message, ReadPreKeyBundle(c, m) PROVE Goal
  <2>1. Quiet
    BY <1>14, <1>t DEF tables, counters, ReadPreKeyBundle
  <2>2. ASSUME NEW d \in Call PROVE Goes(d)
    BY <1>14, <1>t, BundleEffects DEF CallOK, Publishes, Refreshing
  <2> QED
    BY <2>1, <2>2, <1>q
<1>15. ASSUME NEW c \in Call, CountPreKeys(c) PROVE Goal
  <2>1. Quiet
    BY <1>15, <1>t DEF Server, tables, counters, CountPreKeys
  <2>2. ASSUME NEW d \in Call PROVE Goes(d)
    BY <1>15, <1>t, StepEffects DEF CallOK, Publishes, Refreshing, At, CountPreKeys
  <2> QED
    BY <2>1, <2>2, <1>q
<1>16. ASSUME NEW c \in Call, GetLastPreKeyId(c) PROVE Goal
  <2>1. Quiet
    BY <1>16, <1>t DEF tables, counters, GetLastPreKeyId
  <2>2. ASSUME NEW d \in Call PROVE Goes(d)
    BY <1>16, <1>t, OffsetEffects DEF CallOK, Publishes, Refreshing
  <2> QED
    BY <2>1, <2>2, <1>q
<1>17. ASSUME NEW m \in Message, WriteFirstMessage(m) PROVE Goal
  <2>1. Quiet /\ UNCHANGED call
    BY <1>17, <1>t DEF Server, tables, counters, WriteFirstMessage
  <2> QED
    BY <2>1, <1>q DEF Publishes
<1>18. ASSUME NEW m \in Message, Decrypt(m) PROVE Goal
  <2>1. Quiet /\ UNCHANGED call
    BY <1>18 DEF counters, Decrypt
  <2> QED
    BY <2>1, <1>q DEF Publishes
<1>19. CASE Crash
  <2>1. Quiet
    BY <1>19 DEF tables, Crash
  <2>2. ASSUME NEW d \in Call PROVE Goes(d)
    BY <1>19 DEF Publishes, During, Crash
  <2> QED
    BY <2>1, <2>2, <1>q
<1>20. CASE UNCHANGED vars
  <2>1. Quiet /\ UNCHANGED call
    BY <1>20 DEF tables, counters, vars
  <2> QED
    BY <2>1, <1>q DEF Publishes
<1> QED
  BY <1>1, <1>2, <1>3, <1>4, <1>5, <1>6, <1>7, <1>8, <1>9, <1>10, <1>11,
     <1>12, <1>13, <1>14, <1>15, <1>16, <1>17, <1>18, <1>19, <1>20
  DEF Next, Handle

-----------------------------------------------------------------------------
(* The theorems. *)

Inv == Types /\ IdsBounded /\ CallsOK /\ RegistersOK /\ ReachableInv

\* The invariant from which the theorems follow.
THEOREM Invariant == Spec => []Inv
<1>1. Init => Inv
  BY TypesInit, HandlersInit DEF Inv
<1>2. Inv /\ [Next]_vars => Inv'
  BY TypesNext, IdsBoundedNext, CallsOKNext, RegistersOKNext, ReachableNext DEF Inv
<1> QED
  BY <1>1, <1>2, PTL DEF Spec

\* A client that is told of a verified account can rely on its prekeys, and a
\* verified account without any was interrupted or is being verified.
THEOREM PrekeysPublished == Spec => []VerifiedReachable
<1>1. Inv => VerifiedReachable
  BY DEF Inv, ReachableInv, VerifiedReachable, Publishes, During
<1> QED
  BY <1>1, Invariant, PTL

\* No step takes a verified account back to an earlier status: a registration
\* that may still save its account was answered before anybody saw it registered.
THEOREM VerifiedForGood == Spec => VerifiedStays
<1>1. Inv /\ [Next]_vars => [status = "VERIFIED" => status' = "VERIFIED"]_vars
  <2> SUFFICES ASSUME Inv, [Next]_vars, status = "VERIFIED" PROVE status' = "VERIFIED"
    OBVIOUS
  <2>t. RegistersOK /\ \A c \in Call : CallOK(call[c])
    BY DEF Inv, CallsOK
  <2>1. ASSUME NEW c \in Call, NEW op \in {"register", "verify"}, Receive(c, op)
        PROVE  status' = "VERIFIED"
    BY <2>1 DEF tables, Receive
  <2>2. ASSUME NEW c \in Call, FindByUsername(c) PROVE status' = "VERIFIED"
    BY <2>2 DEF tables, FindByUsername
  <2>3. ASSUME NEW c \in Call, CreateAccount(c) PROVE status' = "VERIFIED"
    BY <2>3 DEF At, CreateAccount
  <2>4. ASSUME NEW c \in Call, Reject(c) PROVE status' = "VERIFIED"
    BY <2>4 DEF tables, Reject
  <2>5. ASSUME NEW c \in Call, RequestSmsCode(c) PROVE status' = "VERIFIED"
    BY <2>5 DEF tables, RequestSmsCode
  <2>6. ASSUME NEW c \in Call, SaveRegistered(c) PROVE status' = "VERIFIED"
    <3>1. Registers(c)
      BY <2>6, <2>t DEF SaveRegistered, At, CallOK, Registers
    <3> QED
      BY <3>1, <2>t DEF RegistersOK
  <2>7. ASSUME NEW c \in Call, VerifyCode(c) PROVE status' = "VERIFIED"
    BY <2>7 DEF tables, VerifyCode
  <2>8. ASSUME NEW c \in Call, SaveVerified(c) PROVE status' = "VERIFIED"
    BY <2>8 DEF At, SaveVerified
  <2>9. ASSUME NEW c \in Call, CreateOwnContact(c) PROVE status' = "VERIFIED"
    BY <2>9 DEF At, CreateOwnContact
  <2>10. ASSUME NEW c \in Call, GenSignedPreKey(c) PROVE status' = "VERIFIED"
    BY <2>10 DEF tables, GenSignedPreKey
  <2>11. ASSUME NEW c \in Call, StoreSignedPreKey(c) PROVE status' = "VERIFIED"
    BY <2>11 DEF At, StoreSignedPreKey
  <2>12. ASSUME NEW c \in Call, StorePreKeys(c) PROVE status' = "VERIFIED"
    BY <2>12 DEF At, StorePreKeys
  <2>13. ASSUME NEW c \in Call, SetPreKeys(c) PROVE status' = "VERIFIED"
    BY <2>13 DEF tables, SetPreKeys
  <2>14. ASSUME NEW c \in Call, NEW m \in Message, ReadPreKeyBundle(c, m)
         PROVE  status' = "VERIFIED"
    BY <2>14 DEF tables, ReadPreKeyBundle
  <2>15. ASSUME NEW c \in Call, CountPreKeys(c) PROVE status' = "VERIFIED"
    BY <2>15 DEF tables, CountPreKeys
  <2>16. ASSUME NEW c \in Call, GetLastPreKeyId(c) PROVE status' = "VERIFIED"
    BY <2>16 DEF tables, GetLastPreKeyId
  <2>17. ASSUME NEW m \in Message, WriteFirstMessage(m) PROVE status' = "VERIFIED"
    BY <2>17 DEF tables, WriteFirstMessage
  <2>18. ASSUME NEW m \in Message, Decrypt(m) PROVE status' = "VERIFIED"
    BY <2>18 DEF At, Decrypt
  <2>19. CASE Crash
    BY <2>19 DEF tables, Crash
  <2>20. CASE UNCHANGED vars
    BY <2>20 DEF tables, vars
  <2> QED
    BY <2>1, <2>2, <2>3, <2>4, <2>5, <2>6, <2>7, <2>8, <2>9, <2>10, <2>11,
     <2>12, <2>13, <2>14, <2>15, <2>16, <2>17, <2>18, <2>19, <2>20
    DEF Next, Handle
<1> QED
  BY <1>1, Invariant, PTL DEF Spec, VerifiedStays

-----------------------------------------------------------------------------
(* One handler makes prekeys. *)

\* Nobody verifies or writes at first.
LEMMA VerifiersInit == Init => VerifiersOK /\ OneBundle
  BY DEF Init, Idle, VerifiersOK, OneBundle, Verifies, Verifying

\* A contact writes only to an account whose signed prekey is published.
LEMMA WritersNext ==
  ASSUME Types, IdsBounded, CallsOK, VerifiersOK, [Next]_vars,
         NEW m \in Message, msg'[m].state # "unsent"
  PROVE  server'.signed # None
<1>t. /\ server \in Server /\ msg \in [Message -> MessageRecord]
      /\ \A c \in Call : CallOK(call[c])
  BY DEF Types, CallsOK
<1>w. msg[m].state # "unsent" => server.signed # None
  BY DEF VerifiersOK
<1>s. ASSUME UNCHANGED <<msg, server>> PROVE server'.signed # None
  BY <1>s, <1>w
<1>b. ASSUME NEW c \in Call, call[c].op = "bundle" PROVE server.signed # None
  BY <1>b DEF VerifiersOK
<1>1. ASSUME NEW c \in Call, NEW op \in {"register", "verify"}, Receive(c, op)
      PROVE  server'.signed # None
  BY <1>1, <1>s DEF tables, counters, Receive
<1>2. ASSUME NEW c \in Call, FindByUsername(c) PROVE server'.signed # None
  BY <1>2, <1>s DEF tables, counters, FindByUsername
<1>3. ASSUME NEW c \in Call, CreateAccount(c) PROVE server'.signed # None
  BY <1>3, <1>s DEF tables, counters, CreateAccount
<1>4. ASSUME NEW c \in Call, Reject(c) PROVE server'.signed # None
  BY <1>4, <1>s DEF tables, counters, Reject
<1>5. ASSUME NEW c \in Call, RequestSmsCode(c) PROVE server'.signed # None
  BY <1>5, <1>t, <1>w DEF Server, tables, counters, RequestSmsCode
<1>6. ASSUME NEW c \in Call, SaveRegistered(c) PROVE server'.signed # None
  BY <1>6, <1>s DEF tables, counters, SaveRegistered
<1>7. ASSUME NEW c \in Call, VerifyCode(c) PROVE server'.signed # None
  BY <1>7, <1>t, <1>w DEF Server, tables, counters, VerifyCode
<1>8. ASSUME NEW c \in Call, SaveVerified(c) PROVE server'.signed # None
  BY <1>8, <1>s DEF tables, counters, SaveVerified
<1>9. ASSUME NEW c \in Call, CreateOwnContact(c) PROVE server'.signed # None
  BY <1>9, <1>s DEF tables, counters, CreateOwnContact
<1>10. ASSUME NEW c \in Call, GenSignedPreKey(c) PROVE server'.signed # None
  BY <1>10, <1>s DEF tables, counters, GenSignedPreKey
<1>11. ASSUME NEW c \in Call, StoreSignedPreKey(c) PROVE server'.signed # None
  BY <1>11, <1>s DEF tables, counters, StoreSignedPreKey
<1>12. ASSUME NEW c \in Call, StorePreKeys(c) PROVE server'.signed # None
  <2>1. UNCHANGED server /\ (UNCHANGED msg \/ call[c].op = "bundle")
    BY <1>12 DEF StorePreKeys, Throw
  <2> QED
    BY <2>1, <1>s, <1>b
<1>13. ASSUME NEW c \in Call, SetPreKeys(c) PROVE server'.signed # None
  <2>1. CASE server' = [server EXCEPT !.keys = GenPreKeys(c), !.signed = SignedKeyOf(c)]
    <3>1. server'.signed = SignedKeyOf(c)
      BY <2>1, <1>t DEF Server
    <3> QED
      BY <1>13, <3>1, GeneratedKeys DEF SetPreKeys, At, Storing
  <2>2. CASE Throw(c) /\ UNCHANGED server
    <3>1. UNCHANGED msg \/ call[c].op = "bundle"
      BY <2>2 DEF Throw
    <3> QED
      BY <2>2, <3>1, <1>s, <1>b
  <2> QED
    BY <1>13, <2>1, <2>2 DEF SetPreKeys
<1>14. ASSUME NEW c \in Call, NEW n \in Message, ReadPreKeyBundle(c, n)
       PROVE  server'.signed # None
  BY <1>14, <1>s DEF tables, counters, ReadPreKeyBundle
<1>15. ASSUME NEW c \in Call, CountPreKeys(c) PROVE server'.signed # None
  <2>1. UNCHANGED server /\ call[c].op = "bundle"
    BY <1>15, <1>t DEF CountPreKeys, At, CallOK
  <2> QED
    BY <2>1, <1>b
<1>16. ASSUME NEW c \in Call, GetLastPreKeyId(c) PROVE server'.signed # None
  BY <1>16, <1>s DEF tables, counters, GetLastPreKeyId
<1>17. ASSUME NEW n \in Message, WriteFirstMessage(n) PROVE server'.signed # None
  <2>1. server'.signed = server.signed /\ server.signed # None
    BY <1>17, <1>t DEF WriteFirstMessage, Server
  <2> QED
    BY <2>1
<1>18. ASSUME NEW n \in Message, Decrypt(n) PROVE server'.signed # None
  <2>1. msg[m].state # "unsent" /\ UNCHANGED server
    BY <1>18, <1>t DEF Decrypt, MessageRecord
  <2> QED
    BY <2>1, <1>w
<1>19. CASE Crash
  <2>1. UNCHANGED server
    BY <1>19 DEF Crash
  <2>2. msg[m].state # "unsent" \/ \E c \in Call : call[c].msg = m
    BY <1>19, <1>t DEF Crash
  <2>3. ASSUME NEW c \in Call, call[c].msg = m PROVE call[c].op = "bundle"
    BY <2>3, <1>t, NoneAssumption DEF CallOK
  <2> QED
    BY <2>1, <2>2, <2>3, <1>w, <1>b
<1>20. CASE UNCHANGED vars
  BY <1>20, <1>s DEF vars
<1> QED
  BY <1>1, <1>2, <1>3, <1>4, <1>5, <1>6, <1>7, <1>8, <1>9, <1>10, <1>11,
     <1>12, <1>13, <1>14, <1>15, <1>16, <1>17, <1>18, <1>19, <1>20
  DEF Next, Handle

\* The verification code lets one handler through, before any prekeys are out.
LEMMA VerifiersNext ==
  ASSUME Types, IdsBounded, CallsOK, RegistersOK, VerifiersOK, [Next]_vars
  PROVE  VerifiersOK'
<1> DEFINE VerifiesNext(d) == call'[d].op = "verify" /\ call'[d].pc \in Verifying
           Alone(d, e) == VerifiesNext(d) /\ VerifiesNext(e) => d = e
           Before(d) == VerifiesNext(d) => ~server'.code /\ server'.signed = None
           Published == server'.signed # None =>
                          ~server'.code /\ status' \in {"REGISTERED", "VERIFIED"}
           Reads(d) == call'[d].op = "bundle" => server'.signed # None
           Goal(d, e) == Alone(d, e) /\ Before(d) /\ Published /\ Reads(d)
           Quiet == /\ server'.signed = server.signed /\ (server'.code => server.code)
                    /\ status \in {"REGISTERED", "VERIFIED"} =>
                         status' \in {"REGISTERED", "VERIFIED"}
           Kept(d) == /\ VerifiesNext(d) => Verifies(d)
                      /\ call'[d].op = "bundle" => call[d].op = "bundle"
<1> SUFFICES ASSUME NEW d \in Call, NEW e \in Call PROVE Goal(d, e)
  BY WritersNext, ConstantsAssumption DEF VerifiersOK, Verifies
<1>t. /\ server \in Server /\ status \in {"none", "NEW", "REGISTERED", "VERIFIED"}
      /\ \A c \in Call : CallOK(call[c])
      /\ \A c \in Call : Registers(c) => status \in {"none", "NEW"}
      /\ \A c \in Call : call[c].account \in {"REGISTERED", "VERIFIED"} =>
           status \in {"REGISTERED", "VERIFIED"}
  BY DEF Types, CallsOK, RegistersOK
<1>k. ASSUME Quiet, Kept(d), Kept(e) PROVE Goal(d, e)
  BY <1>k DEF VerifiersOK
<1>1. ASSUME NEW c \in Call, NEW op \in {"register", "verify"}, Receive(c, op) PROVE Goal(d, e)
  <2>1. Quiet
    BY <1>1, <1>t DEF tables, counters, Receive
  <2>2. Kept(d) /\ Kept(e)
    BY <1>1, <1>t, ReceiveEffects DEF CallOK, Verifies, Verifying, Refreshing
  <2> QED
    BY <2>1, <2>2, <1>k
<1>2. ASSUME NEW c \in Call, FindByUsername(c) PROVE Goal(d, e)
  <2>1. Quiet
    BY <1>2, <1>t DEF tables, counters, FindByUsername
  <2>2. Kept(d) /\ Kept(e)
    BY <1>2, <1>t, FindEffects DEF CallOK, Verifies, Verifying, Refreshing
  <2> QED
    BY <2>1, <2>2, <1>k
<1>3. ASSUME NEW c \in Call, CreateAccount(c) PROVE Goal(d, e)
  <2>1. Quiet
    BY <1>3, <1>t DEF tables, counters, CreateAccount
  <2>2. Kept(d) /\ Kept(e)
    BY <1>3, <1>t, StepEffects DEF CallOK, Verifies, Verifying, Refreshing, At, CreateAccount
  <2> QED
    BY <2>1, <2>2, <1>k
<1>4. ASSUME NEW c \in Call, Reject(c) PROVE Goal(d, e)
  <2>1. Quiet
    BY <1>4, <1>t DEF tables, counters, Reject
  <2>2. Kept(d) /\ Kept(e)
    BY <1>4, <1>t, StepEffects DEF CallOK, Verifies, Verifying, Refreshing, At, Reject
  <2> QED
    BY <2>1, <2>2, <1>k
<1>5. ASSUME NEW c \in Call, RequestSmsCode(c) PROVE Goal(d, e)
  <2>1. server'.signed = server.signed /\ UNCHANGED status
    BY <1>5, <1>t DEF Server, tables, RequestSmsCode
  <2>2. Registers(c)
    BY <1>5 DEF Registers, At, RequestSmsCode
  <2>3. Kept(d) /\ Kept(e)
    BY <1>5, <1>t, StepEffects DEF Verifies, Verifying, Refreshing, At, RequestSmsCode
  <2>4. ~Verifies(d) /\ ~Verifies(e) /\ server.signed = None
    BY <1>t, <2>2 DEF Verifies, CallOK, VerifiersOK
  <2> QED
    BY <2>1, <2>3, <2>4 DEF VerifiersOK
<1>6. ASSUME NEW c \in Call, SaveRegistered(c) PROVE Goal(d, e)
  <2>1. Quiet
    BY <1>6, <1>t DEF SaveRegistered
  <2>2. Kept(d) /\ Kept(e)
    BY <1>6, <1>t, StepEffects DEF Verifies, At, SaveRegistered
  <2> QED
    BY <2>1, <2>2, <1>k
<1>7. ASSUME NEW c \in Call, VerifyCode(c) PROVE Goal(d, e)
  <2>1. CASE Finish(c) /\ UNCHANGED server
    <3>1. Quiet
      BY <1>7, <2>1 DEF tables, VerifyCode
    <3>2. Kept(d) /\ Kept(e)
      BY <2>1, StepEffects DEF Verifies
    <3> QED
      BY <3>1, <3>2, <1>k
  <2>2. CASE /\ server.code /\ server' = [server EXCEPT !.code = FALSE]
             /\ Step(c, "saveVerified")
    <3>1. ~server'.code /\ server'.signed = server.signed /\ server.signed = None
      BY <2>2, <1>t DEF Server, VerifiersOK
    <3>2. ~Verifies(d) /\ ~Verifies(e)
      BY <2>2 DEF VerifiersOK
    <3>3. VerifiesNext(d) => d = c
      BY <2>2, <3>2, StepEffects DEF Verifies
    <3>4. VerifiesNext(e) => e = c
      BY <2>2, <3>2, StepEffects DEF Verifies
    <3>5. call'[d].op = call[d].op
      BY <2>2, StepEffects
    <3> QED
      BY <3>1, <3>3, <3>4, <3>5 DEF VerifiersOK
  <2> QED
    BY <1>7, <2>1, <2>2 DEF VerifyCode
<1>8. ASSUME NEW c \in Call, SaveVerified(c) PROVE Goal(d, e)
  <2>1. Quiet
    BY <1>8, <1>t DEF SaveVerified
  <2>2. Kept(d) /\ Kept(e)
    BY <1>8, <1>t, StepEffects DEF Verifies, Verifying, At, SaveVerified
  <2> QED
    BY <2>1, <2>2, <1>k
<1>9. ASSUME NEW c \in Call, CreateOwnContact(c) PROVE Goal(d, e)
  <2>1. Quiet
    BY <1>9, <1>t DEF tables, counters, CreateOwnContact
  <2>2. Kept(d) /\ Kept(e)
    BY <1>9, <1>t, StepEffects DEF CallOK, Verifies, Verifying, Refreshing, At, CreateOwnContact
  <2> QED
    BY <2>1, <2>2, <1>k
<1>10. ASSUME NEW c \in Call, GenSignedPreKey(c) PROVE Goal(d, e)
  <2>1. Quiet
    BY <1>10, <1>t DEF tables, counters, GenSignedPreKey
  <2>2. Kept(d) /\ Kept(e)
    BY <1>10, <1>t, GenerateEffects DEF CallOK, Verifies, Verifying, Refreshing
  <2> QED
    BY <2>1, <2>2, <1>k
<1>11. ASSUME NEW c \in Call, StoreSignedPreKey(c) PROVE Goal(d, e)
  <2>1. Quiet
    BY <1>11, <1>t DEF tables, counters, StoreSignedPreKey
  <2>2. Kept(d) /\ Kept(e)
    BY <1>11, <1>t, StepEffects DEF CallOK, Verifies, Verifying, Refreshing, At, StoreSignedPreKey
  <2> QED
    BY <2>1, <2>2, <1>k
<1>12. ASSUME NEW c \in Call, StorePreKeys(c) PROVE Goal(d, e)
  <2>1. Quiet
    BY <1>12 DEF StorePreKeys
  <2>2. call[c].pc = "storeKeys" /\ (Finish(c) \/ Step(c, "publish"))
    BY <1>12 DEF StorePreKeys, Throw, At
  <2>3. Kept(d) /\ Kept(e)
    BY <2>2, StepEffects DEF Verifies, Verifying, Refreshing
  <2> QED
    BY <2>1, <2>3, <1>k
<1>13. ASSUME NEW c \in Call, SetPreKeys(c) PROVE Goal(d, e)
  <2>1. CASE server' = [server EXCEPT !.keys = GenPreKeys(c), !.signed = SignedKeyOf(c)]
    <3>1. server'.signed = SignedKeyOf(c) /\ server'.code = server.code /\ UNCHANGED status
      BY <1>13, <2>1, <1>t DEF Server, tables, SetPreKeys
    <3>2. SignedKeyOf(c) # None /\ call[c].pc = "publish" /\ Finish(c)
      BY <1>13, GeneratedKeys DEF SetPreKeys, At, Storing, Throw
    <3>3. CASE call[c].op = "verify"
      <4>1. Verifies(c) /\ status \in {"REGISTERED", "VERIFIED"}
        BY <3>2, <3>3, <1>t DEF CallOK, Verifies, Verifying, Refreshing
      <4>2. ~VerifiesNext(d) /\ ~VerifiesNext(e)
        BY <4>1, <3>2, StepEffects DEF VerifiersOK, Verifies
      <4> QED
        BY <4>1, <4>2, <3>1, <3>2 DEF VerifiersOK
    <3>4. CASE call[c].op = "bundle"
      <4>1. /\ ~Verifies(d) /\ ~Verifies(e)
            /\ ~server.code /\ status \in {"REGISTERED", "VERIFIED"}
        BY <3>4 DEF VerifiersOK
      <4>2. ~VerifiesNext(d) /\ ~VerifiesNext(e)
        BY <4>1, <3>2, StepEffects DEF Verifies
      <4> QED
        BY <4>1, <4>2, <3>1, <3>2
    <3> QED
      BY <3>2, <3>3, <3>4, <1>t DEF CallOK, Refreshing
  <2>2. CASE Throw(c) /\ UNCHANGED server
    <3>1. Quiet
      BY <1>13, <2>2 DEF tables, SetPreKeys
    <3>2. Kept(d) /\ Kept(e)
      BY <2>2, StepEffects DEF Throw, Verifies
    <3> QED
      BY <3>1, <3>2, <1>k
  <2> QED
    BY <1>13, <2>1, <2>2 DEF SetPreKeys
<1>14. ASSUME NEW c \in Call, NEW m \in Message, ReadPreKeyBundle(c, m) PROVE Goal(d, e)
  <2>1. Quiet
    BY <1>14 DEF tables, ReadPreKeyBundle
  <2>2. server'.signed # None
    BY <1>14 DEF VerifiersOK, ReadPreKeyBundle
  <2>3. (VerifiesNext(d) => Verifies(d)) /\ (VerifiesNext(e) => Verifies(e))
    BY <1>14, BundleEffects DEF Verifies
  <2> QED
    BY <2>1, <2>2, <2>3 DEF VerifiersOK
<1>15. ASSUME NEW c \in Call, CountPreKeys(c) PROVE Goal(d, e)
  <2>1. Quiet
    BY <1>15, <1>t DEF tables, counters, CountPreKeys
  <2>2. Kept(d) /\ Kept(e)
    BY <1>15, <1>t, StepEffects DEF CallOK, Verifies, Verifying, Refreshing, At, CountPreKeys
  <2> QED
    BY <2>1, <2>2, <1>k
<1>16. ASSUME NEW c \in Call, GetLastPreKeyId(c) PROVE Goal(d, e)
  <2>1. Quiet
    BY <1>16, <1>t DEF tables, counters, GetLastPreKeyId
  <2>2. Kept(d) /\ Kept(e)
    BY <1>16, <1>t, OffsetEffects DEF CallOK, Verifies, Verifying, Refreshing
  <2> QED
    BY <2>1, <2>2, <1>k
<1>17. ASSUME NEW m \in Message, WriteFirstMessage(m) PROVE Goal(d, e)
  <2>1. Quiet /\ UNCHANGED call
    BY <1>17, <1>t DEF Server, tables, WriteFirstMessage
  <2> QED
    BY <2>1, <1>k DEF Verifies
<1>18. ASSUME NEW m \in Message, Decrypt(m) PROVE Goal(d, e)
  <2>1. Quiet /\ UNCHANGED call
    BY <1>18, <1>t DEF Decrypt
  <2> QED
    BY <2>1, <1>k DEF Verifies
<1>19. CASE Crash
  <2>1. Quiet
    BY <1>19 DEF tables, Crash
  <2>2. Kept(d) /\ Kept(e)
    BY <1>19 DEF Idle, Crash
  <2> QED
    BY <2>1, <2>2, <1>k
<1>20. CASE UNCHANGED vars
  <2>1. Quiet /\ UNCHANGED call
    BY <1>20, <1>t DEF tables, vars
  <2> QED
    BY <2>1, <1>k DEF Verifies
<1> QED
  BY <1>1, <1>2, <1>3, <1>4, <1>5, <1>6, <1>7, <1>8, <1>9, <1>10, <1>11,
     <1>12, <1>13, <1>14, <1>15, <1>16, <1>17, <1>18, <1>19, <1>20
  DEF Next, Handle

\* What happens to a message changes its state only.
LEMMA MessageEffects ==
  ASSUME Types, NEW m \in Message, NEW n \in Message, NEW state,
         msg' = [msg EXCEPT ![m].state = state]
  PROVE  /\ msg'[n].state = IF n = m THEN state ELSE msg[n].state
         /\ msg'[n].key = msg[n].key /\ msg'[n].signed = msg[n].signed
  BY DEF Types, MessageRecord

\* With one reader, one bundle at a time stays one.
LEMMA OneBundleNext ==
  ASSUME Readers = 1, Types, CallsOK, OneBundle, [Next]_vars
  PROVE  OneBundle'
<1> DEFINE Alone(d, e) == call'[d].op = "bundle" /\ call'[e].op = "bundle" => d = e
           Sent(d) == call'[d].op = "bundle" => msg'[call'[d].msg].state = "sent"
           Goal(d, e) == Alone(d, e) /\ Sent(d)
           Kept(d) == call'[d].op = "bundle" =>
                        call[d].op = "bundle" /\ call'[d].msg = call[d].msg
<1> SUFFICES ASSUME NEW d \in Call, NEW e \in Call PROVE Goal(d, e)
  BY DEF OneBundle
<1>t. \A c \in Call : CallOK(call[c])
  BY DEF CallsOK
<1>m. call[d].op = "bundle" => call[d].msg \in Message
  BY <1>t DEF CallOK
<1>k. ASSUME UNCHANGED msg, Kept(d), Kept(e) PROVE Goal(d, e)
  BY <1>k DEF OneBundle
<1>f. ASSUME NEW c \in Call, Finish(c),
             UNCHANGED msg \/ call[c].op = "bundle"
      PROVE  Goal(d, e)
  <2>1. Kept(d) /\ Kept(e) /\ ~(call'[c].op = "bundle")
    BY <1>f, StepEffects
  <2>2. CASE UNCHANGED msg
    BY <2>1, <2>2, <1>k
  <2>3. CASE call[c].op = "bundle"
    BY <2>1, <2>3 DEF OneBundle
  <2> QED
    BY <1>f, <2>2, <2>3
<1>1. ASSUME NEW c \in Call, NEW op \in {"register", "verify"}, Receive(c, op) PROVE Goal(d, e)
  <2>1. UNCHANGED msg
    BY <1>1 DEF Receive
  <2>2. Kept(d) /\ Kept(e)
    BY <1>1, ReceiveEffects
  <2> QED
    BY <2>1, <2>2, <1>k
<1>2. ASSUME NEW c \in Call, FindByUsername(c) PROVE Goal(d, e)
  <2>1. UNCHANGED msg
    BY <1>2 DEF FindByUsername
  <2>2. Kept(d) /\ Kept(e)
    BY <1>2, FindEffects
  <2> QED
    BY <2>1, <2>2, <1>k
<1>3. ASSUME NEW c \in Call, CreateAccount(c) PROVE Goal(d, e)
  <2>1. UNCHANGED msg
    BY <1>3 DEF CreateAccount
  <2>2. Kept(d) /\ Kept(e)
    BY <1>3, StepEffects DEF CreateAccount
  <2> QED
    BY <2>1, <2>2, <1>k
<1>4. ASSUME NEW c \in Call, Reject(c) PROVE Goal(d, e)
  <2>1. UNCHANGED msg
    BY <1>4 DEF Reject
  <2>2. Kept(d) /\ Kept(e)
    BY <1>4, StepEffects DEF Reject
  <2> QED
    BY <2>1, <2>2, <1>k
<1>5. ASSUME NEW c \in Call, RequestSmsCode(c) PROVE Goal(d, e)
  <2>1. UNCHANGED msg
    BY <1>5 DEF RequestSmsCode
  <2>2. Kept(d) /\ Kept(e)
    BY <1>5, StepEffects DEF RequestSmsCode
  <2> QED
    BY <2>1, <2>2, <1>k
<1>6. ASSUME NEW c \in Call, SaveRegistered(c) PROVE Goal(d, e)
  <2>1. UNCHANGED msg
    BY <1>6 DEF SaveRegistered
  <2>2. Kept(d) /\ Kept(e)
    BY <1>6, StepEffects DEF SaveRegistered
  <2> QED
    BY <2>1, <2>2, <1>k
<1>7. ASSUME NEW c \in Call, VerifyCode(c) PROVE Goal(d, e)
  <2>1. UNCHANGED msg
    BY <1>7 DEF VerifyCode
  <2>2. Kept(d) /\ Kept(e)
    BY <1>7, StepEffects DEF VerifyCode
  <2> QED
    BY <2>1, <2>2, <1>k
<1>8. ASSUME NEW c \in Call, SaveVerified(c) PROVE Goal(d, e)
  <2>1. UNCHANGED msg
    BY <1>8 DEF SaveVerified
  <2>2. Kept(d) /\ Kept(e)
    BY <1>8, StepEffects DEF SaveVerified
  <2> QED
    BY <2>1, <2>2, <1>k
<1>9. ASSUME NEW c \in Call, CreateOwnContact(c) PROVE Goal(d, e)
  <2>1. UNCHANGED msg
    BY <1>9 DEF CreateOwnContact
  <2>2. Kept(d) /\ Kept(e)
    BY <1>9, StepEffects DEF CreateOwnContact
  <2> QED
    BY <2>1, <2>2, <1>k
<1>10. ASSUME NEW c \in Call, GenSignedPreKey(c) PROVE Goal(d, e)
  <2>1. UNCHANGED msg
    BY <1>10 DEF GenSignedPreKey
  <2>2. Kept(d) /\ Kept(e)
    BY <1>10, GenerateEffects
  <2> QED
    BY <2>1, <2>2, <1>k
<1>11. ASSUME NEW c \in Call, StoreSignedPreKey(c) PROVE Goal(d, e)
  <2>1. UNCHANGED msg
    BY <1>11 DEF StoreSignedPreKey
  <2>2. Kept(d) /\ Kept(e)
    BY <1>11, StepEffects DEF StoreSignedPreKey
  <2> QED
    BY <2>1, <2>2, <1>k
<1>12. ASSUME NEW c \in Call, StorePreKeys(c) PROVE Goal(d, e)
  <2>1. CASE Throw(c)
    BY <2>1, <1>f DEF Throw
  <2>2. CASE Step(c, "publish") /\ UNCHANGED msg
    BY <2>2, <1>k, StepEffects
  <2> QED
    BY <1>12, <2>1, <2>2 DEF StorePreKeys
<1>13. ASSUME NEW c \in Call, SetPreKeys(c) PROVE Goal(d, e)
  <2>1. Finish(c) /\ (UNCHANGED msg \/ call[c].op = "bundle")
    BY <1>13 DEF SetPreKeys, Throw
  <2> QED
    BY <2>1, <1>f
<1>14. ASSUME NEW c \in Call, NEW m \in Message, ReadPreKeyBundle(c, m) PROVE Goal(d, e)
  <2>1. /\ UNCHANGED msg /\ msg[m].state = "sent"
        /\ Cardinality(During("bundle")) < 1
    BY <1>14 DEF ReadPreKeyBundle
  <2>2. IsFiniteSet(During("bundle"))
    BY ConstantsAssumption, FS_Subset DEF During
  <2>3. During("bundle") = {}
    BY <2>1, <2>2, FS_EmptySet, FS_CardinalityType
  <2>4. /\ call'[d].op = "bundle" => d = c /\ call'[d].msg = m
        /\ call'[e].op = "bundle" => e = c
    BY <1>14, <2>3, BundleEffects DEF During
  <2> QED
    BY <2>1, <2>4
<1>15. ASSUME NEW c \in Call, CountPreKeys(c) PROVE Goal(d, e)
  <2>1. CASE Finish(c)
    BY <1>15, <2>1, <1>t, <1>f DEF CountPreKeys, At, CallOK
  <2>2. CASE Step(c, "readLast") /\ UNCHANGED msg
    BY <2>2, <1>k, StepEffects
  <2> QED
    BY <1>15, <2>1, <2>2 DEF CountPreKeys
<1>16. ASSUME NEW c \in Call, GetLastPreKeyId(c) PROVE Goal(d, e)
  <2>1. UNCHANGED msg
    BY <1>16 DEF GetLastPreKeyId
  <2>2. Kept(d) /\ Kept(e)
    BY <1>16, OffsetEffects
  <2> QED
    BY <2>1, <2>2, <1>k
<1>17. ASSUME NEW m \in Message, WriteFirstMessage(m) PROVE Goal(d, e)
  <2>1. UNCHANGED call /\ msg[m].state = "unsent"
    BY <1>17 DEF WriteFirstMessage
  <2>2. \A n \in Message : n # m => msg'[n] = msg[n]
    BY <1>17 DEF WriteFirstMessage, Types
  <2> QED
    BY <2>1, <2>2, <1>m DEF OneBundle
<1>18. ASSUME NEW m \in Message, Decrypt(m) PROVE Goal(d, e)
  <2>1. UNCHANGED call /\ msg[m].state = "handled"
    BY <1>18 DEF Decrypt
  <2>2. \A n \in Message : n # m => msg'[n] = msg[n]
    BY <1>18 DEF Decrypt, Types
  <2> QED
    BY <2>1, <2>2, <1>m DEF OneBundle
<1>19. CASE Crash
  BY <1>19 DEF Idle, Crash
<1>20. CASE UNCHANGED vars
  <2>1. UNCHANGED <<msg, call>>
    BY <1>20 DEF vars
  <2> QED
    BY <2>1, <1>k
<1> QED
  BY <1>1, <1>2, <1>3, <1>4, <1>5, <1>6, <1>7, <1>8, <1>9, <1>10, <1>11,
     <1>12, <1>13, <1>14, <1>15, <1>16, <1>17, <1>18, <1>19, <1>20
  DEF Next, Handle

\* Two handlers never make prekeys at once.
LEMMA OneMaker ==
  ASSUME CallsOK, VerifiersOK, OneBundle, NEW c \in Call, NEW d \in Call,
         call[c].pc \in Refreshing, call[d].pc \in Refreshing
  PROVE  c = d
<1>1. call[c].op \in {"verify", "bundle"} /\ call[d].op \in {"verify", "bundle"}
  BY DEF CallsOK, CallOK
<1>2. /\ call[c].op = "verify" => Verifies(c)
      /\ call[d].op = "verify" => Verifies(d)
  BY DEF Verifies, Verifying
<1> QED
  BY <1>1, <1>2 DEF VerifiersOK, OneBundle

-----------------------------------------------------------------------------
(* Keys that are out. *)

\* No keys are out at first.
LEMMA HeldInit == Init => HeldInv
  BY DEF Init, Idle, HeldInv, PublishedHeld, Outstanding, Making, Storing

\* A step that changes neither tables nor published keys, that takes messages
\* from handler to handler and starts no new batch.
LEMMA HeldFrame ==
  ASSUME HeldInv, UNCHANGED <<preKeys, signedKeys, batches>>,
         server'.keys = server.keys, server'.signed = server.signed,
         \A m \in Outstanding' :
           m \in Outstanding /\ msg'[m].key = msg[m].key /\ msg'[m].signed = msg[m].signed,
         \A c \in Call : Making(c)' => call'[c] = call[c]
  PROVE  HeldInv'
<1>1. PublishedHeld'
  BY DEF HeldInv, PublishedHeld
<1>2. /\ \A k \in server'.keys : k.batch <= batches'
      /\ \A m \in Outstanding' : msg'[m].key # None =>
           /\ msg'[m].key.batch <= batches'
           /\ msg'[m].key \notin server'.keys
           /\ \A n \in Outstanding' : n # m => msg'[n].key # msg'[m].key
  BY DEF HeldInv
<1>3. ASSUME NEW c \in Call, Making(c)'
      PROVE  /\ Making(c) /\ call'[c] = call[c]
             /\ SignedKeyOf(c)' = SignedKeyOf(c) /\ GenPreKeys(c)' = GenPreKeys(c)
  BY <1>3 DEF Making, SignedKeyOf, GenPreKeys
<1>4. ASSUME NEW c \in Call, Making(c)'
      PROVE  /\ \A k \in server'.keys : k.batch # call'[c].batch
             /\ \A m \in Outstanding' : msg'[m].key # None =>
                  msg'[m].key.batch # call'[c].batch
             /\ call'[c].pc = "storeSigned" => \A k \in signedKeys' : k.id # call'[c].signedId
             /\ call'[c].pc # "storeSigned" => SignedKeyOf(c)' \in signedKeys'
             /\ call'[c].pc = "publish" => GenPreKeys(c)' \subseteq preKeys'
  BY <1>3, <1>4 DEF HeldInv
<1> QED
  BY <1>1, <1>2, <1>4 DEF HeldInv

\* A handler's record at the step that stores a signed prekey.
LEMMA KeysOfStep ==
  ASSUME Types, NEW c \in Call, NEW pc, Step(c, pc)
  PROVE  SignedKeyOf(c)' = SignedKeyOf(c) /\ GenPreKeys(c)' = GenPreKeys(c)
  BY StepEffects DEF SignedKeyOf, GenPreKeys

\* A new batch is not that of any key that is out, and its signed prekey's id is free.
LEMMA HeldGenerate ==
  ASSUME Types, IdsBounded, CallsOK, VerifiersOK, OneBundle, HeldInv,
         NEW c \in Call, GenSignedPreKey(c)
  PROVE  HeldInv'
<1>1. /\ UNCHANGED <<preKeys, signedKeys, server, msg>> /\ batches' = batches + 1
      /\ batches \in Nat /\ call[c].pc = "readSigned"
      /\ server.keys \subseteq Key /\ \A m \in Message : msg[m].key \in Key \cup {None}
  BY ConstantsAssumption DEF GenSignedPreKey, At, tables, Types, Server, MessageRecord
<1>2. Outstanding' = Outstanding
  BY <1>1 DEF Outstanding
<1>3. PublishedHeld'
  BY <1>1, <1>2 DEF HeldInv, PublishedHeld
<1>4. /\ \A k \in server'.keys : k.batch < batches'
      /\ \A m \in Outstanding' : msg'[m].key # None =>
           /\ msg'[m].key.batch < batches'
           /\ msg'[m].key \notin server'.keys
           /\ \A n \in Outstanding' : n # m => msg'[n].key # msg'[m].key
  <2>1. \A k \in server.keys : k.batch \in Nat /\ k.batch <= batches
    BY <1>1, ConstantsAssumption DEF HeldInv, Key
  <2>2. ASSUME NEW m \in Outstanding, msg[m].key # None
        PROVE  msg[m].key.batch \in Nat /\ msg[m].key.batch <= batches
    BY <1>1, <2>2, ConstantsAssumption DEF HeldInv, Key, Outstanding
  <2> QED
    BY <1>1, <1>2, <2>1, <2>2 DEF HeldInv
<1>5. ASSUME NEW d \in Call, Making(d)' PROVE d = c
  <2>1. d # c => call[d].pc \in Refreshing
    BY <1>5, GenerateEffects DEF Making, Storing, Refreshing
  <2> QED
    BY <1>1, <2>1, OneMaker DEF Refreshing
<1>6. call'[c].pc = "storeSigned" /\ call'[c].batch = batches'
  BY GenerateEffects
<1>7. \A k \in signedKeys' : k.id # call'[c].signedId
  <2>1. call'[c].signedId = LastId(signedKeys) + 1
    BY GenerateEffects
  <2>2. \A k \in signedKeys : k.id \in Nat /\ k.id < LastId(signedKeys) + 1
    BY LastIds DEF Types, Key
  <2> QED
    BY <1>1, <2>1, <2>2, LastIds
<1>8. /\ \A k \in server'.keys : k.batch # call'[c].batch
      /\ \A m \in Outstanding' : msg'[m].key # None => msg'[m].key.batch # call'[c].batch
  <2>1. /\ \A k \in server'.keys : k.batch \in Nat
        /\ \A m \in Outstanding' : msg'[m].key # None => msg'[m].key.batch \in Nat
    BY <1>1, <1>2, ConstantsAssumption DEF Key, Outstanding
  <2> QED
    BY <1>1, <1>4, <1>6, <2>1
<1>9. /\ \A k \in server'.keys : k.batch <= batches'
      /\ \A m \in Outstanding' : msg'[m].key # None => msg'[m].key.batch <= batches'
  <2>1. /\ \A k \in server'.keys : k.batch \in Nat
        /\ \A m \in Outstanding' : msg'[m].key # None => msg'[m].key.batch \in Nat
    BY <1>1, <1>2, ConstantsAssumption DEF Key, Outstanding
  <2> QED
    BY <1>1, <1>4, <2>1
<1> QED
  BY <1>3, <1>4, <1>5, <1>6, <1>7, <1>8, <1>9 DEF HeldInv

\* The row of a signed prekey is added to the others: its id was free.
LEMMA HeldStoreSigned ==
  ASSUME Types, IdsBounded, CallsOK, VerifiersOK, OneBundle, HeldInv,
         NEW c \in Call, StoreSignedPreKey(c)
  PROVE  HeldInv'
<1>1. /\ UNCHANGED <<preKeys, server, msg, batches>>
      /\ call[c].pc = "storeSigned" /\ Step(c, "storeKeys")
      /\ signedKeys' = {k \in signedKeys : k.id # call[c].signedId} \cup {SignedKeyOf(c)}
  BY DEF StoreSignedPreKey, At, counters
<1>2. Outstanding' = Outstanding
  BY <1>1 DEF Outstanding
<1>3. Making(c) /\ signedKeys' = signedKeys \cup {SignedKeyOf(c)}
  BY <1>1 DEF HeldInv, Making, Storing
<1>4. PublishedHeld'
  BY <1>1, <1>2, <1>3 DEF HeldInv, PublishedHeld
<1>5. ASSUME NEW d \in Call, Making(d)' PROVE d = c
  <2>1. d # c => call[d].pc \in Refreshing
    BY <1>1, <1>5, StepEffects DEF Making, Storing, Refreshing
  <2> QED
    BY <1>1, <2>1, OneMaker DEF Refreshing
<1>6. /\ call'[c].pc = "storeKeys" /\ call'[c].batch = call[c].batch
      /\ SignedKeyOf(c)' = SignedKeyOf(c)
  BY <1>1, StepEffects, KeysOfStep
<1> QED
  BY <1>1, <1>2, <1>3, <1>4, <1>5, <1>6 DEF HeldInv

\* The rows of one-time prekeys are added to the others.
LEMMA HeldStoreKeys ==
  ASSUME Types, IdsBounded, CallsOK, VerifiersOK, OneBundle, HeldInv,
         NEW c \in Call, StorePreKeys(c), preKeys' = preKeys \cup GenPreKeys(c),
         Step(c, "publish"), UNCHANGED msg
  PROVE  HeldInv'
<1>1. /\ UNCHANGED <<signedKeys, server, msg, batches>> /\ call[c].pc = "storeKeys"
  BY DEF StorePreKeys, At
<1>2. Outstanding' = Outstanding
  BY <1>1 DEF Outstanding
<1>3. Making(c)
  BY <1>1 DEF Making, Storing
<1>4. PublishedHeld'
  BY <1>1, <1>2 DEF HeldInv, PublishedHeld
<1>5. ASSUME NEW d \in Call, Making(d)' PROVE d = c
  <2>1. d # c => call[d].pc \in Refreshing
    BY <1>1, <1>5, StepEffects DEF Making, Storing, Refreshing
  <2> QED
    BY <1>1, <2>1, OneMaker DEF Refreshing
<1>6. /\ call'[c].pc = "publish" /\ call'[c].batch = call[c].batch
      /\ SignedKeyOf(c)' = SignedKeyOf(c) /\ GenPreKeys(c)' = GenPreKeys(c)
  BY StepEffects, KeysOfStep
<1> QED
  BY <1>1, <1>2, <1>3, <1>4, <1>5, <1>6 DEF HeldInv

\* What is published has its rows, and no contact has a key of its batch.
LEMMA HeldPublish ==
  ASSUME Types, IdsBounded, CallsOK, VerifiersOK, OneBundle, HeldInv,
         NEW c \in Call, SetPreKeys(c), Finish(c),
         server' = [server EXCEPT !.keys = GenPreKeys(c), !.signed = SignedKeyOf(c)],
         msg' = IF call[c].op = "bundle" THEN [msg EXCEPT ![call[c].msg].state = "handled"]
                                         ELSE msg
  PROVE  HeldInv'
<1>1. /\ UNCHANGED <<preKeys, signedKeys, batches>> /\ call[c].pc = "publish"
      /\ server'.keys = GenPreKeys(c) /\ server'.signed = SignedKeyOf(c)
  BY DEF SetPreKeys, At, tables, Types, Server
<1>2. Making(c)
  BY <1>1 DEF Making, Storing
<1>3. \A m \in Message : msg'[m].key = msg[m].key /\ msg'[m].signed = msg[m].signed
  <2>1. CASE call[c].op = "bundle"
    BY <2>1, MessageEffects DEF CallsOK, CallOK
  <2>2. CASE call[c].op # "bundle"
    BY <2>2
  <2> QED
    BY <2>1, <2>2
<1>4. Outstanding' \subseteq Outstanding /\ Outstanding \subseteq Message
  <2>1. CASE call[c].op = "bundle"
    <3>1. call[c].msg \in Message /\ msg[call[c].msg].state = "sent"
      BY <2>1 DEF CallsOK, CallOK, OneBundle
    <3> QED
      BY <2>1, <3>1, MessageEffects DEF Outstanding
  <2>2. CASE call[c].op # "bundle"
    BY <2>2 DEF Outstanding
  <2> QED
    BY <2>1, <2>2
<1>5. \A d \in Call : ~Making(d)'
  <2> SUFFICES ASSUME NEW d \in Call, Making(d)' PROVE FALSE
    OBVIOUS
  <2>1. d # c /\ call[d].pc \in Refreshing
    BY StepEffects DEF Making, Storing, Refreshing
  <2> QED
    BY <1>1, <2>1, OneMaker DEF Refreshing
<1>6. /\ GenPreKeys(c) \subseteq preKeys /\ SignedKeyOf(c) \in signedKeys
      /\ \A m \in Outstanding : msg[m].key # None => msg[m].key.batch # call[c].batch
  BY <1>1, <1>2 DEF HeldInv
<1>7. \A k \in GenPreKeys(c) : k.batch = call[c].batch /\ k.batch <= batches
  BY <1>2, GeneratedKeys, ConstantsAssumption DEF Making, IdsBounded, Types
<1>8. PublishedHeld'
  <2>1. /\ server'.keys \subseteq preKeys'
        /\ server'.signed \in signedKeys' \cup {None}
    BY <1>1, <1>6
  <2>2. ASSUME NEW m \in Outstanding'
        PROVE  msg'[m].key \in preKeys' \cup {None} /\ msg'[m].signed \in signedKeys'
    BY <1>1, <1>3, <1>4 DEF HeldInv, PublishedHeld
  <2> QED
    BY <2>1, <2>2 DEF PublishedHeld
<1>9. ASSUME NEW m \in Outstanding', msg'[m].key # None
      PROVE  /\ msg'[m].key.batch <= batches'
             /\ msg'[m].key \notin server'.keys
             /\ \A n \in Outstanding' : n # m => msg'[n].key # msg'[m].key
  <2>1. m \in Outstanding /\ msg[m].key # None /\ msg'[m].key = msg[m].key
    BY <1>3, <1>4, <1>9
  <2>2. msg'[m].key \notin server'.keys
    BY <1>1, <1>6, <1>7, <2>1
  <2>3. \A n \in Outstanding' : n # m => msg'[n].key # msg'[m].key
    BY <1>3, <1>4, <2>1 DEF HeldInv
  <2> QED
    BY <1>1, <2>1, <2>2, <2>3 DEF HeldInv
<1> QED
  BY <1>1, <1>5, <1>7, <1>8, <1>9 DEF HeldInv

\* A key goes from the server to one message.
LEMMA HeldWrite ==
  ASSUME Types, HeldInv, NEW m \in Message, WriteFirstMessage(m)
  PROVE  HeldInv'
<1>1. /\ UNCHANGED <<preKeys, signedKeys, batches, call>>
      /\ msg[m].state = "unsent" /\ server.signed # None
      /\ server \in Server /\ None \notin server.keys
  BY NoneAssumption DEF WriteFirstMessage, tables, counters, Types, Server
<1>2. PICK k \in server.keys \cup {None} :
        /\ msg' = [msg EXCEPT ![m] = [state |-> "sent", key |-> k, signed |-> server.signed]]
        /\ server' = [server EXCEPT !.keys = server.keys \ {k}]
  BY DEF WriteFirstMessage
<1>3. server'.keys = server.keys \ {k} /\ server'.signed = server.signed
  BY <1>1, <1>2 DEF Server
<1>4. /\ msg'[m] = [state |-> "sent", key |-> k, signed |-> server.signed]
      /\ \A n \in Message : n # m => msg'[n] = msg[n]
  BY <1>2 DEF Types
<1>5. Outstanding' = Outstanding \cup {m} /\ m \notin Outstanding /\ Outstanding \subseteq Message
  BY <1>1, <1>4 DEF Outstanding
<1>6. PublishedHeld'
  <2>1. k \in preKeys \cup {None} /\ server.signed \in signedKeys
    BY <1>1 DEF HeldInv, PublishedHeld
  <2> QED
    BY <1>1, <1>3, <1>4, <1>5, <2>1 DEF HeldInv, PublishedHeld
<1>7. ASSUME NEW n \in Outstanding', msg'[n].key # None
      PROVE  /\ msg'[n].key.batch <= batches'
             /\ msg'[n].key \notin server'.keys
             /\ \A o \in Outstanding' : o # n => msg'[o].key # msg'[n].key
  <2>1. CASE n = m
    <3>1. msg'[n].key = k /\ k \in server.keys
      BY <1>4, <1>7, <2>1
    <3>2. ASSUME NEW o \in Outstanding', o # n PROVE msg'[o].key # k
      <4>1. o \in Outstanding /\ msg'[o].key = msg[o].key
        BY <1>4, <1>5, <2>1, <3>2
      <4> QED
        BY <1>1, <3>1, <4>1 DEF HeldInv
    <3> QED
      BY <1>1, <1>3, <3>1, <3>2 DEF HeldInv
  <2>2. CASE n # m
    <3>1. n \in Outstanding /\ msg'[n].key = msg[n].key
      BY <1>4, <1>5, <2>2
    <3>2. ASSUME NEW o \in Outstanding', o # n PROVE msg'[o].key # msg[n].key
      <4>1. CASE o = m
        BY <1>1, <1>4, <1>7, <3>1, <4>1 DEF HeldInv
      <4>2. CASE o # m
        BY <1>4, <1>5, <1>7, <3>1, <3>2, <4>2 DEF HeldInv
      <4> QED
        BY <4>1, <4>2
    <3> QED
      BY <1>1, <1>3, <1>7, <3>1, <3>2 DEF HeldInv
  <2> QED
    BY <2>1, <2>2
<1>8. ASSUME NEW c \in Call, Making(c)'
      PROVE  /\ Making(c) /\ SignedKeyOf(c)' = SignedKeyOf(c)
             /\ GenPreKeys(c)' = GenPreKeys(c)
             /\ \A l \in server'.keys : l.batch # call'[c].batch
             /\ \A n \in Outstanding' : msg'[n].key # None =>
                  msg'[n].key.batch # call'[c].batch
  <2>1. Making(c)
    BY <1>1, <1>8 DEF Making
  <2>2. SignedKeyOf(c)' = SignedKeyOf(c) /\ GenPreKeys(c)' = GenPreKeys(c)
    BY <1>1 DEF SignedKeyOf, GenPreKeys
  <2>3. ASSUME NEW n \in Outstanding', msg'[n].key # None
        PROVE  msg'[n].key.batch # call'[c].batch
    BY <1>1, <1>4, <1>5, <2>1, <2>3 DEF HeldInv
  <2> QED
    BY <1>1, <1>3, <2>1, <2>2, <2>3 DEF HeldInv
<1> QED
  BY <1>1, <1>3, <1>6, <1>7, <1>8 DEF HeldInv

\* The key that a message uses up is nobody else's.
LEMMA HeldDecrypt ==
  ASSUME Types, IdsBounded, HeldInv, NEW m \in Message, Decrypt(m)
  PROVE  HeldInv'
<1>1. /\ UNCHANGED <<signedKeys, server, call, batches>>
      /\ msg[m].state = "handled" /\ msg' = [msg EXCEPT ![m].state = "gone"]
      /\ preKeys' = preKeys \ {msg[m].key} /\ None \notin server.keys
      /\ msg[m].key \in Key \cup {None}
  BY NoneAssumption DEF Decrypt, counters, Types, Server, MessageRecord
<1>2. \A n \in Message : /\ msg'[n].key = msg[n].key /\ msg'[n].signed = msg[n].signed
                         /\ msg'[n].state = IF n = m THEN "gone" ELSE msg[n].state
  <2>1. msg \in [Message -> MessageRecord] /\ msg' = [msg EXCEPT ![m].state = "gone"]
    BY <1>1 DEF Types
  <2> QED
    BY <2>1 DEF MessageRecord
<1>3. Outstanding' = Outstanding \ {m} /\ m \in Outstanding /\ Outstanding \subseteq Message
  BY <1>1, <1>2 DEF Outstanding
<1>4. PublishedHeld'
  <2>1. server'.keys \subseteq preKeys'
    BY <1>1, <1>3 DEF HeldInv, PublishedHeld
  <2>2. ASSUME NEW n \in Outstanding'
        PROVE  msg'[n].key \in preKeys' \cup {None} /\ msg'[n].signed \in signedKeys'
    <3>1. n \in Outstanding /\ n # m /\ msg'[n].key = msg[n].key
      BY <1>2, <1>3
    <3>2. msg[n].key # None => msg[m].key # msg[n].key
      BY <1>3, <3>1 DEF HeldInv
    <3> QED
      BY <1>1, <1>2, <1>3, <3>1, <3>2 DEF HeldInv, PublishedHeld
  <2> QED
    BY <1>1, <2>1, <2>2 DEF HeldInv, PublishedHeld
<1>5. /\ \A k \in server'.keys : k.batch <= batches'
      /\ \A n \in Outstanding' : msg'[n].key # None =>
           /\ msg'[n].key.batch <= batches'
           /\ msg'[n].key \notin server'.keys
           /\ \A o \in Outstanding' : o # n => msg'[o].key # msg'[n].key
  BY <1>1, <1>2, <1>3 DEF HeldInv
<1>6. ASSUME NEW c \in Call, Making(c)'
      PROVE  /\ \A k \in server'.keys : k.batch # call'[c].batch
             /\ \A n \in Outstanding' : msg'[n].key # None =>
                  msg'[n].key.batch # call'[c].batch
             /\ call'[c].pc = "storeSigned" => \A k \in signedKeys' : k.id # call'[c].signedId
             /\ call'[c].pc # "storeSigned" => SignedKeyOf(c)' \in signedKeys'
             /\ call'[c].pc = "publish" => GenPreKeys(c)' \subseteq preKeys'
  <2>1. Making(c)
    BY <1>1, <1>6 DEF Making
  <2>2. SignedKeyOf(c)' = SignedKeyOf(c) /\ GenPreKeys(c)' = GenPreKeys(c)
    BY <1>1 DEF SignedKeyOf, GenPreKeys
  <2>3. msg[m].key # None => msg[m].key.batch # call[c].batch
    BY <1>3, <2>1 DEF HeldInv
  <2>4. \A k \in GenPreKeys(c) : k \in Key /\ k.batch = call[c].batch
    BY <2>1, GeneratedKeys DEF Making
  <2>5. msg[m].key \notin GenPreKeys(c)
    BY <2>3, <2>4, NoneAssumption
  <2> QED
    BY <1>1, <1>2, <1>3, <2>1, <2>2, <2>5 DEF HeldInv
<1> QED
  BY <1>4, <1>5, <1>6 DEF HeldInv

\* Every step keeps the keys that are out.
LEMMA HeldNext ==
  ASSUME Types, IdsBounded, CallsOK, VerifiersOK, OneBundle, HeldInv, [Next]_vars
  PROVE  HeldInv'
<1> DEFINE Tables == /\ UNCHANGED <<preKeys, signedKeys, batches>>
                     /\ server'.keys = server.keys /\ server'.signed = server.signed
           Makers == \A c \in Call : Making(c)' => call'[c] = call[c]
           Letters == \A m \in Outstanding' :
             m \in Outstanding /\ msg'[m].key = msg[m].key /\ msg'[m].signed = msg[m].signed
<1>t. /\ server \in Server /\ \A c \in Call : CallOK(call[c])
      /\ \A c \in Call : call[c].op = "bundle" =>
           call[c].msg \in Message /\ msg[call[c].msg].state = "sent"
  BY DEF Types, CallsOK, CallOK, OneBundle
<1>f. ASSUME Tables, Makers, Letters PROVE HeldInv'
  BY <1>f, HeldFrame
<1>m. ASSUME UNCHANGED msg PROVE Letters
  BY <1>m DEF Outstanding
<1>b. ASSUME NEW c \in Call, call[c].op = "bundle", NEW state \in {"handled", "gone"},
             msg' = [msg EXCEPT ![call[c].msg].state = state]
      PROVE  Letters
  BY <1>b, <1>t, MessageEffects DEF Outstanding
<1>x. ASSUME NEW c \in Call, Throw(c), Tables PROVE HeldInv'
  <2>1. Makers
    BY <1>x, StepEffects DEF Throw, Making, Storing
  <2>2. Letters
    BY <1>x, <1>m, <1>b DEF Throw
  <2> QED
    BY <1>x, <2>1, <2>2, <1>f
<1>1. ASSUME NEW c \in Call, NEW op \in {"register", "verify"}, Receive(c, op) PROVE HeldInv'
  <2>1. Tables /\ UNCHANGED msg
    BY <1>1, <1>t DEF tables, counters, Receive
  <2>2. Makers
    BY <1>1, ReceiveEffects DEF Making, Storing
  <2> QED
    BY <2>1, <2>2, <1>m, <1>f
<1>2. ASSUME NEW c \in Call, FindByUsername(c) PROVE HeldInv'
  <2>1. Tables /\ UNCHANGED msg
    BY <1>2, <1>t DEF tables, counters, FindByUsername
  <2>2. Makers
    BY <1>2, FindEffects DEF Making, Storing
  <2> QED
    BY <2>1, <2>2, <1>m, <1>f
<1>3. ASSUME NEW c \in Call, CreateAccount(c) PROVE HeldInv'
  <2>1. Tables /\ UNCHANGED msg
    BY <1>3, <1>t DEF tables, counters, CreateAccount
  <2>2. Makers
    BY <1>3, StepEffects DEF At, Making, Storing, CreateAccount
  <2> QED
    BY <2>1, <2>2, <1>m, <1>f
<1>4. ASSUME NEW c \in Call, Reject(c) PROVE HeldInv'
  <2>1. Tables /\ UNCHANGED msg
    BY <1>4, <1>t DEF tables, counters, Reject
  <2>2. Makers
    BY <1>4, StepEffects DEF At, Making, Storing, Reject
  <2> QED
    BY <2>1, <2>2, <1>m, <1>f
<1>5. ASSUME NEW c \in Call, RequestSmsCode(c) PROVE HeldInv'
  <2>1. Tables /\ UNCHANGED msg
    BY <1>5, <1>t DEF Server, tables, counters, RequestSmsCode
  <2>2. Makers
    BY <1>5, StepEffects DEF At, Making, Storing, RequestSmsCode
  <2> QED
    BY <2>1, <2>2, <1>m, <1>f
<1>6. ASSUME NEW c \in Call, SaveRegistered(c) PROVE HeldInv'
  <2>1. Tables /\ UNCHANGED msg
    BY <1>6, <1>t DEF tables, counters, SaveRegistered
  <2>2. Makers
    BY <1>6, StepEffects DEF At, Making, Storing, SaveRegistered
  <2> QED
    BY <2>1, <2>2, <1>m, <1>f
<1>7. ASSUME NEW c \in Call, VerifyCode(c) PROVE HeldInv'
  <2>1. Tables /\ UNCHANGED msg
    BY <1>7, <1>t DEF Server, tables, counters, VerifyCode
  <2>2. Makers
    BY <1>7, StepEffects DEF At, Making, Storing, VerifyCode
  <2> QED
    BY <2>1, <2>2, <1>m, <1>f
<1>8. ASSUME NEW c \in Call, SaveVerified(c) PROVE HeldInv'
  <2>1. Tables /\ UNCHANGED msg
    BY <1>8, <1>t DEF tables, counters, SaveVerified
  <2>2. Makers
    BY <1>8, StepEffects DEF At, Making, Storing, SaveVerified
  <2> QED
    BY <2>1, <2>2, <1>m, <1>f
<1>9. ASSUME NEW c \in Call, CreateOwnContact(c) PROVE HeldInv'
  <2>1. Tables /\ UNCHANGED msg
    BY <1>9, <1>t DEF tables, counters, CreateOwnContact
  <2>2. Makers
    BY <1>9, StepEffects DEF At, Making, Storing, CreateOwnContact
  <2> QED
    BY <2>1, <2>2, <1>m, <1>f
<1>10. ASSUME NEW c \in Call, GenSignedPreKey(c) PROVE HeldInv'
  BY <1>10, HeldGenerate
<1>11. ASSUME NEW c \in Call, StoreSignedPreKey(c) PROVE HeldInv'
  BY <1>11, HeldStoreSigned
<1>12. ASSUME NEW c \in Call, StorePreKeys(c) PROVE HeldInv'
  <2>1. CASE Throw(c) /\ UNCHANGED preKeys
    <3>1. Tables
      BY <1>12, <2>1 DEF StorePreKeys
    <3> QED
      BY <2>1, <3>1, <1>x
  <2>2. CASE /\ preKeys' = preKeys \cup GenPreKeys(c)
             /\ Step(c, "publish") /\ UNCHANGED msg
    BY <1>12, <2>2, HeldStoreKeys
  <2> QED
    BY <1>12, <2>1, <2>2 DEF StorePreKeys
<1>13. ASSUME NEW c \in Call, SetPreKeys(c) PROVE HeldInv'
  <2>1. CASE Throw(c) /\ UNCHANGED server
    <3>1. Tables
      BY <1>13, <2>1 DEF tables, SetPreKeys
    <3> QED
      BY <2>1, <3>1, <1>x
  <2>2. CASE ~(Throw(c) /\ UNCHANGED server)
    BY <1>13, <2>2, HeldPublish DEF SetPreKeys
  <2> QED
    BY <2>1, <2>2
<1>14. ASSUME NEW c \in Call, NEW m \in Message, ReadPreKeyBundle(c, m) PROVE HeldInv'
  <2>1. Tables /\ UNCHANGED msg
    BY <1>14, <1>t DEF tables, counters, ReadPreKeyBundle
  <2>2. Makers
    BY <1>14, BundleEffects DEF Making, Storing
  <2> QED
    BY <2>1, <2>2, <1>m, <1>f
<1>15. ASSUME NEW c \in Call, CountPreKeys(c) PROVE HeldInv'
  <2>1. Tables /\ call[c].op = "bundle"
    BY <1>15, <1>t DEF tables, counters, CountPreKeys, At, CallOK
  <2>2. Makers
    BY <1>15, StepEffects DEF CountPreKeys, Making, Storing
  <2>3. Letters
    BY <1>15, <2>1, <1>m, <1>b DEF CountPreKeys
  <2> QED
    BY <2>1, <2>2, <2>3, <1>f
<1>16. ASSUME NEW c \in Call, GetLastPreKeyId(c) PROVE HeldInv'
  <2>1. Tables /\ UNCHANGED msg
    BY <1>16, <1>t DEF tables, counters, GetLastPreKeyId
  <2>2. Makers
    BY <1>16, OffsetEffects DEF Making, Storing
  <2> QED
    BY <2>1, <2>2, <1>m, <1>f
<1>17. ASSUME NEW m \in Message, WriteFirstMessage(m) PROVE HeldInv'
  BY <1>17, HeldWrite
<1>18. ASSUME NEW m \in Message, Decrypt(m) PROVE HeldInv'
  BY <1>18, HeldDecrypt
<1>19. CASE Crash
  <2>1. Tables /\ Makers
    BY <1>19 DEF Crash, tables, Making, Storing, Idle
  <2>2. ASSUME NEW m \in Message
        PROVE  /\ msg'[m].key = msg[m].key /\ msg'[m].signed = msg[m].signed
               /\ msg'[m].state \in {msg[m].state, "gone"}
    BY <1>19 DEF Crash, Types, MessageRecord
  <2>3. Letters
    BY <2>2 DEF Outstanding
  <2> QED
    BY <2>1, <2>3, <1>f
<1>20. CASE UNCHANGED vars
  <2>1. Tables /\ Makers /\ UNCHANGED msg
    BY <1>20 DEF tables, counters, vars
  <2> QED
    BY <2>1, <1>m, <1>f
<1> QED
  BY <1>1, <1>2, <1>3, <1>4, <1>5, <1>6, <1>7, <1>8, <1>9, <1>10, <1>11,
     <1>12, <1>13, <1>14, <1>15, <1>16, <1>17, <1>18, <1>19, <1>20
  DEF Next, Handle

\* Every key that the server holds or a contact has used is in the tables, as
\* long as one reader handles prekey bundles: refreshing neither overwrites nor
\* reissues an id that is in use.
THEOREM KeysHeld == ASSUME Readers = 1 PROVE Spec => []PublishedHeld
<1> DEFINE I == Inv /\ VerifiersOK /\ OneBundle /\ HeldInv
<1>1. Init => I
  BY TypesInit, HandlersInit, VerifiersInit, HeldInit DEF Inv
<1>2. I /\ [Next]_vars => I'
  BY TypesNext, IdsBoundedNext, CallsOKNext, RegistersOKNext, ReachableNext, VerifiersNext,
     OneBundleNext, HeldNext DEF Inv
<1>3. I => PublishedHeld
  BY DEF HeldInv
<1> HIDE DEF I
<1> QED
  BY <1>1, <1>2, <1>3, PTL DEF Spec

-----------------------------------------------------------------------------
(* The rows of the two tables are told apart by their ids. *)

IdsApart(rows) == \A k, l \in rows : k.id = l.id => k = l

KeysApart == IdsApart(preKeys) /\ IdsApart(signedKeys)

\* A step that neither inserts rows nor changes them.
LEMMA ApartKept ==
  ASSUME KeysApart, preKeys' \subseteq preKeys, signedKeys' \subseteq signedKeys
  PROVE  KeysApart'
BY DEF KeysApart, IdsApart

LEMMA KeysApartNext ==
  ASSUME Types, IdsBounded, KeysApart, [Next]_vars PROVE KeysApart'
<1>1. ASSUME NEW c \in Call, StoreSignedPreKey(c) PROVE KeysApart'
  <2>1. SignedKeyOf(c).id = call[c].signedId
    BY DEF SignedKeyOf
  <2>2. IdsApart(signedKeys)'
    BY <1>1, <2>1 DEF KeysApart, IdsApart, StoreSignedPreKey
  <2> QED
    BY <1>1, <2>2 DEF KeysApart, IdsApart, StoreSignedPreKey
<1>2. ASSUME NEW c \in Call, StorePreKeys(c) PROVE KeysApart'
  <2>1. CASE \E k \in GenPreKeys(c), l \in preKeys : k.id = l.id
    BY <1>2, <2>1, ApartKept DEF StorePreKeys
  <2>2. CASE ~ \E k \in GenPreKeys(c), l \in preKeys : k.id = l.id
    <3>1. GenPreKeys(c) \subseteq Key /\ \A k \in GenPreKeys(c) : k.batch = call[c].batch
      BY <1>2, GeneratedKeys DEF StorePreKeys, At, Storing
    <3>2. \A k, l \in GenPreKeys(c) : k.id = l.id => k = l
      BY <3>1 DEF Key
    <3>3. preKeys' = preKeys \cup GenPreKeys(c) /\ UNCHANGED signedKeys
      BY <1>2, <2>2 DEF StorePreKeys
    <3> QED
      BY <2>2, <3>2, <3>3 DEF KeysApart, IdsApart
  <2> QED
    BY <2>1, <2>2
<1>3. ASSUME NEW m \in Message, Decrypt(m) PROVE KeysApart'
  BY <1>3, ApartKept DEF Decrypt
<1>4. CASE UNCHANGED <<preKeys, signedKeys>>
  BY <1>4, ApartKept
<1>5. ASSUME NEW c \in Call, Handle(c) PROVE KeysApart'
  <2>1. CASE \E op \in {"register", "verify"} : Receive(c, op)
    BY <1>4, <2>1 DEF Receive, tables
  <2>2. CASE FindByUsername(c) \/ CreateAccount(c) \/ Reject(c) \/ RequestSmsCode(c)
    BY <1>4, <2>2 DEF FindByUsername, CreateAccount, Reject, RequestSmsCode, tables
  <2>3. CASE SaveRegistered(c) \/ VerifyCode(c) \/ SaveVerified(c) \/ CreateOwnContact(c)
    BY <1>4, <2>3 DEF SaveRegistered, VerifyCode, SaveVerified, CreateOwnContact, tables
  <2>4. CASE GenSignedPreKey(c) \/ SetPreKeys(c) \/ CountPreKeys(c) \/ GetLastPreKeyId(c)
    BY <1>4, <2>4 DEF GenSignedPreKey, SetPreKeys, CountPreKeys, GetLastPreKeyId, tables
  <2>5. CASE \E m \in Message : ReadPreKeyBundle(c, m)
    BY <1>4, <2>5 DEF ReadPreKeyBundle, tables
  <2> QED
    BY <1>1, <1>2, <1>5, <2>1, <2>2, <2>3, <2>4, <2>5 DEF Handle
<1>6. ASSUME NEW m \in Message, WriteFirstMessage(m) PROVE KeysApart'
  BY <1>4, <1>6 DEF WriteFirstMessage, tables
<1>7. CASE Crash \/ UNCHANGED vars
  BY <1>4, <1>7 DEF Crash, vars, tables
<1> QED
  BY <1>3, <1>5, <1>6, <1>7 DEF Next

\* Every variable keeps its type, and no table holds two keys of one id, however
\* handlers that refresh prekeys interleave (SignalcPreKeyStore.kt inserts its
\* rows or fails, SignalcSignedPreKeyStore.kt replaces one of the same id).
THEOREM TypeCorrect == Spec => []TypeOK
<1>1. Init => KeysApart
  BY DEF Init, KeysApart, IdsApart
<1>2. Inv /\ KeysApart /\ [Next]_vars => KeysApart'
  BY KeysApartNext DEF Inv
<1>3. Inv /\ KeysApart => TypeOK
  <2> SUFFICES ASSUME Types, KeysApart PROVE TypeOK
    BY DEF Inv
  <2>1. ASSUME NEW c \in Call
        PROVE  /\ call[c].op \in {"none", "register", "verify", "bundle"}
               /\ call[c].account \in {None, "NEW", "REGISTERED", "VERIFIED"}
               /\ call[c].offset \in 0..(MaxKeyId + 1)
               /\ call[c].batch \in 1..MaxBatches \cup {None}
               /\ call[c].msg \in Message \cup {None}
    BY DEF Types, CallRecord, Operations, Statuses, Offsets, Batches
  <2>2. ASSUME NEW m \in Message
        PROVE  /\ msg[m].state \in {"unsent", "sent", "handled", "gone"}
               /\ msg[m].key \in Key \cup {None} /\ msg[m].signed \in Key \cup {None}
    BY DEF Types, MessageRecord
  <2>3. server.code \in BOOLEAN /\ server.keys \subseteq Key /\ server.signed \in Key \cup {None}
    BY DEF Types, Server
  <2> QED
    BY <2>1, <2>2, <2>3 DEF Types, KeysApart, IdsApart, TypeOK
<1> QED
  BY <1>1, <1>2, <1>3, Invariant, PTL DEF Spec

==============================================================================
