------------------------------ MODULE Accounts ------------------------------
(***************************************************************************)
(* One account of signalc and its prekeys: registration and verification   *)
(* (SocketReceiver.kt, AccountManager.kt, AccountStore.kt), the tables     *)
(* that hold the private parts of its prekeys (SignalcPreKeyStore.kt,      *)
(* SignalcSignedPreKeyStore.kt), and the prekeys that Signal's server      *)
(* hands to contacts, whose first message uses them up.                    *)
(*                                                                         *)
(* A key is an id and the batch it was generated with: two keys of one id  *)
(* are different keys.  Accounts share nothing, so one is enough.  Every   *)
(* transaction and every call of the server is a step.                     *)
(***************************************************************************)
EXTENDS Integers, FiniteSets, FiniteSetsExt

CONSTANTS
  Call,        \* handlers of requests and of prekey bundles
  Message,     \* first messages of contacts
  BatchSize,   \* PREKEY_BATCH_SIZE
  MinReserve,  \* PREKEY_MIN_RESERVE
  MaxKeyId,    \* Medium.MAX_VALUE
  MaxBatches,  \* bound: batches of prekeys that are generated
  MaxCrashes,  \* bound: restarts of signalc
  Readers,     \* bound: prekey bundles handled at once
  None

ASSUME ConstantsAssumption ==
  /\ BatchSize \in Nat \ {0} /\ MaxKeyId \in Nat \ {0} /\ MinReserve \in Nat
  /\ MaxBatches \in Nat /\ MaxCrashes \in Nat /\ Readers \in Nat \ {0}
  /\ IsFiniteSet(Call) /\ Call # {}

Key == [id: Nat, batch: 1..MaxBatches]

ASSUME NoneAssumption ==
  None \notin Key \cup Message \cup Nat \cup {"NEW", "REGISTERED", "VERIFIED"}

VARIABLES
  status,       \* of the account's row, "none" without one
  ownContact,   \* the account's contact record of itself exists
  preKeys,      \* rows of prekeys
  signedKeys,   \* rows of signed prekeys
  server,       \* Signal: an unused code, one-time prekeys, signed prekey
  msg,          \* first messages: the keys they were encrypted to
  call,         \* handlers in progress
  batches,      \* batches generated so far
  announced,    \* a client was told that the account is verified
  interrupted,  \* a verification ended between its steps
  crashes

tables == <<status, ownContact, preKeys, signedKeys>>
counters == <<batches, announced, interrupted, crashes>>
vars == <<tables, server, msg, call, counters>>

Idle == [op |-> "none", pc |-> "idle", account |-> None, msg |-> None,
         offset |-> 0, batch |-> None, signedId |-> None]

TypeOK ==
  /\ status \in {"none", "NEW", "REGISTERED", "VERIFIED"}
  /\ ownContact \in BOOLEAN
  /\ preKeys \subseteq Key /\ signedKeys \subseteq Key
  /\ server.code \in BOOLEAN /\ server.keys \subseteq Key /\ server.signed \in Key \cup {None}
  /\ \A m \in Message :
       /\ msg[m].state \in {"unsent", "sent", "handled", "gone"}
       /\ msg[m].key \in Key \cup {None} /\ msg[m].signed \in Key \cup {None}
  /\ \A c \in Call :
       /\ call[c].op \in {"none", "register", "verify", "bundle"}
       /\ call[c].account \in {None, "NEW", "REGISTERED", "VERIFIED"}
       /\ call[c].offset \in 0..(MaxKeyId + 1)
       /\ call[c].batch \in 1..MaxBatches \cup {None}
       /\ call[c].msg \in Message \cup {None}
  /\ \A k, l \in preKeys : k.id = l.id => k = l      \* primary keys
  /\ \A k, l \in signedKeys : k.id = l.id => k = l
  /\ announced \in BOOLEAN /\ interrupted \in BOOLEAN
  /\ batches \in 0..MaxBatches /\ crashes \in 0..MaxCrashes

Init ==
  /\ status = "none" /\ ownContact = FALSE
  /\ preKeys = {} /\ signedKeys = {}
  /\ server = [code |-> FALSE, keys |-> {}, signed |-> None]
  /\ msg = [m \in Message |-> [state |-> "unsent", key |-> None, signed |-> None]]
  /\ call = [c \in Call |-> Idle]
  /\ batches = 0 /\ crashes = 0
  /\ announced = FALSE /\ interrupted = FALSE

At(c, pc) == call[c].pc = pc
Step(c, pc) == call' = [call EXCEPT ![c].pc = pc]
Finish(c) == call' = [call EXCEPT ![c] = Idle]
During(op) == {c \in Call : call[c].op = op}

-----------------------------------------------------------------------------
(* Requests.  `During("register") = {}` is a bound: of two registrations   *)
(* that overlap the later one to save takes a verified account back to     *)
(* REGISTERED.                                                             *)

Receive(c, op) ==
  /\ At(c, "idle")
  /\ op = "register" => During("register") = {}
  /\ call' = [call EXCEPT ![c] = [Idle EXCEPT !.op = op, !.pc = "find"]]
  /\ UNCHANGED <<tables, server, msg, counters>>

FindByUsername(c) ==
  /\ At(c, "find")
  /\ call' = [call EXCEPT ![c].pc = IF status = "none" THEN "create" ELSE "loaded",
                          ![c].account = IF status = "none" THEN "NEW" ELSE status]
  /\ UNCHANGED <<tables, server, msg, counters>>

\* The insert of an account that another call created in the meantime fails.
CreateAccount(c) ==
  /\ At(c, "create")
  /\ IF status = "none"
     THEN status' = "NEW" /\ Step(c, "loaded")
     ELSE UNCHANGED status /\ Finish(c)
  /\ UNCHANGED <<ownContact, preKeys, signedKeys, server, msg, counters>>

Reject(c) ==
  /\ At(c, "loaded")
  /\ call[c].account # (IF call[c].op = "register" THEN "NEW" ELSE "REGISTERED")
  /\ Finish(c)
  /\ UNCHANGED <<tables, server, msg, counters>>

\* mutant: an account of any status may register
RequestSmsCodeAnyway(c) ==
  /\ At(c, "loaded") /\ call[c].op = "register"
  /\ server' = [server EXCEPT !.code = TRUE] /\ Step(c, "saveRegistered")
  /\ UNCHANGED <<tables, msg, counters>>

RequestSmsCode(c) ==
  /\ At(c, "loaded") /\ call[c].op = "register" /\ call[c].account = "NEW"
  /\ \/ server' = [server EXCEPT !.code = TRUE] /\ Step(c, "saveRegistered")
     \/ UNCHANGED server /\ Finish(c)
  /\ UNCHANGED <<tables, msg, counters>>

SaveRegistered(c) ==
  /\ At(c, "saveRegistered")
  /\ status' = "REGISTERED"
  /\ Finish(c)
  /\ UNCHANGED <<ownContact, preKeys, signedKeys, server, msg, counters>>

\* A wrong code, or none that is pending, is an authorization failure.
VerifyCode(c) ==
  /\ At(c, "loaded") /\ call[c].op = "verify" /\ call[c].account = "REGISTERED"
  /\ \/ /\ server.code
        /\ server' = [server EXCEPT !.code = FALSE]
        /\ Step(c, "saveVerified")
     \/ UNCHANGED server /\ Finish(c)
  /\ UNCHANGED <<tables, msg, counters>>

SaveVerified(c) ==
  /\ At(c, "saveVerified")
  /\ status' = "VERIFIED"
  /\ Step(c, "createContact")
  /\ UNCHANGED <<ownContact, preKeys, signedKeys, server, msg, counters>>

CreateOwnContact(c) ==
  /\ At(c, "createContact")
  /\ ownContact' = TRUE
  /\ IF ownContact
     THEN Finish(c) /\ interrupted' = TRUE
     ELSE Step(c, "readSigned") /\ UNCHANGED interrupted
  /\ UNCHANGED <<status, preKeys, signedKeys, server, msg, batches, announced, crashes>>

-----------------------------------------------------------------------------
(* Prekeys.                                                                *)

LastId(rows) == Max({k.id : k \in rows} \cup {0})

\* An exception leaves publishPreKeys: it fails the request, or the read loop
\* that handles a prekey bundle, and then the bundle's message is lost.
Throw(c) ==
  /\ Finish(c)
  /\ msg' = IF call[c].op = "bundle" THEN [msg EXCEPT ![call[c].msg].state = "gone"] ELSE msg
  /\ interrupted' = (interrupted \/ call[c].op = "verify")

GenSignedPreKey(c) ==
  /\ At(c, "readSigned") /\ batches < MaxBatches
  /\ batches' = batches + 1
  /\ call' = [call EXCEPT ![c].pc = "storeSigned", ![c].batch = batches',
                          ![c].signedId = LastId(signedKeys) + 1]
  /\ UNCHANGED <<tables, server, msg, announced, interrupted, crashes>>

SignedKeyOf(c) == [id |-> call[c].signedId, batch |-> call[c].batch]

\* The row of a signed prekey is inserted or, if its id is taken, updated.
StoreSignedPreKey(c) ==
  /\ At(c, "storeSigned")
  /\ signedKeys' = {k \in signedKeys : k.id # call[c].signedId} \cup {SignedKeyOf(c)}
  /\ Step(c, "storeKeys")
  /\ UNCHANGED <<status, ownContact, preKeys, server, msg, counters>>

GenPreKeys(c) ==
  {[id |-> (call[c].offset + i) % MaxKeyId, batch |-> call[c].batch] : i \in 0..(BatchSize - 1)}

\* mutant: the rows of one-time prekeys are inserted or updated
StorePreKeysOver(c) ==
  /\ At(c, "storeKeys")
  /\ preKeys' = {l \in preKeys : \A k \in GenPreKeys(c) : k.id # l.id} \cup GenPreKeys(c)
  /\ Step(c, "publish")
  /\ UNCHANGED <<status, ownContact, signedKeys, server, msg, counters>>

\* The rows of one-time prekeys are inserted, all or none.
StorePreKeys(c) ==
  /\ At(c, "storeKeys")
  /\ IF \E k \in GenPreKeys(c), l \in preKeys : k.id = l.id
     THEN Throw(c) /\ UNCHANGED preKeys
     ELSE /\ preKeys' = preKeys \cup GenPreKeys(c)
          /\ Step(c, "publish")
          /\ UNCHANGED <<msg, interrupted>>
  /\ UNCHANGED <<status, ownContact, signedKeys, server, batches, announced, crashes>>

\* mutant: the answer does not wait for the keys to be published
SetPreKeysLater(c) ==
  /\ At(c, "publish")
  /\ announced' = (announced \/ call[c].op = "verify")
  /\ Finish(c)
  /\ UNCHANGED <<tables, server, msg, interrupted, batches, crashes>>

SetPreKeys(c) ==
  /\ At(c, "publish")
  /\ \/ /\ server' = [server EXCEPT !.keys = GenPreKeys(c), !.signed = SignedKeyOf(c)]
        /\ announced' = (announced \/ call[c].op = "verify")
        /\ msg' = IF call[c].op = "bundle" THEN [msg EXCEPT ![call[c].msg].state = "handled"]
                                           ELSE msg
        /\ Finish(c)
        /\ UNCHANGED interrupted
     \/ Throw(c) /\ UNCHANGED <<server, announced>>
  /\ UNCHANGED <<tables, batches, crashes>>

-----------------------------------------------------------------------------
(* First messages of contacts.                                             *)

\* A contact takes the keys to start a session with: a one-time prekey, which
\* the server gives to nobody else, as long as there are any.
WriteFirstMessage(m) ==
  /\ msg[m].state = "unsent" /\ server.signed # None
  /\ \E k \in IF server.keys = {} THEN {None} ELSE server.keys :
       /\ msg' = [msg EXCEPT ![m] = [state |-> "sent", key |-> k, signed |-> server.signed]]
       /\ server' = [server EXCEPT !.keys = @ \ {k}]
  /\ UNCHANGED <<tables, call, counters>>

\* The reading loop handles one prekey bundle after the other.  A subscription
\* that is cancelled while it refreshes the prekeys leaves the refresh running,
\* and the next one reads on: `Readers` bounds how many may run at once.
ReadPreKeyBundle(c, m) ==
  /\ At(c, "idle") /\ status = "VERIFIED"
  /\ msg[m].state = "sent" /\ \A d \in Call : call[d].msg # m
  /\ Cardinality(During("bundle")) < Readers
  /\ call' = [call EXCEPT ![c] = [Idle EXCEPT !.op = "bundle", !.pc = "count", !.msg = m]]
  /\ UNCHANGED <<tables, server, msg, counters>>

CountPreKeys(c) ==
  /\ At(c, "count")
  /\ IF Cardinality(server.keys) >= MinReserve
     THEN /\ msg' = [msg EXCEPT ![call[c].msg].state = "handled"]
          /\ Finish(c)
     ELSE Step(c, "readLast") /\ UNCHANGED msg
  /\ UNCHANGED <<tables, server, counters>>

GetLastPreKeyId(c) ==
  /\ At(c, "readLast")
  /\ call' = [call EXCEPT ![c].pc = "readSigned", ![c].offset = LastId(preKeys) + 1]
  /\ UNCHANGED <<tables, server, msg, counters>>

\* Decrypting a first message uses its one-time prekey up.
Decrypt(m) ==
  /\ msg[m].state = "handled"
  /\ msg' = [msg EXCEPT ![m].state = "gone"]
  /\ preKeys' = preKeys \ {msg[m].key}
  /\ UNCHANGED <<status, ownContact, signedKeys, server, call, counters>>

\* signalc stops between any two steps and starts again with its tables.
Crash ==
  /\ crashes < MaxCrashes
  /\ crashes' = crashes + 1
  /\ call' = [c \in Call |-> Idle]
  /\ msg' = [m \in Message |->
       IF msg[m].state = "handled" \/ \E c \in Call : call[c].msg = m
       THEN [msg[m] EXCEPT !.state = "gone"] ELSE msg[m]]
  /\ interrupted' = (interrupted \/ During("verify") # {})
  /\ UNCHANGED <<tables, server, batches, announced>>

Handle(c) ==
  \/ \E op \in {"register", "verify"} : Receive(c, op)
  \/ FindByUsername(c) \/ CreateAccount(c) \/ Reject(c)
  \/ RequestSmsCode(c) \/ SaveRegistered(c)
  \/ VerifyCode(c) \/ SaveVerified(c) \/ CreateOwnContact(c)
  \/ GenSignedPreKey(c) \/ StoreSignedPreKey(c) \/ StorePreKeys(c) \/ SetPreKeys(c)
  \/ \E m \in Message : ReadPreKeyBundle(c, m)
  \/ CountPreKeys(c) \/ GetLastPreKeyId(c)

Next ==
  \/ \E c \in Call : Handle(c)
  \/ \E m \in Message : WriteFirstMessage(m) \/ Decrypt(m)
  \/ Crash

Spec == Init /\ [][Next]_vars

-----------------------------------------------------------------------------
(* Properties.                                                             *)

Outstanding == {m \in Message : msg[m].state \in {"sent", "handled"}}

\* Every key that the server holds, or that a contact has encrypted a message
\* to which is not decrypted yet, is in the tables with the same private part:
\* "generate prekeys, store them locally and publish them".  Refreshing must
\* never overwrite or reissue an id that is still in use, whatever restarts and
\* failures lie between its steps.
PublishedHeld ==
  /\ server.keys \subseteq preKeys
  /\ server.signed \in signedKeys \cup {None}
  /\ \A m \in Outstanding : msg[m].key \in preKeys \cup {None} /\ msg[m].signed \in signedKeys

\* A client that is told of a verified account can rely on its prekeys, and a
\* verified account lacks them only while its verification goes on or if that
\* was interrupted (nothing publishes them afterwards).
VerifiedReachable ==
  /\ announced => server.signed # None
  /\ status = "VERIFIED" /\ ~interrupted /\ During("verify") = {} => server.signed # None

\* A verified account never goes back to an earlier status: the only guard is
\* the status that register loaded before it asked Signal for a code.
VerifiedStays == [][status = "VERIFIED" => status' = "VERIFIED"]_vars
=============================================================================
