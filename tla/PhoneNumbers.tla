---------------------------- MODULE PhoneNumbers ----------------------------
(***************************************************************************)
(* The life of a phone number (src/app/registrar): it is bought from       *)
(* Twilio and recorded, registered with signal, given to a channel that is *)
(* created on it, and released when that is destroyed.  Calls of the HTTP  *)
(* API and startup jobs run at once in one event loop and interleave at    *)
(* every await; any of them may fail at a step.  Also the answers to text  *)
(* messages of people who have no Signal (registrar/phoneNumber/sms.js).   *)
(***************************************************************************)
EXTENDS Naturals, FiniteSets

CONSTANTS
  Number,      \* phone numbers
  Creation,    \* POST /channels; its admins are named after it
  Slot,        \* the purchases of a POST /phoneNumbers
  Api,         \* POST /phoneNumbers/register
  Provision,   \* the registrations of that POST /phoneNumbers
  Startup,     \* registerAllUnregistered, at startup
  Sender,      \* people who write text messages
  Text,        \* text messages being answered at once
  Quota,       \* smsQuotaAmount
  MaxFailures, \* bound: steps that fail
  AtOnce,      \* bound: calls in progress at once
  Asked,       \* bound: numbers that creations may ask for
  Initial,     \* status of each number's record at the start
  None

Registrar == Api \cup {Provision, Startup}

ASSUME ConstantsAssumption ==
  /\ Quota \in Nat /\ MaxFailures \in Nat /\ AtOnce \in Nat /\ Asked \subseteq Number
  /\ IsFiniteSet(Text)
  /\ None \notin Number \cup Creation
  /\ Initial \in [Number -> {"none", "PURCHASED", "VERIFIED"}]

VARIABLES
  record,      \* the status in the phoneNumbers table, "none" where there is no row
  twilio,      \* whether Twilio sells a number, bills it, or took it back
  keys,        \* numbers with key material in the keystore
  channel,     \* the channels table: the creation whose admins a channel has
  subscribed,  \* numbers signald was asked to receive messages for
  creation,    \* calls of create
  purchase,    \* calls of purchase
  registrar,   \* calls of registerMany
  callback,    \* the registration that waits for a number's verification
  destroy,     \* the call of destroy about each number
  sweep,       \* deleteVestigalKeystoreEntries
  text,        \* calls of respondToSms
  sent,        \* smsSenders.messagesSent, None where there is no row
  failures,    \* steps that failed
  met,         \* creations that another call about their number came across
  unclean      \* numbers of which a destroy failed, after changing something

tables == <<record, channel>>
outside == <<twilio, keys, subscribed>>
texts == <<text, sent>>
history == <<failures, met, unclean>>
vars == <<tables, outside, creation, purchase, registrar, callback, destroy, sweep, texts, history>>

Statuses == {"none", "PURCHASED", "VERIFIED", "ACTIVE"}

TypeOK ==
  /\ record \in [Number -> Statuses]
  /\ twilio \in [Number -> {"available", "billed", "released"}]
  /\ keys \subseteq Number /\ subscribed \subseteq Number
  /\ channel \in [Number -> Creation \cup {None}]
  /\ creation \in [Creation -> [pc: {"idle", "list", "subscribe", "find", "create", "activate",
                                     "announce"},
                                number: Number \cup {None}, found: BOOLEAN]]
  /\ purchase \in [Slot -> [pc: {"idle", "search", "create", "record", "bought", "failed"},
                            number: Number \cup {None}]]
  /\ registrar \in [Registrar -> [pc: {"next", "wait", "record"},
                                  todo: SUBSET Number, number: Number \cup {None}]]
  /\ callback \in [Number -> Registrar \cup {None}]
  /\ destroy \in [Number -> [pc: {"idle", "release", "unsubscribe", "keystore", "commit"},
                              channel: BOOLEAN]]
  /\ sweep \in [pc: {"start", "registering", "read", "filtered", "done"}, entries: SUBSET Number]
  /\ text \in [Text -> [pc: {"idle", "count", "increment"}, sender: Sender]]
  /\ sent \in [Sender -> 0..(Quota + Cardinality(Text)) \cup {None}]
  /\ failures \in 0..MaxFailures
  /\ met \subseteq Creation
  /\ unclean \subseteq Number

Init ==
  /\ record = Initial
  /\ twilio = [n \in Number |-> IF Initial[n] = "none" THEN "available" ELSE "billed"]
  /\ keys = {n \in Number : Initial[n] = "VERIFIED"}
  /\ channel = [n \in Number |-> None]
  /\ subscribed = {}
  /\ creation = [c \in Creation |-> [pc |-> "idle", number |-> None, found |-> FALSE]]
  /\ purchase = [s \in Slot |-> [pc |-> "idle", number |-> None]]
  /\ registrar = [x \in Registrar |-> [pc |-> "next", todo |-> {}, number |-> None]]
  /\ callback = [n \in Number |-> None]
  /\ destroy = [n \in Number |-> [pc |-> "idle", channel |-> FALSE]]
  /\ sweep = [pc |-> "start", entries |-> {}]
  /\ text \in [Text -> [pc: {"idle"}, sender: Sender]]
  /\ sent = [s \in Sender |-> None]
  /\ failures = 0 /\ met = {} /\ unclean = {}

-----------------------------------------------------------------------------
Fails == failures < MaxFailures /\ failures' = failures + 1

\* Rows that an open transaction deleted: another write of them waits.
Locked(n) == destroy[n].pc # "idle"
ChannelLocked(n) == destroy[n].channel /\ destroy[n].pc \notin {"idle", "release"}

Underway(c) == creation[c].pc # "idle"

\* A call other than those of `but` does something about number n.
Meet(n, but) ==
  met' = met \cup {c \in Creation \ but : Underway(c) /\ creation[c].number = n}

\* A call of registerMany that did not begin, or that is over.
Finished(x) == registrar[x].pc = "next" /\ registrar[x].todo = {}

InProgress ==
  Cardinality({c \in Creation : Underway(c)} \cup {x \in Registrar : ~Finished(x)}
              \cup {s \in Slot : purchase[s].pc \in {"search", "create", "record"}}
              \cup {n \in Number : Locked(n)} \cup {t \in Text : text[t].pc # "idle"}
              \cup {x \in {Startup} : sweep.pc \in {"read", "filtered"}})

Room == InProgress < AtOnce

\* phoneNumberRepository.update
SetStatus(n, status) ==
  record' = IF record[n] = "none" THEN record ELSE [record EXCEPT ![n] = status]

-----------------------------------------------------------------------------
(* Buying: purchase.js, provision.js. *)

\* provisionN buys n numbers at once
ProvisionN ==
  /\ Room
  /\ \A s \in Slot : purchase[s].pc \in {"idle", "failed"}
  /\ \E slots \in SUBSET {s \in Slot : purchase[s].pc = "idle"} :
       purchase' = [s \in Slot |-> IF s \in slots THEN [purchase[s] EXCEPT !.pc = "search"]
                                                  ELSE purchase[s]]
  /\ UNCHANGED <<tables, outside, creation, registrar, callback, destroy, sweep, texts, history>>

\* Its purchases end before the first of what it bought is registered.
RegisterPurchased ==
  LET bought == {s \in Slot : purchase[s].pc = "bought"} IN
  /\ bought # {} /\ \A s \in Slot : purchase[s].pc \in {"idle", "bought", "failed"}
  /\ Finished(Provision)
  /\ registrar' = [registrar EXCEPT ![Provision] =
       [pc |-> "next", number |-> None, todo |-> {purchase[s].number : s \in bought}]]
  /\ purchase' = [s \in Slot |-> IF s \in bought THEN [pc |-> "idle", number |-> None]
                                                 ELSE purchase[s]]
  /\ UNCHANGED <<tables, outside, creation, callback, destroy, sweep, texts, history>>

EndPurchase(s, n, pc) == purchase' = [purchase EXCEPT ![s] = [pc |-> pc, number |-> n]]

\* Searches that run at once may find the same number.
\* bound: a number that was released is not sold again
Search(s) ==
  LET available == {n \in Number : twilio[n] = "available"} IN
  /\ purchase[s].pc = "search"
  /\ \/ \E n \in available :
          purchase' = [purchase EXCEPT ![s].pc = "create", ![s].number = n]
     \/ available = {} /\ EndPurchase(s, None, "failed")
  /\ UNCHANGED <<tables, outside, creation, registrar, callback, destroy, sweep, texts, history>>

CreateTwilio(s) ==
  LET n == purchase[s].number IN
  /\ purchase[s].pc = "create"
  /\ \/ /\ twilio[n] = "available"
        /\ twilio' = [twilio EXCEPT ![n] = "billed"]
        /\ purchase' = [purchase EXCEPT ![s].pc = "record"]
        /\ UNCHANGED failures
     \/ twilio[n] = "billed" /\ EndPurchase(s, None, "failed") /\ UNCHANGED <<twilio, failures>>
     \/ twilio[n] = "available" /\ Fails /\ EndPurchase(s, None, "failed") /\ UNCHANGED twilio
  /\ UNCHANGED <<tables, keys, subscribed, creation, registrar, callback, destroy, sweep, texts,
                 met, unclean>>

RecordPurchase(s) ==
  LET n == purchase[s].number IN
  /\ purchase[s].pc = "record"
  /\ ~Locked(n)
  /\ \/ /\ record[n] = "none"
        /\ record' = [record EXCEPT ![n] = "PURCHASED"]
        /\ EndPurchase(s, n, "bought") /\ UNCHANGED failures
     \/ record[n] # "none" /\ EndPurchase(s, n, "failed") /\ UNCHANGED <<record, failures>>
     \/ Fails /\ EndPurchase(s, n, "failed") /\ UNCHANGED record
  /\ UNCHANGED <<channel, outside, creation, registrar, callback, destroy, sweep, texts, met,
                 unclean>>

-----------------------------------------------------------------------------
(* Registering: register.js.  A registration's promise is the callback of    *)
(* the number's verification: a later one takes its place.                   *)

\* Maintainers register numbers that are on record.
ApiRegister(x) ==
  /\ Room
  /\ Finished(x)
  /\ \E n \in {m \in Number : record[m] # "none"} :
       registrar' = [registrar EXCEPT ![x] = [pc |-> "next", todo |-> {n}, number |-> None]]
  /\ UNCHANGED <<tables, outside, creation, purchase, callback, destroy, sweep, texts, history>>

IsRegistered(n) == record[n] \in {"VERIFIED", "ACTIVE"} /\ n \in keys

\* Once, before the keystore is swept.
RegisterAllUnregistered ==
  /\ Room
  /\ sweep.pc = "start" /\ sweep' = [sweep EXCEPT !.pc = "registering"]
  /\ registrar' = [registrar EXCEPT ![Startup] =
       [pc |-> "next", number |-> None,
        todo |-> {n \in Number : record[n] # "none" /\ ~IsRegistered(n)}]]
  /\ UNCHANGED <<tables, outside, creation, purchase, callback, destroy, texts, history>>

\* The next of a batch, in sequence.
Register(x) ==
  /\ registrar[x].pc = "next"
  /\ \E n \in registrar[x].todo :
       /\ registrar' = [registrar EXCEPT ![x] = [pc |-> "wait", todo |-> @.todo \ {n},
                                                 number |-> n]]
       /\ callback' = [callback EXCEPT ![n] = x]
  /\ UNCHANGED <<tables, outside, creation, purchase, destroy, sweep, texts, history>>

\* handleSms forwards the code; signald has the keys, and answers.
Verify(x) ==
  LET n == registrar[x].number IN
  /\ registrar[x].pc = "wait" /\ callback[n] = x /\ twilio[n] = "billed"
  /\ keys' = keys \cup {n}
  /\ callback' = [callback EXCEPT ![n] = None]
  /\ registrar' = [registrar EXCEPT ![x].pc = "record"]
  /\ UNCHANGED <<tables, twilio, subscribed, creation, purchase, destroy, sweep, texts, history>>

\* Rejected by its timer, whose id may be another's by then, or by signald.
RegisterFails(x) ==
  LET n == registrar[x].number IN
  /\ registrar[x].pc = "wait"
  /\ registrar' = [registrar EXCEPT ![x].pc = "next", ![x].number = None]
  /\ callback' = [callback EXCEPT ![n] = None]
  /\ UNCHANGED <<tables, outside, creation, purchase, destroy, sweep, texts, history>>

RecordVerified(x) ==
  LET n == registrar[x].number IN
  /\ registrar[x].pc = "record" /\ ~Locked(n)
  /\ SetStatus(n, "VERIFIED")
  /\ registrar' = [registrar EXCEPT ![x].pc = "next", ![x].number = None]
  /\ Meet(n, {})
  /\ UNCHANGED <<channel, outside, creation, purchase, callback, destroy, sweep, texts, failures,
                 unclean>>

-----------------------------------------------------------------------------
(* Creating a channel: registrar/channel.js.                                 *)

Create(c) ==
  /\ Room
  /\ creation[c].pc = "idle"
  /\ \E n \in Asked \cup {None} :
       creation' = [creation EXCEPT ![c].pc = "list", ![c].number = n]
  /\ UNCHANGED <<tables, outside, purchase, registrar, callback, destroy, sweep, texts, history>>

\* The call is answered: ACTIVE, UNAVAILABLE or ERROR.
Answer(c) ==
  /\ creation' = [creation EXCEPT ![c] = [pc |-> "idle", number |-> None, found |-> FALSE]]
  /\ met' = met \ {c}

At(c, pc) == creation[c].pc = pc
Go(c, pc) == creation' = [creation EXCEPT ![c].pc = pc]

\* The database call or the socket write failed: the error is answered, and
\* nothing that was done before is undone.
CreationFails(c) ==
  /\ Underway(c)
  /\ Fails
  /\ Answer(c)
  /\ UNCHANGED <<tables, outside, purchase, registrar, callback, destroy, sweep, texts, unclean>>

\* findAll orders by status alone: any VERIFIED number may come first
ListVerified(c) ==
  LET available == {n \in Number : record[n] = "VERIFIED"} IN
  /\ At(c, "list")
  /\ \/ available = {} /\ Answer(c)
     \/ /\ available # {} /\ UNCHANGED met
        /\ \E n \in IF creation[c].number = None THEN available ELSE {creation[c].number} :
             creation' = [creation EXCEPT ![c].pc = "subscribe", ![c].number = n]
  /\ UNCHANGED <<tables, outside, purchase, registrar, callback, destroy, sweep, texts, failures,
                 unclean>>

Subscribe(c) ==
  LET n == creation[c].number IN
  /\ At(c, "subscribe")
  /\ subscribed' = subscribed \cup {n}
  /\ Go(c, "find")
  /\ Meet(n, {c})
  /\ UNCHANGED <<tables, twilio, keys, purchase, registrar, callback, destroy, sweep, texts,
                 failures, unclean>>

FindChannel(c) ==
  /\ At(c, "find")
  /\ creation' = [creation EXCEPT ![c].pc = "create",
                                  ![c].found = channel[creation[c].number] # None]
  /\ UNCHANGED <<tables, outside, purchase, registrar, callback, destroy, sweep, texts, history>>

\* Where a row was found, its update leaves the memberships as they are; where
\* one was inserted meanwhile the insert violates the primary key.
CreateChannel(c) ==
  LET n == creation[c].number IN
  /\ At(c, "create") /\ ~ChannelLocked(n)
  /\ \/ /\ ~creation[c].found /\ channel[n] = None
        /\ channel' = [channel EXCEPT ![n] = c] /\ Go(c, "activate") /\ Meet(n, {c})
     \/ ~creation[c].found /\ channel[n] # None /\ Answer(c) /\ UNCHANGED channel
     \/ creation[c].found /\ Go(c, "activate") /\ Meet(n, {c}) /\ UNCHANGED channel
  /\ UNCHANGED <<record, outside, purchase, registrar, callback, destroy, sweep, texts, failures,
                 unclean>>

\* mutant: the number stays VERIFIED
ActivateNothing(c) ==
  /\ At(c, "activate") /\ ~Locked(creation[c].number)
  /\ Go(c, "announce")
  /\ Meet(creation[c].number, {c})
  /\ UNCHANGED <<tables, outside, purchase, registrar, callback, destroy, sweep, texts, failures,
                 unclean>>

Activate(c) ==
  LET n == creation[c].number IN
  /\ At(c, "activate") /\ ~Locked(n)
  /\ SetStatus(n, "ACTIVE")
  /\ Go(c, "announce")
  /\ Meet(n, {c})
  /\ UNCHANGED <<channel, outside, purchase, registrar, callback, destroy, sweep, texts, failures,
                 unclean>>

\* The event, the welcome messages, the support channel's invites, the
\* maintainers' notice: none of them concerns the number.
Announce(c) ==
  /\ At(c, "announce")
  /\ Answer(c)
  /\ UNCHANGED <<tables, outside, purchase, registrar, callback, destroy, sweep, texts, failures,
                 unclean>>

-----------------------------------------------------------------------------
(* Destroying it: destroy.js, whose transaction deletes the rows of a number *)
(* and of its channel while Twilio, signald and the keystore are asked.      *)

DestroyStep(n, from, to) ==
  destroy[n].pc = from /\ destroy' = [destroy EXCEPT ![n].pc = to]

\* Finds the channel and the number, and deletes the number's row.
CallDestroy(n) ==
  /\ Room
  /\ destroy[n].pc = "idle" /\ record[n] # "none"
  /\ destroy' = [destroy EXCEPT ![n] = [pc |-> "release", channel |-> channel[n] # None]]
  /\ UNCHANGED <<tables, outside, creation, purchase, registrar, callback, sweep, texts, history>>

\* mutant: a release that fails is ignored
ReleaseOrNot(n) ==
  /\ DestroyStep(n, "release", "unsubscribe")
  /\ \/ twilio' = [twilio EXCEPT ![n] = "released"] /\ UNCHANGED failures
     \/ Fails /\ UNCHANGED twilio
  /\ UNCHANGED <<tables, keys, subscribed, creation, purchase, registrar, callback, sweep, texts,
                 met, unclean>>

\* A number that Twilio does not have any more counts as released.  The
\* channel's row is deleted next.
Release(n) ==
  /\ DestroyStep(n, "release", "unsubscribe")
  /\ twilio' = [twilio EXCEPT ![n] = "released"]
  /\ UNCHANGED <<tables, keys, subscribed, creation, purchase, registrar, callback, sweep, texts,
                 history>>

Unsubscribe(n) ==
  /\ DestroyStep(n, "unsubscribe", "keystore")
  /\ subscribed' = IF destroy[n].channel THEN subscribed \ {n} ELSE subscribed
  /\ Meet(n, {})
  /\ UNCHANGED <<tables, twilio, keys, creation, purchase, registrar, callback, sweep, texts,
                 failures, unclean>>

DeleteKeystore(n) ==
  /\ DestroyStep(n, "keystore", "commit")
  /\ keys' = keys \ {n}
  /\ UNCHANGED <<tables, twilio, subscribed, creation, purchase, registrar, callback, sweep, texts,
                 history>>

Commit(n) ==
  /\ DestroyStep(n, "commit", "idle")
  /\ record' = [record EXCEPT ![n] = "none"]
  /\ channel' = IF destroy[n].channel THEN [channel EXCEPT ![n] = None] ELSE channel
  /\ Meet(n, {})
  /\ UNCHANGED <<outside, creation, purchase, registrar, callback, sweep, texts, failures, unclean>>

\* The transaction is rolled back; what was done outside the database stays.
DestroyFails(n) ==
  /\ destroy[n].pc # "idle" /\ destroy' = [destroy EXCEPT ![n].pc = "idle"]
  /\ Fails
  /\ unclean' = IF destroy[n].pc = "release" THEN unclean ELSE unclean \cup {n}
  /\ Meet(n, {})
  /\ UNCHANGED <<tables, outside, creation, purchase, registrar, callback, sweep, texts>>

-----------------------------------------------------------------------------
(* deleteVestigalKeystoreEntries, at startup.                                *)

\* mutant: the numbers are looked up before the directory is read
SweepLooksUpFirst ==
  /\ Room
  /\ sweep.pc \in {"start", "registering"} /\ Finished(Startup)
  /\ sweep' = [pc |-> "read", entries |-> {n \in Number : record[n] = "none"}]
  /\ UNCHANGED <<tables, outside, creation, purchase, registrar, callback, destroy, texts, history>>

ReadKeystore ==
  /\ Room
  /\ sweep.pc \in {"start", "registering"} /\ Finished(Startup)
  /\ sweep' = [pc |-> "read", entries |-> keys]
  /\ UNCHANGED <<tables, outside, creation, purchase, registrar, callback, destroy, texts, history>>

FilterEntries ==
  /\ sweep.pc = "read"
  /\ sweep' = [pc |-> "filtered",
               entries |-> {n \in sweep.entries : record[n] = "none"}]
  /\ UNCHANGED <<tables, outside, creation, purchase, registrar, callback, destroy, texts, history>>

RemoveEntries ==
  /\ sweep.pc = "filtered"
  /\ keys' = keys \ sweep.entries
  /\ sweep' = [pc |-> "done", entries |-> {}]
  /\ UNCHANGED <<tables, twilio, subscribed, creation, purchase, registrar, callback, destroy, texts,
                 history>>

-----------------------------------------------------------------------------
(* Text messages: sms.js, smsSender.js.                                      *)

others == <<tables, outside, creation, purchase, registrar, callback, destroy, sweep, history>>

FoundOrCreated(s) == IF sent[s] = None THEN 0 ELSE sent[s]

\* mutant: the comparison lets one more through
CheckQuotaLate(t) ==
  LET s == text[t].sender IN
  /\ Room
  /\ text[t].pc = "idle"
  /\ sent' = [sent EXCEPT ![s] = FoundOrCreated(s)]
  /\ FoundOrCreated(s) <= Quota
  /\ text' = [text EXCEPT ![t].pc = "count"]
  /\ UNCHANGED others

\* hasReachedQuota; a sender who has is answered with an error
CheckQuota(t) ==
  LET s == text[t].sender IN
  /\ Room
  /\ text[t].pc = "idle"
  /\ sent' = [sent EXCEPT ![s] = FoundOrCreated(s)]
  /\ FoundOrCreated(s) < Quota
  /\ text' = [text EXCEPT ![t].pc = "count"]
  /\ UNCHANGED others

\* countMessage finds or creates the row and increments it
CountFinds(t) ==
  LET s == text[t].sender IN
  /\ text[t].pc = "count"
  /\ sent' = [sent EXCEPT ![s] = FoundOrCreated(s)]
  /\ text' = [text EXCEPT ![t].pc = "increment"]
  /\ UNCHANGED others

CountIncrements(t) ==
  LET s == text[t].sender IN
  /\ text[t].pc = "increment"
  /\ sent' = [sent EXCEPT ![s] = IF sent[s] = None THEN None ELSE sent[s] + 1]
  /\ text' = [text EXCEPT ![t].pc = "idle"]
  /\ UNCHANGED others

\* deleteExpired: a row that was made long enough ago
DeleteExpired(s) ==
  /\ sent[s] # None
  /\ sent' = [sent EXCEPT ![s] = None]
  /\ UNCHANGED <<text, others>>

-----------------------------------------------------------------------------
Buying ==
  \/ ProvisionN \/ RegisterPurchased
  \/ \E s \in Slot : Search(s) \/ CreateTwilio(s) \/ RecordPurchase(s)

Registering ==
  \/ \E x \in Api : ApiRegister(x)
  \/ RegisterAllUnregistered
  \/ \E x \in Registrar : Register(x) \/ Verify(x) \/ RegisterFails(x) \/ RecordVerified(x)

Creating ==
  \E c \in Creation :
    \/ Create(c) \/ ListVerified(c) \/ Subscribe(c) \/ FindChannel(c) \/ CreateChannel(c)
    \/ Activate(c) \/ Announce(c) \/ CreationFails(c)

Destroying ==
  \E n \in Number :
    \/ CallDestroy(n) \/ Release(n) \/ Unsubscribe(n) \/ DeleteKeystore(n) \/ Commit(n)
    \/ DestroyFails(n)

Sweeping == ReadKeystore \/ FilterEntries \/ RemoveEntries

Texting ==
  \/ \E t \in Text : CheckQuota(t) \/ CountFinds(t) \/ CountIncrements(t)
  \/ \E s \in Sender : DeleteExpired(s)

Next == Buying \/ Registering \/ Creating \/ Destroying \/ Sweeping \/ Texting

Spec == Init /\ [][Next]_vars

-----------------------------------------------------------------------------
(* Properties. *)

\* A creation of a channel that did not exist tells the truth about it, unless
\* another call about the number came across it.
CreationHolds ==
  \A c \in Creation : LET n == creation[c].number IN
    At(c, "announce") /\ c \notin met /\ ~creation[c].found /\ ~Locked(n) =>
      channel[n] = c /\ n \in subscribed /\ record[n] \in {"ACTIVE", "none"}

\* Twilio bills no number that nobody knows of: it is on record, or being
\* recorded, or was named in an error.
OwnedRecorded ==
  \A n \in Number : twilio[n] = "billed" /\ record[n] = "none" =>
    \E s \in Slot : purchase[s].number = n /\ purchase[s].pc \in {"record", "failed"}

\* A number that is in use or offered for use has its keys, whatever was swept,
\* destroyed and registered at once, unless a destroy of it goes on or failed.
KeysKept ==
  \A n \in Number \ unclean :
    record[n] \in {"VERIFIED", "ACTIVE"} /\ ~Locked(n) => n \in keys

\* Texts of one sender that come in at once exceed the quota by less than
\* their number.
QuotaOvershoot ==
  \A s \in Sender : sent[s] # None => sent[s] < Quota + Cardinality(Text)

=============================================================================
