----------------------- MODULE NumbersAndShardsProofs -----------------------
(***************************************************************************)
(* Proofs about two parts of signalboost.  PhoneNumbers: Twilio bills no   *)
(* number that nobody knows of, a number in use has its keys as long as    *)
(* creations choose their numbers, and text messages overshoot their quota *)
(* by less than their number.  Shards: channels are spread evenly.         *)
(***************************************************************************)
EXTENDS PhoneNumbers, Shards, FiniteSetTheorems, WellFoundedInduction, TLAPS

(* Types.  Calls at most of their labels are about a number.               *)

CreationRecord ==
  [pc: {"idle", "list", "subscribe", "find", "create", "activate", "announce"},
   number: Number \cup {None}, found: BOOLEAN]
PurchaseRecord == [pc: {"idle", "search", "create", "record", "bought", "failed"},
                   number: Number \cup {None}]
RegistrarRecord == [pc: {"next", "wait", "record"}, todo: SUBSET Number,
                    number: Number \cup {None}]
DestroyRecord == [pc: {"idle", "release", "unsubscribe", "keystore", "commit"}, channel: BOOLEAN]
SweepRecord == [pc: {"start", "registering", "read", "filtered", "done"},
                entries: SUBSET Number]

Buys(r) == r.pc \in {"create", "record", "bought"} => r.number \in Number
Registers(r) == r.pc \in {"wait", "record"} => r.number \in Number
Creates(r) == r.pc \notin {"idle", "list"} => r.number \in Number

PurchaseTypes == purchase \in [Slot -> PurchaseRecord] /\ \A s \in Slot : Buys(purchase[s])
RegistrarTypes ==
  registrar \in [Registrar -> RegistrarRecord] /\ \A x \in Registrar : Registers(registrar[x])
CreationTypes ==
  creation \in [Creation -> CreationRecord] /\ \A c \in Creation : Creates(creation[c])

Types ==
  /\ record \in [Number -> Statuses]
  /\ twilio \in [Number -> {"available", "billed", "released"}]
  /\ keys \subseteq Number
  /\ PurchaseTypes /\ RegistrarTypes /\ CreationTypes
  /\ destroy \in [Number -> DestroyRecord]
  /\ sweep \in SweepRecord

LEMMA TypesInit == Init => Types
<1> SUFFICES ASSUME Init PROVE Types
  OBVIOUS
<1>1. record \in [Number -> Statuses]
  BY ConstantsAssumption DEF Init, Statuses
<1>2. twilio \in [Number -> {"available", "billed", "released"}]
  BY DEF Init
<1>3. PurchaseTypes
  BY DEF Init, PurchaseTypes, PurchaseRecord, Buys
<1>4. RegistrarTypes
  BY DEF Init, RegistrarTypes, RegistrarRecord, Registers
<1>5. CreationTypes
  BY DEF Init, CreationTypes, CreationRecord, Creates
<1>6. destroy \in [Number -> DestroyRecord] /\ sweep \in SweepRecord /\ keys \subseteq Number
  BY DEF Init, DestroyRecord, SweepRecord
<1> QED
  BY <1>1, <1>2, <1>3, <1>4, <1>5, <1>6 DEF Types

-----------------------------------------------------------------------------
(* What holds of numbers. *)

\* A number that was on record once: it was bought, and is released when it is
\* not on record any more.
Fine(n) == twilio[n] # "available" /\ (record[n] = "none" => twilio[n] = "released")

Recorded ==
  /\ \A n \in Number : record[n] # "none" \/ n \in keys \/ n \in sweep.entries => Fine(n)
  /\ \A x \in Registrar, n \in Number :
       n \in registrar[x].todo \/ registrar[x].number = n => Fine(n)
  /\ \A s \in Slot : purchase[s].pc = "bought" => Fine(purchase[s].number)

\* What is about to be recorded was bought by nobody else.
Bought ==
  /\ \A s \in Slot : purchase[s].pc = "record" =>
       twilio[purchase[s].number] = "billed" /\ record[purchase[s].number] = "none"
  /\ \A s, t \in Slot :
       /\ purchase[s].pc = "record" /\ purchase[t].pc = "record"
       /\ purchase[s].number = purchase[t].number
       => s = t

\* A row is locked by whoever deletes it, once the number is released.
Released ==
  \A n \in Number :
    /\ destroy[n].pc # "idle" => record[n] # "none"
    /\ destroy[n].pc \notin {"idle", "release"} => twilio[n] = "released"

NumbersInv == Recorded /\ Bought /\ Released /\ OwnedRecorded

LEMMA NumbersInit == Init => NumbersInv
<1> SUFFICES ASSUME Init PROVE NumbersInv
  OBVIOUS
<1>1. \A n \in Number : record[n] # "none" => twilio[n] = "billed"
  BY DEF Init
<1>2. \A n \in Number : twilio[n] = "billed" => record[n] # "none"
  BY DEF Init
<1>3. \A n \in Number : n \in keys => record[n] # "none"
  BY DEF Init
<1>4. Recorded
  BY <1>1, <1>3, ConstantsAssumption DEF Init, Recorded, Fine
<1>5. Bought /\ Released /\ OwnedRecorded
  BY <1>2 DEF Init, Bought, Released, OwnedRecorded
<1> QED
  BY <1>4, <1>5 DEF NumbersInv

\* Steps that neither buy, record nor destroy.
Elsewhere == UNCHANGED <<record, twilio, keys, purchase, registrar, destroy, sweep>>

-----------------------------------------------------------------------------
(* Buying. *)

\* One slot goes on to a label, with a number.
SlotGoes(s, pc, n) ==
  /\ purchase'[s].pc = pc /\ purchase'[s].number = n
  /\ \A t \in Slot : t # s => purchase'[t] = purchase[t]

\* As the steps write it.
SlotWritten(s, pc, n) ==
  \/ purchase' = [purchase EXCEPT ![s] = [pc |-> pc, number |-> n]]
  \/ purchase' = [purchase EXCEPT ![s].pc = pc, ![s].number = n]
  \/ purchase' = [purchase EXCEPT ![s].pc = pc] /\ n = purchase[s].number

LEMMA Goes ==
  ASSUME Types, NEW s \in Slot, NEW n \in Number \cup {None},
         NEW pc \in {"search", "create", "record", "bought", "failed"},
         pc \in {"create", "record", "bought"} => n \in Number,
         SlotWritten(s, pc, n)
  PROVE  PurchaseTypes' /\ SlotGoes(s, pc, n)
<1>1. purchase[s] \in PurchaseRecord /\ purchase \in [Slot -> PurchaseRecord]
  BY DEF Types, PurchaseTypes
<1> DEFINE Goal == purchase' \in [Slot -> PurchaseRecord] /\ SlotGoes(s, pc, n)
<1>2. ASSUME purchase' = [purchase EXCEPT ![s] = [pc |-> pc, number |-> n]]
      PROVE  Goal
  <2>1. [pc |-> pc, number |-> n] \in PurchaseRecord
    BY DEF PurchaseRecord
  <2> QED
    BY <1>1, <1>2, <2>1 DEF SlotGoes
<1>3. ASSUME purchase' = [purchase EXCEPT ![s].pc = pc, ![s].number = n]
      PROVE  Goal
  <2> DEFINE f == [purchase EXCEPT ![s].pc = pc]
  <2>1. f \in [Slot -> PurchaseRecord] /\ f[s].pc = pc /\ \A t \in Slot : t # s => f[t] = purchase[t]
    BY <1>1 DEF PurchaseRecord
  <2>2. purchase' = [f EXCEPT ![s].number = n]
    BY <1>3
  <2> HIDE DEF f
  <2> QED
    BY <2>1, <2>2 DEF PurchaseRecord, SlotGoes
<1>4. ASSUME purchase' = [purchase EXCEPT ![s].pc = pc], n = purchase[s].number
      PROVE  Goal
  BY <1>1, <1>4 DEF PurchaseRecord, SlotGoes
<1>5. Goal
  <2> HIDE DEF Goal
  <2> QED
    BY <1>2, <1>3, <1>4 DEF SlotWritten
<1>6. \A t \in Slot : Buys(purchase'[t])
  BY <1>5 DEF Types, PurchaseTypes, SlotGoes, Buys
<1> QED
  BY <1>5, <1>6 DEF PurchaseTypes

\* What a creation, a sweep and a registration rely on when numbers are chosen
\* for creations: a number that was VERIFIED stays in use or is gone for good,
\* and whoever is about to record a number has its keys.
Kept ==
  \A n \in Number \ unclean :
    record[n] \in {"VERIFIED", "ACTIVE"} /\ destroy[n].pc # "commit" => n \in keys

Recording ==
  \A x \in Registrar, n \in Number \ unclean :
    registrar[x].pc = "record" /\ registrar[x].number = n =>
      record[n] = "none" \/ destroy[n].pc = "commit" \/ n \in keys

SweptGone == sweep.pc = "filtered" => \A n \in sweep.entries : record[n] = "none"

Served ==
  \A c \in Creation, n \in Number : creation[c].number = n =>
    \/ record[n] \in {"VERIFIED", "ACTIVE"}
    \/ record[n] = "none" /\ twilio[n] = "released"

KeysInv == Kept /\ Recording /\ SweptGone /\ Served

Inv == Types /\ NumbersInv /\ (Asked = {} => KeysInv)

\* Slots that neither have a number to record nor an error to tell go on.
LEMMA SlotsOnly ==
  ASSUME Inv, PurchaseTypes',
         UNCHANGED <<record, twilio, keys, registrar, destroy, sweep, creation, unclean>>,
         \A s \in Slot : \/ purchase'[s] = purchase[s]
                         \/ /\ purchase[s].pc \notin {"record", "failed"}
                            /\ purchase'[s].pc \notin {"record", "bought"}
  PROVE  Inv'
<1> USE DEF Inv
<1>1. Types'
  BY DEF Types, RegistrarTypes, CreationTypes
<1>2. Recorded'
  BY DEF NumbersInv, Recorded, Fine
<1>3. Bought'
  BY DEF NumbersInv, Bought
<1>4. Released'
  BY DEF NumbersInv, Released
<1>5. OwnedRecorded'
  BY DEF NumbersInv, OwnedRecorded
<1>6. KeysInv => KeysInv'
  BY DEF KeysInv, Kept, Recording, SweptGone, Served
<1> QED
  BY <1>1, <1>2, <1>3, <1>4, <1>5, <1>6 DEF NumbersInv

LEMMA ProvisionKeeps == ASSUME Inv, ProvisionN PROVE Inv'
<1>1. PICK slots \in SUBSET {s \in Slot : purchase[s].pc = "idle"} :
        purchase' = [s \in Slot |-> IF s \in slots THEN [purchase[s] EXCEPT !.pc = "search"]
                                                   ELSE purchase[s]]
  BY DEF ProvisionN
<1>2. \A s \in Slot : [purchase[s] EXCEPT !.pc = "search"] \in PurchaseRecord
                      /\ [purchase[s] EXCEPT !.pc = "search"].pc = "search"
  BY DEF Inv, Types, PurchaseTypes, PurchaseRecord
<1>3. purchase' \in [Slot -> PurchaseRecord]
  BY <1>1, <1>2 DEF Inv, Types, PurchaseTypes
<1>4. \A s \in Slot : \/ purchase'[s] = purchase[s]
                      \/ purchase[s].pc = "idle" /\ purchase'[s].pc = "search"
  BY <1>1, <1>2
<1>5. PurchaseTypes'
  BY <1>3, <1>4 DEF PurchaseTypes, Inv, Types, Buys
<1>6. UNCHANGED <<record, twilio, keys, registrar, destroy, sweep, creation, unclean>>
  BY DEF ProvisionN, tables, outside, history
<1> QED
  BY <1>4, <1>5, <1>6, SlotsOnly

LEMMA RegisterPurchasedKeeps == ASSUME Inv, RegisterPurchased PROVE Inv'
<1> USE DEF Inv
<1> DEFINE bought == {s \in Slot : purchase[s].pc = "bought"}
           todo == {purchase[s].number : s \in bought}
<1>1. /\ UNCHANGED <<record, twilio, keys, creation, destroy, sweep, unclean>>
      /\ registrar' = [registrar EXCEPT ![Provision] =
                         [pc |-> "next", number |-> None, todo |-> todo]]
      /\ purchase' = [s \in Slot |-> IF s \in bought THEN [pc |-> "idle", number |-> None]
                                                     ELSE purchase[s]]
  BY DEF RegisterPurchased, tables, outside, history
<1>2. todo \subseteq Number /\ \A n \in todo : Fine(n)
  BY DEF Types, PurchaseTypes, Buys, NumbersInv, Recorded
<1>3. Provision \in Registrar /\ None \notin Number
  BY ConstantsAssumption DEF Registrar
<1>4. [pc |-> "next", number |-> None, todo |-> todo] \in RegistrarRecord
  BY <1>2 DEF RegistrarRecord
<1> HIDE DEF todo
<1>5. /\ registrar' \in [Registrar -> RegistrarRecord]
      /\ registrar'[Provision] = [pc |-> "next", number |-> None, todo |-> todo]
      /\ \A x \in Registrar : x # Provision => registrar'[x] = registrar[x]
  BY <1>1, <1>3, <1>4 DEF Types, RegistrarTypes
<1>6. RegistrarTypes'
  BY <1>5 DEF RegistrarTypes, Types, Registers
<1>7. \A s \in Slot : \/ purchase'[s] = purchase[s]
                      \/ purchase[s].pc = "bought" /\ purchase'[s] = [pc |-> "idle", number |-> None]
  BY <1>1
<1>8. [pc |-> "idle", number |-> None] \in PurchaseRecord
  BY DEF PurchaseRecord
<1>9. PurchaseTypes'
  BY <1>1, <1>7, <1>8 DEF PurchaseTypes, Types, Buys
<1>10. Types'
  BY <1>1, <1>6, <1>9 DEF Types, CreationTypes
<1>11. Recorded'
  BY <1>1, <1>2, <1>3, <1>5, <1>7 DEF NumbersInv, Recorded, Fine
<1>12. Bought' /\ Released'
  BY <1>1, <1>7 DEF NumbersInv, Bought, Released
<1>13. OwnedRecorded'
  BY <1>1, <1>7 DEF NumbersInv, OwnedRecorded
<1>14. KeysInv => KeysInv'
  BY <1>1, <1>5 DEF KeysInv, Kept, Recording, SweptGone, Served
<1> QED
  BY <1>10, <1>11, <1>12, <1>13, <1>14 DEF NumbersInv

LEMMA SearchKeeps == ASSUME Inv, NEW s \in Slot, Search(s) PROVE Inv'
<1> USE DEF Inv
<1>1. UNCHANGED <<record, twilio, keys, registrar, destroy, sweep, creation, unclean>>
  BY DEF Search, tables, outside, history
<1>2. PurchaseTypes' /\ \E n \in Number \cup {None}, pc \in {"create", "failed"} : SlotGoes(s, pc, n)
  <2>1. ASSUME NEW n \in Number, purchase' = [purchase EXCEPT ![s].pc = "create", ![s].number = n]
        PROVE  PurchaseTypes' /\ SlotGoes(s, "create", n)
    BY <2>1, Goes DEF SlotWritten
  <2>2. CASE EndPurchase(s, None, "failed")
    BY <2>2, Goes DEF SlotWritten, EndPurchase
  <2> QED
    BY <2>1, <2>2 DEF Search
<1>3. purchase[s].pc = "search"
  BY DEF Search
<1> QED
  BY <1>1, <1>2, <1>3, SlotsOnly DEF SlotGoes

LEMMA CreateTwilioKeeps == ASSUME Inv, NEW s \in Slot, CreateTwilio(s) PROVE Inv'
<1> USE DEF Inv
<1> DEFINE n == purchase[s].number
<1>1. UNCHANGED <<record, keys, registrar, destroy, sweep, creation, unclean>>
  BY DEF CreateTwilio, tables, outside, history
<1>2. purchase[s].pc = "create" /\ n \in Number
  BY DEF CreateTwilio, Types, PurchaseTypes, Buys
<1>3. CASE EndPurchase(s, None, "failed") /\ UNCHANGED twilio
  <2>1. PurchaseTypes' /\ SlotGoes(s, "failed", None)
    BY <1>3, Goes DEF SlotWritten, EndPurchase
  <2> QED
    BY <1>1, <1>2, <1>3, <2>1, SlotsOnly DEF SlotGoes
<1>4. CASE /\ twilio[n] = "available" /\ twilio' = [twilio EXCEPT ![n] = "billed"]
           /\ purchase' = [purchase EXCEPT ![s].pc = "record"]
  <2>1. PurchaseTypes' /\ SlotGoes(s, "record", n)
    BY <1>2, <1>4, Goes DEF SlotWritten
  <2> HIDE DEF n
  <2>2. /\ twilio' \in [Number -> {"available", "billed", "released"}]
        /\ twilio'[n] = "billed" /\ \A m \in Number : m # n => twilio'[m] = twilio[m]
    BY <1>2, <1>4 DEF Types
  <2>3. Types'
    BY <1>1, <2>1, <2>2 DEF Types, RegistrarTypes, CreationTypes
  <2>4. ~Fine(n) /\ record[n] = "none"
    BY <1>2, <1>4 DEF Fine, NumbersInv, Recorded
  <2>5. \A m \in Number : Fine(m) => Fine(m)'
    BY <1>1, <2>2, <2>4 DEF Fine
  <2>6. Recorded'
    <3>1. \A t \in Slot : purchase'[t].pc = "bought" =>
            purchase[t].pc = "bought" /\ purchase'[t] = purchase[t] /\ purchase[t].number \in Number
      BY <2>1 DEF SlotGoes, Types, PurchaseTypes, Buys
    <3> QED
      BY <1>1, <2>5, <3>1 DEF NumbersInv, Recorded
  <2>7. \A t \in Slot : purchase[t].pc = "record" => purchase[t].number # n
    BY <1>4 DEF NumbersInv, Bought, n
  <2>8. \A t \in Slot : purchase[t].pc = "record" => purchase[t].number \in Number
    BY DEF Types, PurchaseTypes, Buys
  <2>9. Bought'
    BY <1>1, <2>1, <2>2, <2>4, <2>7, <2>8 DEF NumbersInv, Bought, SlotGoes
  <2>10. Released'
    BY <1>1, <2>2, <2>4 DEF NumbersInv, Released
  <2>11. OwnedRecorded'
    <3> SUFFICES ASSUME NEW m \in Number, twilio'[m] = "billed", record[m] = "none"
                 PROVE  \E t \in Slot : purchase'[t].number = m
                                        /\ purchase'[t].pc \in {"record", "failed"}
      BY <1>1 DEF OwnedRecorded
    <3>1. CASE m = n
      BY <3>1, <2>1 DEF SlotGoes
    <3>2. CASE m # n
      <4>1. PICK t \in Slot : purchase[t].number = m /\ purchase[t].pc \in {"record", "failed"}
        BY <3>2, <2>2 DEF NumbersInv, OwnedRecorded
      <4> QED
        BY <4>1, <1>2, <2>1 DEF SlotGoes
    <3> QED
      BY <3>1, <3>2
  <2>12. KeysInv => KeysInv'
    <3>1. KeysInv => Kept' /\ Recording' /\ SweptGone'
      BY <1>1 DEF KeysInv, Kept, Recording, SweptGone
    <3>2. KeysInv => Served'
      BY <1>1, <2>2, <2>4 DEF KeysInv, Served, Fine
    <3> QED
      BY <3>1, <3>2 DEF KeysInv
  <2> QED
    BY <2>3, <2>6, <2>9, <2>10, <2>11, <2>12 DEF NumbersInv
<1> QED
  BY <1>3, <1>4 DEF CreateTwilio

LEMMA RecordPurchaseKeeps == ASSUME Inv, NEW s \in Slot, RecordPurchase(s) PROVE Inv'
<1> USE DEF Inv
<1>0. purchase[s].pc = "record" /\ purchase[s].number \in Number
  BY DEF RecordPurchase, Types, PurchaseTypes, Buys
<1> PICK n \in Number : n = purchase[s].number
  BY <1>0
<1>1. UNCHANGED <<twilio, keys, registrar, destroy, sweep, creation, unclean>>
  BY DEF RecordPurchase, outside
<1>2. purchase[s].pc = "record" /\ n \in Number /\ purchase[s].number = n
  BY <1>0
<1>3. twilio[n] = "billed" /\ record[n] = "none" /\ ~Fine(n)
  BY <1>2 DEF NumbersInv, Bought, Fine
<1>4. PICK pc \in {"bought", "failed"} :
        /\ purchase' = [purchase EXCEPT ![s] = [pc |-> pc, number |-> n]]
        /\ pc = "bought" => record' = [record EXCEPT ![n] = "PURCHASED"]
        /\ pc = "failed" => UNCHANGED record
  BY <1>2, <1>3 DEF RecordPurchase, EndPurchase
<1>5. PurchaseTypes' /\ SlotGoes(s, pc, n)
  BY <1>2, <1>4, Goes DEF SlotWritten
<1>6. \A t \in Slot : t # s /\ purchase[t].pc = "record" => purchase[t].number # n
  BY <1>2 DEF NumbersInv, Bought
<1>7. /\ record' \in [Number -> Statuses]
      /\ record'[n] = IF pc = "bought" THEN "PURCHASED" ELSE "none"
      /\ \A m \in Number : m # n => record'[m] = record[m]
  BY <1>2, <1>3, <1>4 DEF Types, Statuses
<1>8. Types'
  BY <1>1, <1>5, <1>7 DEF Types, RegistrarTypes, CreationTypes
<1>9. (\A m \in Number : Fine(m) => Fine(m)') /\ (pc = "bought" => Fine(n)')
  <2>1. ASSUME NEW m \in Number, Fine(m) PROVE Fine(m)'
    <3>1. m # n
      BY <1>3, <2>1
    <3> QED
      BY <1>1, <1>7, <2>1, <3>1 DEF Fine
  <2>2. pc = "bought" => Fine(n)'
    BY <1>1, <1>3, <1>7 DEF Fine
  <2> QED
    BY <2>1, <2>2
<1>10. Recorded'
  <2>1. \A t \in Slot : purchase'[t].pc = "bought" =>
          \/ purchase[t].pc = "bought" /\ purchase'[t] = purchase[t] /\ purchase[t].number \in Number
          \/ purchase'[t].number = n /\ pc = "bought"
    BY <1>5 DEF SlotGoes, Types, PurchaseTypes, Buys
  <2>2. \A m \in Number : record'[m] # "none" \/ m \in keys' \/ m \in sweep'.entries => Fine(m)'
    BY <1>1, <1>7, <1>9 DEF NumbersInv, Recorded
  <2>3. \A x \in Registrar, m \in Number :
          m \in registrar'[x].todo \/ registrar'[x].number = m => Fine(m)'
    BY <1>1, <1>9 DEF NumbersInv, Recorded
  <2>4. (\A t \in Slot : purchase[t].pc = "bought" => Fine(purchase[t].number))'
    <3> SUFFICES ASSUME NEW t \in Slot, purchase'[t].pc = "bought"
                 PROVE  Fine(purchase[t].number)'
      OBVIOUS
    <3>1. CASE purchase[t].pc = "bought" /\ purchase'[t] = purchase[t] /\ purchase[t].number \in Number
      BY <3>1, <1>9 DEF NumbersInv, Recorded, Fine
    <3>2. CASE purchase'[t].number = n /\ pc = "bought"
      BY <3>2, <1>1, <1>3, <1>7 DEF Fine
    <3> QED
      BY <2>1, <3>1, <3>2
  <2> QED
    BY <2>2, <2>3, <2>4 DEF Recorded
<1>11. Bought'
  <2>1. \A t \in Slot : purchase'[t].pc = "record" =>
          t # s /\ purchase'[t] = purchase[t] /\ purchase[t].number \in Number
    BY <1>5 DEF SlotGoes, Types, PurchaseTypes, Buys
  <2> QED
    BY <1>1, <1>6, <1>7, <2>1 DEF NumbersInv, Bought
<1>12. Released'
  BY <1>1, <1>3, <1>7 DEF NumbersInv, Released
<1>13. OwnedRecorded'
  <2> SUFFICES ASSUME NEW m \in Number, twilio[m] = "billed", record'[m] = "none"
               PROVE  \E t \in Slot : purchase'[t].number = m
                                      /\ purchase'[t].pc \in {"record", "failed"}
    BY <1>1 DEF OwnedRecorded
  <2>1. CASE m = n
    BY <2>1, <1>5, <1>7 DEF SlotGoes
  <2>2. CASE m # n
    <3>1. PICK t \in Slot : purchase[t].number = m /\ purchase[t].pc \in {"record", "failed"}
      BY <2>2, <1>7 DEF NumbersInv, OwnedRecorded
    <3> QED
      BY <3>1, <1>2, <2>2, <1>5 DEF SlotGoes
  <2> QED
    BY <2>1, <2>2
<1>14. KeysInv => KeysInv'
  <2>1. KeysInv => SweptGone'
    <3>1. n \notin sweep.entries
      BY <1>2, <1>3 DEF NumbersInv, Recorded
    <3> QED
      BY <3>1, <1>1, <1>7 DEF KeysInv, SweptGone, Types, SweepRecord
  <2>2. KeysInv => Kept' /\ Served'
    BY <1>1, <1>3, <1>7 DEF KeysInv, Kept, Served
  <2>3. KeysInv => Recording'
    <3>1. \A x \in Registrar : registrar[x].number # n
      BY <1>2, <1>3 DEF NumbersInv, Recorded
    <3> QED
      BY <3>1, <1>1, <1>7 DEF KeysInv, Recording
  <2> QED
    BY <2>1, <2>2, <2>3 DEF KeysInv
<1> QED
  BY <1>8, <1>10, <1>11, <1>12, <1>13, <1>14 DEF NumbersInv

-----------------------------------------------------------------------------
(* Registering. *)

\* Steps that write what is known of registrations, and record no number.
LEMMA RegistrarOnly ==
  ASSUME Inv, RegistrarTypes', sweep' \in SweepRecord,
         UNCHANGED <<record, twilio, keys, purchase, destroy, creation, unclean>>,
         sweep'.entries = sweep.entries, sweep'.pc = sweep.pc \/ sweep'.pc # "filtered",
         \A x \in Registrar, n \in Number :
           n \in registrar'[x].todo \/ registrar'[x].number = n => Fine(n),
         \A x \in Registrar : registrar'[x].pc = "record" => registrar'[x] = registrar[x]
  PROVE  Inv'
<1> USE DEF Inv
<1>1. Types'
  BY DEF Types, PurchaseTypes, CreationTypes
<1>2. Recorded'
  BY DEF NumbersInv, Recorded, Fine
<1>3. Bought' /\ Released' /\ OwnedRecorded'
  BY DEF NumbersInv, Bought, Released, OwnedRecorded
<1>4. KeysInv => KeysInv'
  BY DEF KeysInv, Kept, Recording, SweptGone, Served
<1> QED
  BY <1>1, <1>2, <1>3, <1>4 DEF NumbersInv

\* One registration goes on to a label.
RegistrarGoes(x, pc, todo, n) ==
  /\ registrar'[x].pc = pc /\ registrar'[x].todo = todo /\ registrar'[x].number = n
  /\ \A y \in Registrar : y # x => registrar'[y] = registrar[y]

\* As the steps write it.
RegistrarWritten(x, pc, todo, n) ==
  \/ registrar' = [registrar EXCEPT ![x] = [pc |-> pc, todo |-> todo, number |-> n]]
  \/ registrar' = [registrar EXCEPT ![x].pc = pc, ![x].number = n] /\ todo = registrar[x].todo
  \/ /\ registrar' = [registrar EXCEPT ![x].pc = pc]
     /\ todo = registrar[x].todo /\ n = registrar[x].number

LEMMA RegistrarStep ==
  ASSUME Types, NEW x \in Registrar, NEW pc \in {"next", "wait", "record"},
         NEW todo \in SUBSET Number, NEW n \in Number \cup {None},
         pc \in {"wait", "record"} => n \in Number, RegistrarWritten(x, pc, todo, n)
  PROVE  RegistrarTypes' /\ RegistrarGoes(x, pc, todo, n)
<1>1. registrar[x] \in RegistrarRecord /\ registrar \in [Registrar -> RegistrarRecord]
  BY DEF Types, RegistrarTypes
<1> DEFINE Goal == registrar' \in [Registrar -> RegistrarRecord] /\ RegistrarGoes(x, pc, todo, n)
<1>2. ASSUME registrar' = [registrar EXCEPT ![x] = [pc |-> pc, todo |-> todo, number |-> n]]
      PROVE  Goal
  <2>1. [pc |-> pc, todo |-> todo, number |-> n] \in RegistrarRecord
    BY DEF RegistrarRecord
  <2> QED
    BY <1>1, <1>2, <2>1 DEF RegistrarGoes
<1>3. ASSUME registrar' = [registrar EXCEPT ![x].pc = pc, ![x].number = n],
             todo = registrar[x].todo
      PROVE  Goal
  <2> DEFINE f == [registrar EXCEPT ![x].pc = pc]
  <2>1. /\ f \in [Registrar -> RegistrarRecord] /\ f[x].pc = pc /\ f[x].todo = registrar[x].todo
        /\ \A y \in Registrar : y # x => f[y] = registrar[y]
    BY <1>1 DEF RegistrarRecord
  <2>2. registrar' = [f EXCEPT ![x].number = n]
    BY <1>3
  <2> HIDE DEF f
  <2>3. /\ registrar' \in [Registrar -> RegistrarRecord]
        /\ registrar'[x].pc = f[x].pc /\ registrar'[x].todo = f[x].todo
        /\ registrar'[x].number = n /\ \A y \in Registrar : y # x => registrar'[y] = f[y]
    BY <2>1, <2>2 DEF RegistrarRecord
  <2> QED
    BY <1>3, <2>1, <2>3 DEF RegistrarGoes
<1>4. ASSUME registrar' = [registrar EXCEPT ![x].pc = pc],
             todo = registrar[x].todo, n = registrar[x].number
      PROVE  Goal
  BY <1>1, <1>4 DEF RegistrarRecord, RegistrarGoes
<1>5. Goal
  <2> HIDE DEF Goal
  <2> QED
    BY <1>2, <1>3, <1>4 DEF RegistrarWritten
<1>6. \A y \in Registrar : Registers(registrar'[y])
  BY <1>5 DEF Types, RegistrarTypes, RegistrarGoes, Registers
<1> QED
  BY <1>5, <1>6 DEF RegistrarTypes

\* A registration goes on with numbers that were on record.
LEMMA RegistrarGoesOn ==
  ASSUME Inv, NEW x \in Registrar, NEW pc \in {"next", "wait"},
         NEW todo \in SUBSET Number, NEW n \in Number \cup {None},
         pc = "wait" => n \in Number, RegistrarWritten(x, pc, todo, n),
         \A m \in Number : m \in todo \/ m = n => Fine(m), sweep' \in SweepRecord,
         UNCHANGED <<record, twilio, keys, purchase, destroy, creation, unclean>>,
         sweep'.entries = sweep.entries, sweep'.pc = sweep.pc \/ sweep'.pc # "filtered"
  PROVE  Inv'
<1>1. RegistrarTypes' /\ RegistrarGoes(x, pc, todo, n)
  BY RegistrarStep DEF Inv
<1>2. \A y \in Registrar, m \in Number :
        m \in registrar'[y].todo \/ registrar'[y].number = m => Fine(m)
  BY <1>1 DEF RegistrarGoes, Inv, NumbersInv, Recorded
<1>3. \A y \in Registrar : registrar'[y].pc = "record" => registrar'[y] = registrar[y]
  BY <1>1 DEF RegistrarGoes
<1> QED
  BY <1>1, <1>2, <1>3, RegistrarOnly

LEMMA ApiRegisterKeeps == ASSUME Inv, NEW x \in Api, ApiRegister(x) PROVE Inv'
<1>1. x \in Registrar /\ None \notin Number
  BY ConstantsAssumption DEF Registrar
<1>2. PICK n \in Number : record[n] # "none"
        /\ registrar' = [registrar EXCEPT ![x] = [pc |-> "next", todo |-> {n}, number |-> None]]
  BY DEF ApiRegister
<1>3. RegistrarWritten(x, "next", {n}, None)
  BY <1>2 DEF RegistrarWritten
<1>4. \A m \in Number : m \in {n} \/ m = None => Fine(m)
  BY <1>1, <1>2 DEF Inv, NumbersInv, Recorded
<1>5. UNCHANGED <<record, twilio, keys, purchase, destroy, sweep, creation, unclean>>
  BY DEF ApiRegister, tables, outside, history
<1>6. sweep \in SweepRecord
  BY DEF Inv, Types
<1> QED
  BY <1>1, <1>3, <1>4, <1>5, <1>6, RegistrarGoesOn

LEMMA RegisterAllKeeps == ASSUME Inv, RegisterAllUnregistered PROVE Inv'
<1>1. Startup \in Registrar /\ None \notin Number
  BY ConstantsAssumption DEF Registrar
<1> DEFINE todo == {n \in Number : record[n] # "none" /\ ~IsRegistered(n)}
<1>2. PICK due \in SUBSET Number : due = todo
  OBVIOUS
<1>3. RegistrarWritten(Startup, "next", due, None)
  BY <1>2 DEF RegistrarWritten, RegisterAllUnregistered
<1>4. \A m \in Number : m \in due \/ m = None => Fine(m)
  BY <1>1, <1>2 DEF Inv, NumbersInv, Recorded
<1>5. UNCHANGED <<record, twilio, keys, purchase, destroy, creation, unclean>>
  BY DEF RegisterAllUnregistered, tables, outside, history
<1>6. sweep' \in SweepRecord /\ sweep'.pc = "registering" /\ sweep'.entries = sweep.entries
  BY DEF Inv, Types, SweepRecord, RegisterAllUnregistered
<1> QED
  BY <1>1, <1>3, <1>4, <1>5, <1>6, RegistrarGoesOn

LEMMA RegisterKeeps == ASSUME Inv, NEW x \in Registrar, Register(x) PROVE Inv'
<1>1. PICK n \in registrar[x].todo :
        registrar' = [registrar EXCEPT ![x] = [pc |-> "wait", todo |-> @.todo \ {n}, number |-> n]]
  BY DEF Register
<1>2. registrar[x].todo \in SUBSET Number
  BY DEF Inv, Types, RegistrarTypes, RegistrarRecord
<1>3. PICK todo \in SUBSET Number : todo = registrar[x].todo \ {n}
  BY <1>2
<1>4. RegistrarWritten(x, "wait", todo, n)
  BY <1>1, <1>3 DEF RegistrarWritten
<1>5. \A m \in Number : m \in todo \/ m = n => Fine(m)
  BY <1>3 DEF Inv, NumbersInv, Recorded
<1>6. UNCHANGED <<record, twilio, keys, purchase, destroy, sweep, creation, unclean>>
  BY DEF Register, tables, outside, history
<1>7. sweep \in SweepRecord
  BY DEF Inv, Types
<1> QED
  BY <1>2, <1>4, <1>5, <1>6, <1>7, RegistrarGoesOn

LEMMA RegisterFailsKeeps == ASSUME Inv, NEW x \in Registrar, RegisterFails(x) PROVE Inv'
<1>1. PICK todo \in SUBSET Number : todo = registrar[x].todo
  BY DEF Inv, Types, RegistrarTypes, RegistrarRecord
<1>2. RegistrarWritten(x, "next", todo, None)
  BY <1>1 DEF RegistrarWritten, RegisterFails
<1>3. \A m \in Number : m \in todo \/ m = None => Fine(m)
  BY <1>1, ConstantsAssumption DEF Inv, NumbersInv, Recorded
<1>4. UNCHANGED <<record, twilio, keys, purchase, destroy, sweep, creation, unclean>>
  BY DEF RegisterFails, tables, outside, history
<1>5. sweep \in SweepRecord
  BY DEF Inv, Types
<1> QED
  BY <1>2, <1>3, <1>4, <1>5, RegistrarGoesOn

LEMMA VerifyKeeps == ASSUME Inv, NEW x \in Registrar, Verify(x) PROVE Inv'
<1> USE DEF Inv
<1>1. registrar[x].pc = "wait" /\ registrar[x].number \in Number
  BY DEF Verify, Types, RegistrarTypes, Registers
<1> PICK n \in Number : n = registrar[x].number
  BY <1>1
<1> PICK todo \in SUBSET Number : todo = registrar[x].todo
  BY DEF Types, RegistrarTypes, RegistrarRecord
<1>2. RegistrarWritten(x, "record", todo, n)
  BY DEF Verify, RegistrarWritten
<1>3. RegistrarTypes' /\ RegistrarGoes(x, "record", todo, n)
  BY <1>2, RegistrarStep
<1>4. keys' = keys \cup {n}
      /\ UNCHANGED <<record, twilio, purchase, destroy, sweep, creation, unclean>>
  BY DEF Verify, tables, history
<1>5. Types'
  BY <1>3, <1>4 DEF Types, PurchaseTypes, CreationTypes
<1>6. Fine(n) /\ \A m \in todo : Fine(m)
  BY DEF NumbersInv, Recorded
<1>7. Recorded'
  BY <1>3, <1>4, <1>6 DEF NumbersInv, Recorded, Fine, RegistrarGoes
<1>8. Bought' /\ Released' /\ OwnedRecorded'
  BY <1>4 DEF NumbersInv, Bought, Released, OwnedRecorded
<1>9. KeysInv => KeysInv'
  <2>1. KeysInv => Kept' /\ SweptGone' /\ Served'
    BY <1>4 DEF KeysInv, Kept, SweptGone, Served
  <2>2. KeysInv => Recording'
    BY <1>3, <1>4 DEF KeysInv, Recording, RegistrarGoes
  <2> QED
    BY <2>1, <2>2 DEF KeysInv
<1> QED
  BY <1>5, <1>7, <1>8, <1>9 DEF NumbersInv

-----------------------------------------------------------------------------
(* A record that changes to VERIFIED or ACTIVE. *)

\* A number on record stays there, and its label says that it is in use.
StatusSet(n, status) ==
  /\ record' \in [Number -> Statuses]
  /\ record'[n] = IF record[n] = "none" THEN "none" ELSE status
  /\ \A m \in Number : m # n => record'[m] = record[m]

LEMMA StatusStep ==
  ASSUME Types, NEW n \in Number, NEW status \in {"VERIFIED", "ACTIVE"}, SetStatus(n, status)
  PROVE  StatusSet(n, status)
BY DEF Types, Statuses, SetStatus, StatusSet

LEMMA StatusKeeps ==
  ASSUME Inv, NEW n \in Number, NEW status \in {"VERIFIED", "ACTIVE"}, StatusSet(n, status),
         UNCHANGED <<twilio, keys, purchase, destroy, sweep>>
  PROVE  NumbersInv => /\ (\A m \in Number : Fine(m) <=> Fine(m)')
                       /\ (\A m \in Number : record'[m] = "none" <=> record[m] = "none")
                       /\ Bought' /\ Released' /\ OwnedRecorded'
<1> USE DEF Inv
<1>1. \A m \in Number : record'[m] = "none" <=> record[m] = "none"
  BY DEF StatusSet
<1>2. \A m \in Number : Fine(m) <=> Fine(m)'
  BY <1>1 DEF Fine
<1>3. \A s \in Slot : purchase[s].pc = "record" => purchase[s].number \in Number
  BY DEF Types, PurchaseTypes, Buys
<1>4. Bought'
  BY <1>1, <1>3 DEF NumbersInv, Bought
<1>5. Released' /\ OwnedRecorded'
  BY <1>1 DEF NumbersInv, Released, OwnedRecorded
<1> QED
  BY <1>1, <1>2, <1>4, <1>5

LEMMA RecordVerifiedKeeps == ASSUME Inv, NEW x \in Registrar, RecordVerified(x) PROVE Inv'
<1> USE DEF Inv
<1>1. registrar[x].pc = "record" /\ registrar[x].number \in Number
  BY DEF RecordVerified, Types, RegistrarTypes, Registers
<1> PICK n \in Number : n = registrar[x].number
  BY <1>1
<1> PICK todo \in SUBSET Number : todo = registrar[x].todo
  BY DEF Types, RegistrarTypes, RegistrarRecord
<1>2. RegistrarWritten(x, "next", todo, None)
  BY DEF RecordVerified, RegistrarWritten
<1>3. RegistrarTypes' /\ RegistrarGoes(x, "next", todo, None)
  BY <1>2, RegistrarStep
<1>4. SetStatus(n, "VERIFIED") /\ destroy[n].pc = "idle"
      /\ UNCHANGED <<twilio, keys, purchase, creation, destroy, sweep, unclean>>
  BY DEF RecordVerified, outside, Locked
<1>5. StatusSet(n, "VERIFIED")
  BY <1>4, StatusStep
<1>6. /\ \A m \in Number : Fine(m) <=> Fine(m)'
      /\ \A m \in Number : record'[m] = "none" <=> record[m] = "none"
      /\ Bought' /\ Released' /\ OwnedRecorded'
  BY <1>4, <1>5, StatusKeeps
<1>7. Types'
  BY <1>3, <1>4, <1>5 DEF Types, PurchaseTypes, CreationTypes, StatusSet
<1>8. Recorded'
  <2>1. \A m \in Number : record'[m] # "none" \/ m \in keys' \/ m \in sweep'.entries => Fine(m)'
    BY <1>4, <1>6 DEF NumbersInv, Recorded
  <2>2. \A y \in Registrar, m \in Number :
          m \in registrar'[y].todo \/ registrar'[y].number = m => Fine(m)'
    BY <1>3, <1>6, ConstantsAssumption DEF NumbersInv, Recorded, RegistrarGoes
  <2>3. (\A s \in Slot : purchase[s].pc = "bought" => Fine(purchase[s].number))'
    BY <1>4, <1>6 DEF NumbersInv, Recorded, Fine, Types, PurchaseTypes, Buys
  <2> QED
    BY <2>1, <2>2, <2>3 DEF Recorded
<1>9. KeysInv => KeysInv'
  <2>1. KeysInv => Kept'
    BY <1>1, <1>4, <1>5 DEF KeysInv, Kept, Recording, StatusSet
  <2>2. KeysInv => SweptGone'
    BY <1>4, <1>6 DEF KeysInv, SweptGone, Types, SweepRecord
  <2>3. KeysInv => Served'
    BY <1>4, <1>5 DEF KeysInv, Served, StatusSet
  <2>4. KeysInv => Recording'
    BY <1>3, <1>4, <1>6, ConstantsAssumption DEF KeysInv, Recording, RegistrarGoes
  <2> QED
    BY <2>1, <2>2, <2>3, <2>4 DEF KeysInv
<1> QED
  BY <1>6, <1>7, <1>8, <1>9 DEF NumbersInv

-----------------------------------------------------------------------------
(* Creating. *)

CreationMoves(c, n) ==
  /\ creation'[c].number = n
  /\ \A d \in Creation : d # c => creation'[d] = creation[d]

LEMMA CreationOnly ==
  ASSUME Inv, CreationTypes', NEW c \in Creation, NEW n \in Number \cup {None},
         CreationMoves(c, n),
         Asked = {} => n = None \/ n = creation[c].number \/ record[n] = "VERIFIED",
         UNCHANGED <<record, twilio, keys, purchase, registrar, destroy, sweep>>,
         unclean' = unclean
  PROVE  Inv'
<1> USE DEF Inv
<1>1. Types'
  BY DEF Types, PurchaseTypes, RegistrarTypes
<1>2. Recorded'
  BY DEF NumbersInv, Recorded, Fine
<1>3. Bought' /\ Released' /\ OwnedRecorded'
  BY DEF NumbersInv, Bought, Released, OwnedRecorded
<1>4. KeysInv => Kept' /\ Recording' /\ SweptGone'
  BY DEF KeysInv, Kept, Recording, SweptGone
<1>5. KeysInv /\ Asked = {} => Served'
  BY ConstantsAssumption DEF KeysInv, Served, CreationMoves
<1> QED
  BY <1>1, <1>2, <1>3, <1>4, <1>5 DEF NumbersInv, KeysInv

\* As the steps write it.
CreationWritten(c, pc, n) ==
  \/ creation' = [creation EXCEPT ![c].pc = pc, ![c].number = n]
  \/ creation' = [creation EXCEPT ![c].pc = pc] /\ n = creation[c].number

LEMMA CreationStep ==
  ASSUME Types, NEW c \in Creation, NEW n \in Number \cup {None},
         NEW pc \in {"list", "subscribe", "find", "create", "activate", "announce"},
         pc # "list" => n \in Number, CreationWritten(c, pc, n)
  PROVE  CreationTypes' /\ CreationMoves(c, n)
<1>1. creation[c] \in CreationRecord /\ creation \in [Creation -> CreationRecord]
  BY DEF Types, CreationTypes
<1> DEFINE Goal == creation' \in [Creation -> CreationRecord] /\ CreationMoves(c, n)
                   /\ creation'[c].pc = pc
<1>2. ASSUME creation' = [creation EXCEPT ![c].pc = pc, ![c].number = n]
      PROVE  Goal
  <2> DEFINE f == [creation EXCEPT ![c].pc = pc]
  <2>1. /\ f \in [Creation -> CreationRecord] /\ f[c].pc = pc
        /\ \A d \in Creation : d # c => f[d] = creation[d]
    BY <1>1 DEF CreationRecord
  <2>2. creation' = [f EXCEPT ![c].number = n]
    BY <1>2
  <2> HIDE DEF f
  <2>3. /\ creation' \in [Creation -> CreationRecord] /\ creation'[c].pc = f[c].pc
        /\ creation'[c].number = n /\ \A d \in Creation : d # c => creation'[d] = f[d]
    BY <2>1, <2>2 DEF CreationRecord
  <2> QED
    BY <2>1, <2>3 DEF CreationMoves
<1>3. ASSUME creation' = [creation EXCEPT ![c].pc = pc], n = creation[c].number
      PROVE  Goal
  BY <1>1, <1>3 DEF CreationRecord, CreationMoves
<1>4. Goal
  <2> HIDE DEF Goal
  <2> QED
    BY <1>2, <1>3 DEF CreationWritten
<1>5. \A d \in Creation : Creates(creation'[d])
  BY <1>4 DEF Types, CreationTypes, CreationMoves, Creates
<1> QED
  BY <1>4, <1>5 DEF CreationTypes

LEMMA AnswerStep ==
  ASSUME Types, NEW c \in Creation, Answer(c)
  PROVE  CreationTypes' /\ CreationMoves(c, None)
<1>1. [pc |-> "idle", number |-> None, found |-> FALSE] \in CreationRecord
  BY DEF CreationRecord
<1>2. creation' \in [Creation -> CreationRecord]
      /\ creation'[c] = [pc |-> "idle", number |-> None, found |-> FALSE]
      /\ \A d \in Creation : d # c => creation'[d] = creation[d]
  BY <1>1 DEF Types, CreationTypes, Answer
<1>3. \A d \in Creation : Creates(creation'[d])
  BY <1>2 DEF Types, CreationTypes, Creates
<1> QED
  BY <1>2, <1>3 DEF CreationTypes, CreationMoves

LEMMA AnswerKeeps ==
  ASSUME Inv, NEW c \in Creation, Answer(c),
         UNCHANGED <<record, twilio, keys, purchase, registrar, destroy, sweep>>,
         unclean' = unclean
  PROVE  Inv'
<1>1. CreationTypes' /\ CreationMoves(c, None)
  BY AnswerStep DEF Inv
<1> QED
  BY <1>1, CreationOnly

\* A call that goes on with the number it has.
LEMMA GoKeeps ==
  ASSUME Inv, NEW c \in Creation, NEW pc \in {"find", "create", "activate", "announce"},
         Go(c, pc), ~At(c, "idle"), ~At(c, "list"),
         UNCHANGED <<record, twilio, keys, purchase, registrar, destroy, sweep>>,
         unclean' = unclean
  PROVE  Inv'
<1>1. creation[c].number \in Number
  BY DEF Inv, Types, CreationTypes, Creates, At
<1> PICK n \in Number : n = creation[c].number
  BY <1>1
<1>2. CreationTypes' /\ CreationMoves(c, n)
  BY CreationStep DEF Inv, Go, CreationWritten
<1> QED
  BY <1>2, CreationOnly

LEMMA CreateKeeps == ASSUME Inv, NEW c \in Creation, Create(c) PROVE Inv'
<1>1. PICK n \in Asked \cup {None} :
        creation' = [creation EXCEPT ![c].pc = "list", ![c].number = n]
  BY DEF Create
<1>2. UNCHANGED <<record, twilio, keys, purchase, registrar, destroy, sweep, unclean>>
  BY DEF Create, tables, outside, history
<1>3. n \in Number \cup {None} /\ (Asked = {} => n = None)
  BY ConstantsAssumption
<1>4. CreationTypes' /\ CreationMoves(c, n)
  BY <1>1, <1>3, CreationStep DEF Inv, CreationWritten
<1> QED
  BY <1>2, <1>3, <1>4, CreationOnly

LEMMA ListKeeps == ASSUME Inv, NEW c \in Creation, ListVerified(c) PROVE Inv'
<1>1. UNCHANGED <<record, twilio, keys, purchase, registrar, destroy, sweep>> /\ unclean' = unclean
  BY DEF ListVerified, tables, outside
<1>2. CASE Answer(c)
  BY <1>1, <1>2, AnswerKeeps
<1>3. ASSUME NEW n \in Number \cup {None},
             creation' = [creation EXCEPT ![c].pc = "subscribe", ![c].number = n],
             \/ n = creation[c].number /\ n # None
             \/ record[n] = "VERIFIED" /\ n \in Number
      PROVE  Inv'
  <2>1. CreationTypes' /\ CreationMoves(c, n)
    BY <1>3, CreationStep DEF Inv, CreationWritten
  <2> QED
    BY <1>1, <1>3, <2>1, CreationOnly
<1>4. creation[c].number \in Number \cup {None}
  BY DEF Inv, Types, CreationTypes, CreationRecord
<1> QED
  BY <1>2, <1>3, <1>4 DEF ListVerified

LEMMA SubscribeKeeps == ASSUME Inv, NEW c \in Creation, Subscribe(c) PROVE Inv'
BY GoKeeps DEF Subscribe, At, tables

LEMMA FindKeeps == ASSUME Inv, NEW c \in Creation, FindChannel(c) PROVE Inv'
<1>1. UNCHANGED <<record, twilio, keys, purchase, registrar, destroy, sweep>> /\ unclean' = unclean
  BY DEF FindChannel, tables, outside, history
<1>2. creation[c].pc = "find" /\ creation \in [Creation -> CreationRecord]
      /\ creation[c].number \in Number
  BY DEF FindChannel, At, Inv, Types, CreationTypes, Creates
<1> DEFINE f == [creation EXCEPT ![c].pc = "create"]
<1>3. /\ f \in [Creation -> CreationRecord] /\ f[c].number = creation[c].number
      /\ \A d \in Creation : d # c => f[d] = creation[d]
  BY <1>2 DEF CreationRecord
<1>4. PICK b \in BOOLEAN : creation' = [f EXCEPT ![c].found = b]
  BY DEF FindChannel
<1> HIDE DEF f
<1>5. /\ creation' \in [Creation -> CreationRecord] /\ creation'[c].number = f[c].number
      /\ \A d \in Creation : d # c => creation'[d] = f[d]
  BY <1>3, <1>4 DEF CreationRecord
<1> PICK n \in Number : n = creation[c].number
  BY <1>2
<1>6. CreationTypes' /\ CreationMoves(c, n)
  BY <1>2, <1>3, <1>5 DEF CreationTypes, CreationMoves, Creates, Inv, Types
<1> QED
  BY <1>1, <1>6, CreationOnly

LEMMA CreateChannelKeeps == ASSUME Inv, NEW c \in Creation, CreateChannel(c) PROVE Inv'
<1>1. UNCHANGED <<record, twilio, keys, purchase, registrar, destroy, sweep>> /\ unclean' = unclean
  BY DEF CreateChannel, outside
<1>2. At(c, "create") /\ (Answer(c) \/ Go(c, "activate"))
  BY DEF CreateChannel
<1> QED
  BY <1>1, <1>2, AnswerKeeps, GoKeeps DEF At

LEMMA ActivateKeeps == ASSUME Inv, NEW c \in Creation, Activate(c) PROVE Inv'
<1> USE DEF Inv
<1>1. At(c, "activate") /\ creation[c].number \in Number
  BY DEF Activate, Types, CreationTypes, Creates, At
<1> PICK n \in Number : n = creation[c].number
  BY <1>1
<1>2. CreationTypes' /\ CreationMoves(c, n)
  BY CreationStep DEF Activate, Go, CreationWritten
<1>3. SetStatus(n, "ACTIVE") /\ destroy[n].pc = "idle"
      /\ UNCHANGED <<twilio, keys, purchase, registrar, destroy, sweep, unclean>>
  BY DEF Activate, outside, Locked
<1>4. StatusSet(n, "ACTIVE")
  BY <1>3, StatusStep
<1>5. /\ \A m \in Number : Fine(m) <=> Fine(m)'
      /\ \A m \in Number : record'[m] = "none" <=> record[m] = "none"
      /\ Bought' /\ Released' /\ OwnedRecorded'
  BY <1>3, <1>4, StatusKeeps
<1>6. Types'
  BY <1>2, <1>3, <1>4 DEF Types, PurchaseTypes, RegistrarTypes, StatusSet
<1>7. Recorded'
  <2>1. \A m \in Number : record'[m] # "none" \/ m \in keys' \/ m \in sweep'.entries => Fine(m)'
    BY <1>3, <1>5 DEF NumbersInv, Recorded
  <2>2. \A y \in Registrar, m \in Number :
          m \in registrar'[y].todo \/ registrar'[y].number = m => Fine(m)'
    BY <1>3, <1>5 DEF NumbersInv, Recorded
  <2>3. (\A s \in Slot : purchase[s].pc = "bought" => Fine(purchase[s].number))'
    BY <1>3, <1>5 DEF NumbersInv, Recorded, Fine, Types, PurchaseTypes, Buys
  <2> QED
    BY <2>1, <2>2, <2>3 DEF Recorded
<1>8. KeysInv => KeysInv'
  <2>1. KeysInv => Kept'
    BY <1>3, <1>4 DEF KeysInv, Kept, Served, StatusSet
  <2>2. KeysInv => SweptGone'
    BY <1>3, <1>5 DEF KeysInv, SweptGone, Types, SweepRecord
  <2>3. KeysInv => Served'
    BY <1>2, <1>3, <1>4 DEF KeysInv, Served, StatusSet, CreationMoves
  <2>4. KeysInv => Recording'
    BY <1>3, <1>5 DEF KeysInv, Recording
  <2> QED
    BY <2>1, <2>2, <2>3, <2>4 DEF KeysInv
<1> QED
  BY <1>5, <1>6, <1>7, <1>8 DEF NumbersInv

LEMMA CreatingKeeps == ASSUME Inv, Creating PROVE Inv'
<1> PICK c \in Creation :
      \/ Create(c) \/ ListVerified(c) \/ Subscribe(c) \/ FindChannel(c) \/ CreateChannel(c)
      \/ Activate(c) \/ Announce(c) \/ CreationFails(c)
  BY DEF Creating
<1>1. CASE Announce(c)
  BY <1>1, AnswerKeeps DEF Announce, tables, outside
<1>2. CASE CreationFails(c)
  BY <1>2, AnswerKeeps DEF CreationFails, tables, outside
<1> QED
  BY <1>1, <1>2, CreateKeeps, ListKeeps, SubscribeKeeps, FindKeeps, CreateChannelKeeps,
     ActivateKeeps

-----------------------------------------------------------------------------
(* Destroying. *)

\* The destroy of number n goes on to a label.
DestroyMoves(n, pc) ==
  /\ destroy' \in [Number -> DestroyRecord]
  /\ destroy'[n].pc = pc
  /\ \A m \in Number : m # n => destroy'[m] = destroy[m]

LEMMA DestroyGoes ==
  ASSUME Types, NEW n \in Number, NEW pc \in {"idle", "release", "unsubscribe", "keystore", "commit"},
         \/ destroy' = [destroy EXCEPT ![n].pc = pc]
         \/ \E b \in BOOLEAN : destroy' = [destroy EXCEPT ![n] = [pc |-> pc, channel |-> b]]
  PROVE  DestroyMoves(n, pc)
BY DEF Types, DestroyRecord, DestroyMoves

\* A destroy that changes neither the database nor Twilio nor the keystore.
LEMMA DestroyOnly ==
  ASSUME Inv, NEW n \in Number, NEW pc \in {"idle", "release", "keystore"},
         DestroyMoves(n, pc), record[n] # "none",
         pc = "keystore" => destroy[n].pc = "unsubscribe",
         destroy[n].pc = "commit" => n \in unclean', unclean \subseteq unclean',
         UNCHANGED <<record, twilio, keys, purchase, registrar, creation, sweep>>
  PROVE  Inv'
<1> USE DEF Inv
<1>1. Types'
  BY DEF Types, PurchaseTypes, RegistrarTypes, CreationTypes, DestroyMoves
<1>2. Recorded'
  BY DEF NumbersInv, Recorded, Fine
<1>3. Bought' /\ OwnedRecorded'
  BY DEF NumbersInv, Bought, OwnedRecorded
<1>4. Released'
  BY DEF NumbersInv, Released, DestroyMoves
<1>5. KeysInv => Kept' /\ Recording'
  BY DEF KeysInv, Kept, Recording, DestroyMoves
<1>6. KeysInv => SweptGone' /\ Served'
  BY DEF KeysInv, SweptGone, Served
<1> QED
  BY <1>1, <1>2, <1>3, <1>4, <1>5, <1>6 DEF NumbersInv, KeysInv

LEMMA CallDestroyKeeps == ASSUME Inv, NEW n \in Number, CallDestroy(n) PROVE Inv'
<1>1. DestroyMoves(n, "release")
  BY DestroyGoes DEF CallDestroy, Inv
<1>2. UNCHANGED <<record, twilio, keys, purchase, registrar, creation, sweep, unclean>>
      /\ record[n] # "none" /\ destroy[n].pc = "idle"
  BY DEF CallDestroy, tables, outside, history
<1> QED
  BY <1>1, <1>2, DestroyOnly

LEMMA UnsubscribeKeeps == ASSUME Inv, NEW n \in Number, Unsubscribe(n) PROVE Inv'
<1>1. DestroyMoves(n, "keystore")
  BY DestroyGoes DEF Unsubscribe, DestroyStep, Inv
<1>2. UNCHANGED <<record, twilio, keys, purchase, registrar, creation, sweep, unclean>>
      /\ destroy[n].pc = "unsubscribe"
  BY DEF Unsubscribe, DestroyStep, tables
<1>3. record[n] # "none"
  BY <1>2 DEF Inv, NumbersInv, Released
<1> QED
  BY <1>1, <1>2, <1>3, DestroyOnly

LEMMA DestroyFailsKeeps == ASSUME Inv, NEW n \in Number, DestroyFails(n) PROVE Inv'
<1>1. DestroyMoves(n, "idle")
  BY DestroyGoes DEF DestroyFails, Inv
<1>2. UNCHANGED <<record, twilio, keys, purchase, registrar, creation, sweep>>
      /\ destroy[n].pc # "idle" /\ unclean \subseteq unclean'
      /\ (destroy[n].pc = "commit" => n \in unclean')
  BY DEF DestroyFails, tables, outside
<1>3. record[n] # "none"
  BY <1>2 DEF Inv, NumbersInv, Released
<1> QED
  BY <1>1, <1>2, <1>3, DestroyOnly

LEMMA ReleaseKeeps == ASSUME Inv, NEW n \in Number, Release(n) PROVE Inv'
<1> USE DEF Inv
<1>1. DestroyMoves(n, "unsubscribe")
  BY DestroyGoes DEF Release, DestroyStep
<1>2. UNCHANGED <<record, keys, purchase, registrar, creation, sweep, unclean>>
      /\ destroy[n].pc = "release" /\ twilio' = [twilio EXCEPT ![n] = "released"]
  BY DEF Release, DestroyStep, tables, history
<1>3. /\ twilio' \in [Number -> {"available", "billed", "released"}] /\ twilio'[n] = "released"
      /\ \A m \in Number : m # n => twilio'[m] = twilio[m]
  BY <1>2 DEF Types
<1>4. record[n] # "none"
  BY <1>2 DEF NumbersInv, Released
<1>5. Types'
  BY <1>1, <1>2, <1>3 DEF Types, PurchaseTypes, RegistrarTypes, CreationTypes, DestroyMoves
<1>6. \A m \in Number : Fine(m) => Fine(m)'
  BY <1>2, <1>3 DEF Fine
<1>7. Recorded'
  <2>1. \A s \in Slot : purchase[s].pc = "bought" => purchase[s].number \in Number
    BY DEF Types, PurchaseTypes, Buys
  <2>2. (\A s \in Slot : purchase[s].pc = "bought" => Fine(purchase[s].number))'
    <3> SUFFICES ASSUME NEW s \in Slot, purchase[s].pc = "bought"
                 PROVE  Fine(purchase[s].number)'
      BY <1>2
    <3> PICK m \in Number : m = purchase[s].number
      BY <2>1
    <3> QED
      BY <1>2, <1>6 DEF NumbersInv, Recorded, Fine
  <2> QED
    BY <1>2, <1>6, <2>2 DEF NumbersInv, Recorded
<1>8. Bought'
  <2>1. \A s \in Slot : purchase[s].pc = "record" => purchase[s].number \in Number
    BY DEF Types, PurchaseTypes, Buys
  <2> QED
    BY <1>2, <1>3, <1>4, <2>1 DEF NumbersInv, Bought
<1>9. Released'
  BY <1>1, <1>2, <1>3, <1>4 DEF NumbersInv, Released, DestroyMoves
<1>10. OwnedRecorded'
  BY <1>2, <1>3 DEF NumbersInv, OwnedRecorded
<1>11. KeysInv => Kept' /\ Recording' /\ SweptGone'
  BY <1>1, <1>2 DEF KeysInv, Kept, Recording, SweptGone, DestroyMoves
<1>12. KeysInv => Served'
  BY <1>2, <1>3 DEF KeysInv, Served
<1> QED
  BY <1>5, <1>7, <1>8, <1>9, <1>10, <1>11, <1>12 DEF NumbersInv, KeysInv

LEMMA DeleteKeystoreKeeps == ASSUME Inv, NEW n \in Number, DeleteKeystore(n) PROVE Inv'
<1> USE DEF Inv
<1>1. DestroyMoves(n, "commit")
  BY DestroyGoes DEF DeleteKeystore, DestroyStep
<1>2. UNCHANGED <<record, twilio, purchase, registrar, creation, sweep, unclean>>
      /\ destroy[n].pc = "keystore" /\ keys' = keys \ {n}
  BY DEF DeleteKeystore, DestroyStep, tables, history
<1>3. Types'
  BY <1>1, <1>2 DEF Types, PurchaseTypes, RegistrarTypes, CreationTypes, DestroyMoves
<1>4. Recorded'
  BY <1>2 DEF NumbersInv, Recorded, Fine
<1>5. Bought' /\ OwnedRecorded'
  BY <1>2 DEF NumbersInv, Bought, OwnedRecorded
<1>6. Released'
  BY <1>1, <1>2 DEF NumbersInv, Released, DestroyMoves
<1>7. KeysInv => Kept' /\ Recording'
  BY <1>1, <1>2 DEF KeysInv, Kept, Recording, DestroyMoves
<1>8. KeysInv => SweptGone' /\ Served'
  BY <1>2 DEF KeysInv, SweptGone, Served
<1> QED
  BY <1>3, <1>4, <1>5, <1>6, <1>7, <1>8 DEF NumbersInv, KeysInv

LEMMA CommitKeeps == ASSUME Inv, NEW n \in Number, Commit(n) PROVE Inv'
<1> USE DEF Inv
<1>1. DestroyMoves(n, "idle")
  BY DestroyGoes DEF Commit, DestroyStep
<1>2. UNCHANGED <<twilio, keys, purchase, registrar, creation, sweep, unclean>>
      /\ destroy[n].pc = "commit" /\ record' = [record EXCEPT ![n] = "none"]
  BY DEF Commit, DestroyStep, outside
<1>3. /\ record' \in [Number -> Statuses] /\ record'[n] = "none"
      /\ \A m \in Number : m # n => record'[m] = record[m]
  BY <1>2 DEF Types, Statuses
<1>4. record[n] # "none" /\ twilio[n] = "released"
  BY <1>2 DEF NumbersInv, Released
<1>5. Types'
  BY <1>1, <1>2, <1>3 DEF Types, PurchaseTypes, RegistrarTypes, CreationTypes, DestroyMoves
<1>6. \A m \in Number : Fine(m) => Fine(m)'
  BY <1>2, <1>3, <1>4 DEF Fine
<1>7. Recorded'
  <2>1. \A s \in Slot : purchase[s].pc = "bought" => purchase[s].number \in Number
    BY DEF Types, PurchaseTypes, Buys
  <2>2. (\A s \in Slot : purchase[s].pc = "bought" => Fine(purchase[s].number))'
    <3> SUFFICES ASSUME NEW s \in Slot, purchase[s].pc = "bought"
                 PROVE  Fine(purchase[s].number)'
      BY <1>2
    <3> PICK m \in Number : m = purchase[s].number
      BY <2>1
    <3> QED
      BY <1>2, <1>6 DEF NumbersInv, Recorded, Fine
  <2> QED
    BY <1>2, <1>3, <1>6, <2>2 DEF NumbersInv, Recorded
<1>8. Bought'
  <2>1. \A s \in Slot : purchase[s].pc = "record" => purchase[s].number \in Number
    BY DEF Types, PurchaseTypes, Buys
  <2> QED
    BY <1>2, <1>3, <1>4, <2>1 DEF NumbersInv, Bought
<1>9. Released'
  BY <1>1, <1>2, <1>3 DEF NumbersInv, Released, DestroyMoves
<1>10. OwnedRecorded'
  BY <1>2, <1>3, <1>4 DEF NumbersInv, OwnedRecorded
<1>11. KeysInv => Kept' /\ Recording'
  BY <1>1, <1>2, <1>3 DEF KeysInv, Kept, Recording, DestroyMoves
<1>12. KeysInv => SweptGone'
  BY <1>2, <1>3 DEF KeysInv, SweptGone, Types, SweepRecord
<1>13. KeysInv => Served'
  BY <1>2, <1>3, <1>4 DEF KeysInv, Served
<1> QED
  BY <1>5, <1>7, <1>8, <1>9, <1>10, <1>11, <1>12, <1>13 DEF NumbersInv, KeysInv

-----------------------------------------------------------------------------
(* Sweeping. *)

LEMMA SweepKeeps ==
  ASSUME Inv, sweep' \in SweepRecord, keys' \subseteq keys,
         UNCHANGED <<record, twilio, purchase, registrar, destroy, creation, unclean>>,
         sweep'.entries \subseteq sweep.entries \cup keys,
         sweep'.pc = "filtered" => \A n \in sweep'.entries : record[n] = "none",
         KeysInv => \A n \in Number : n \in keys /\ n \notin keys' => record[n] = "none"
  PROVE  Inv'
<1> USE DEF Inv
<1>1. Types'
  BY DEF Types, PurchaseTypes, RegistrarTypes, CreationTypes
<1>2. Recorded'
  BY DEF NumbersInv, Recorded, Fine
<1>3. Bought' /\ Released' /\ OwnedRecorded'
  BY DEF NumbersInv, Bought, Released, OwnedRecorded
<1>4. KeysInv => Kept' /\ Recording'
  BY DEF KeysInv, Kept, Recording
<1>5. KeysInv => SweptGone' /\ Served'
  BY DEF KeysInv, SweptGone, Served
<1> QED
  BY <1>1, <1>2, <1>3, <1>4, <1>5 DEF NumbersInv, KeysInv

LEMMA SweepingKeeps == ASSUME Inv, Sweeping PROVE Inv'
<1>1. sweep \in SweepRecord /\ keys \subseteq Number
  BY DEF Inv, Types
<1>2. CASE ReadKeystore
  <2>1. sweep' \in SweepRecord /\ sweep'.pc = "read" /\ sweep'.entries = keys
    BY <1>1, <1>2 DEF ReadKeystore, SweepRecord
  <2>2. UNCHANGED <<record, twilio, keys, purchase, registrar, destroy, creation, unclean>>
    BY <1>2 DEF ReadKeystore, tables, outside, history
  <2> QED
    BY <2>1, <2>2, SweepKeeps
<1>3. CASE FilterEntries
  <2>1. sweep' \in SweepRecord /\ sweep'.entries = {n \in sweep.entries : record[n] = "none"}
    BY <1>1, <1>3 DEF FilterEntries, SweepRecord
  <2>2. UNCHANGED <<record, twilio, keys, purchase, registrar, destroy, creation, unclean>>
    BY <1>3 DEF FilterEntries, tables, outside, history
  <2> QED
    BY <2>1, <2>2, SweepKeeps
<1>4. CASE RemoveEntries
  <2>1. sweep' \in SweepRecord /\ sweep'.pc = "done" /\ sweep'.entries = {}
    BY <1>1, <1>4 DEF RemoveEntries, SweepRecord
  <2>2. UNCHANGED <<record, twilio, purchase, registrar, destroy, creation, unclean>>
        /\ keys' = keys \ sweep.entries /\ sweep.pc = "filtered"
    BY <1>4 DEF RemoveEntries, tables, history
  <2>3. KeysInv => \A n \in Number : n \in keys /\ n \notin keys' => record[n] = "none"
    BY <2>2 DEF KeysInv, SweptGone
  <2> QED
    BY <2>1, <2>2, <2>3, SweepKeeps
<1> QED
  BY <1>2, <1>3, <1>4 DEF Sweeping

-----------------------------------------------------------------------------
LEMMA UnchangedKeeps ==
  ASSUME Inv, UNCHANGED <<record, twilio, keys, purchase, registrar, destroy, creation, sweep>>,
         unclean' = unclean
  PROVE  Inv'
<1> USE DEF Inv
<1>1. Types'
  BY DEF Types, PurchaseTypes, RegistrarTypes, CreationTypes
<1>2. Recorded'
  BY DEF NumbersInv, Recorded, Fine
<1>3. Bought' /\ Released' /\ OwnedRecorded'
  BY DEF NumbersInv, Bought, Released, OwnedRecorded
<1>4. KeysInv => KeysInv'
  BY DEF KeysInv, Kept, Recording, SweptGone, Served
<1> QED
  BY <1>1, <1>2, <1>3, <1>4 DEF NumbersInv

LEMMA BuyingKeeps == ASSUME Inv, Buying PROVE Inv'
BY ProvisionKeeps, RegisterPurchasedKeeps, SearchKeeps, CreateTwilioKeeps, RecordPurchaseKeeps
   DEF Buying

LEMMA RegisteringKeeps == ASSUME Inv, Registering PROVE Inv'
BY ApiRegisterKeeps, RegisterAllKeeps, RegisterKeeps, VerifyKeeps, RegisterFailsKeeps,
   RecordVerifiedKeeps DEF Registering

LEMMA DestroyingKeeps == ASSUME Inv, Destroying PROVE Inv'
BY CallDestroyKeeps, ReleaseKeeps, UnsubscribeKeeps, DeleteKeystoreKeeps, CommitKeeps,
   DestroyFailsKeeps DEF Destroying

LEMMA TextingKeeps == ASSUME Inv, Texting PROVE Inv'
<1>1. UNCHANGED others
  BY DEF Texting, CheckQuota, CountFinds, CountIncrements, DeleteExpired
<1> QED
  BY <1>1, UnchangedKeeps DEF others, tables, outside, history

LEMMA InvInit == Init => Inv
<1> SUFFICES ASSUME Init PROVE Inv
  OBVIOUS
<1>1. \A n \in Number : Initial[n] # "ACTIVE" /\ (Initial[n] = "VERIFIED" => n \in keys)
  BY ConstantsAssumption DEF Init
<1>2. Kept /\ SweptGone
  BY <1>1 DEF Init, Kept, SweptGone
<1>3. Recording /\ Served
  BY ConstantsAssumption DEF Init, Recording, Served
<1> QED
  BY <1>2, <1>3, TypesInit, NumbersInit DEF Inv, KeysInv

LEMMA InvNext == Inv /\ [Next]_vars => Inv'
<1> SUFFICES ASSUME Inv, [Next]_vars PROVE Inv'
  OBVIOUS
<1>1. CASE UNCHANGED vars
  BY <1>1, UnchangedKeeps DEF vars, tables, outside, history
<1> QED
  BY <1>1, BuyingKeeps, RegisteringKeeps, CreatingKeeps, DestroyingKeeps, SweepingKeeps,
     TextingKeeps DEF Next

\* What the proofs below follow from is invariant.
THEOREM Invariant == Spec => []Inv
BY InvInit, InvNext, PTL DEF Spec

\* Twilio bills no number that nobody knows of: what was bought is unrecorded
\* until it is recorded or told of in an error, and nobody else buys it; a row is
\* deleted when Twilio has the number back.
THEOREM NumbersAreOwned == Spec => []OwnedRecorded
<1>1. Inv => OwnedRecorded
  BY DEF Inv, NumbersInv
<1> QED
  BY <1>1, Invariant, PTL

\* Where creations choose their numbers themselves, a number that is in use or
\* offered has its keys: a sweep removes those of numbers that are not on record,
\* which no number in use comes back from; a registration that is to be recorded
\* has them, or the number is gone.
THEOREM KeysAreKept == ASSUME Asked = {} PROVE Spec => []KeysKept
<1>1. Inv => KeysKept
  BY DEF Inv, KeysInv, Kept, KeysKept, Locked
<1> QED
  BY <1>1, Invariant, PTL

-----------------------------------------------------------------------------
(* What a creation tells of its channel. *)

\* Call c, that no other came across, has so far done what it will tell of.
Done(c, n) ==
  /\ creation[c].pc \in {"find", "create", "activate", "announce"} => n \in subscribed
  /\ creation[c].pc \in {"activate", "announce"} /\ ~creation[c].found => channel[n] = c
  /\ creation[c].pc = "announce" => record[n] \in {"ACTIVE", "none"}

Holding ==
  /\ channel \in [Number -> Creation \cup {None}]
  /\ \A c \in Creation \ met, n \in Number : creation[c].number = n => Done(c, n)

\* A step that leaves creations alone, and of which those whose number it is about
\* hear.
LEMMA HoldingKept ==
  ASSUME Holding, NEW n, channel' \in [Number -> Creation \cup {None}],
         creation' = creation, met \subseteq met',
         \A c \in Creation \ met' : Underway(c) => creation[c].number # n,
         \A m \in Number \ {n} :
           channel'[m] = channel[m] /\ record'[m] = record[m] /\ (m \in subscribed => m \in subscribed')
  PROVE  Holding'
<1> SUFFICES ASSUME NEW c \in Creation \ met', NEW m \in Number, creation[c].number = m
             PROVE  Done(c, m)'
  BY DEF Holding
<1>1. CASE Underway(c)
  BY <1>1 DEF Holding, Done
<1>2. CASE ~Underway(c)
  BY <1>2 DEF Done, Underway
<1> QED
  BY <1>1, <1>2

\* A step that none of it is about.
LEMMA HoldingElsewhere ==
  ASSUME Holding, UNCHANGED <<channel, record, subscribed, creation>>, met' = met
  PROVE  Holding'
BY DEF Holding, Done

\* A step of call c about number n, of which other calls about it hear.
LEMMA HoldingStep ==
  ASSUME Holding, NEW c \in Creation, NEW n \in Number,
         channel' \in [Number -> Creation \cup {None}],
         \A d \in Creation : d # c => creation'[d] = creation[d],
         \A d \in Creation \ met' : d # c /\ Underway(d) => creation[d].number # n,
         met \subseteq met' \cup {c},
         \A m \in Number \ {n} :
           channel'[m] = channel[m] /\ record'[m] = record[m] /\ (m \in subscribed => m \in subscribed'),
         \A m \in Number : c \notin met' /\ creation'[c].number = m => Done(c, m)'
  PROVE  Holding'
<1> SUFFICES ASSUME NEW d \in Creation \ met', NEW m \in Number, d # c, creation'[d].number = m
             PROVE  Done(d, m)'
  BY DEF Holding
<1>1. Done(d, m) /\ creation'[d] = creation[d]
  BY DEF Holding
<1>2. CASE Underway(d)
  BY <1>1, <1>2 DEF Done
<1>3. CASE ~Underway(d)
  BY <1>1, <1>3 DEF Done, Underway
<1> QED
  BY <1>2, <1>3

\* A call that is answered has nothing more to tell.
LEMMA HoldingAnswer ==
  ASSUME Types, Holding, NEW c \in Creation, Answer(c), UNCHANGED <<channel, record, subscribed>>
  PROVE  Holding'
<1>1. creation'[c].pc = "idle" /\ \A d \in Creation : d # c => creation'[d] = creation[d]
  BY AnswerStep DEF Answer, Types, CreationTypes
<1>2. \A d \in Creation \ met' : d # c => d \notin met
  BY DEF Answer
<1> QED
  BY <1>1, <1>2 DEF Holding, Done

\* Every step of creations keeps it.
LEMMA HoldingCreating ==
  ASSUME Types, Holding, NEW c \in Creation,
         \/ Create(c) \/ ListVerified(c) \/ Subscribe(c) \/ FindChannel(c) \/ CreateChannel(c)
         \/ Activate(c) \/ Announce(c) \/ CreationFails(c)
  PROVE  Holding'
<1>1. creation \in [Creation -> CreationRecord] /\ creation[c] \in CreationRecord
  BY DEF Types, CreationTypes
<1>2. CASE Announce(c) \/ CreationFails(c)
  BY <1>2, HoldingAnswer DEF Announce, CreationFails, tables, outside
<1>3. ASSUME NEW pc \in {"list", "subscribe"}, creation'[c].pc = pc, met' = met,
             \A d \in Creation : d # c => creation'[d] = creation[d],
             UNCHANGED <<channel, record, subscribed>>
      PROVE  Holding'
  BY <1>3 DEF Holding, Done
<1>4. \A n, pc : creation' = [creation EXCEPT ![c].pc = pc, ![c].number = n] =>
        creation'[c].pc = pc /\ \A d \in Creation : d # c => creation'[d] = creation[d]
  <2> SUFFICES ASSUME NEW n, NEW pc, creation' = [creation EXCEPT ![c].pc = pc, ![c].number = n]
               PROVE  creation'[c].pc = pc /\ \A d \in Creation : d # c => creation'[d] = creation[d]
    OBVIOUS
  <2> DEFINE f == [creation EXCEPT ![c].pc = pc]
  <2>1. f[c].pc = pc /\ DOMAIN f = Creation /\ DOMAIN f[c] = {"pc", "number", "found"}
        /\ \A d \in Creation : d # c => f[d] = creation[d]
    BY <1>1 DEF CreationRecord
  <2>2. creation' = [f EXCEPT ![c].number = n]
    OBVIOUS
  <2> HIDE DEF f
  <2> QED
    BY <2>1, <2>2
<1>5. CASE Create(c)
  BY <1>3, <1>4, <1>5 DEF Create, tables, outside, history
<1>6. CASE ListVerified(c)
  BY <1>3, <1>4, <1>6, HoldingAnswer DEF ListVerified, tables, outside
<1>7. ASSUME Subscribe(c) \/ FindChannel(c) \/ CreateChannel(c) \/ Activate(c)
      PROVE  creation[c].number \in Number
  BY <1>7 DEF Subscribe, FindChannel, CreateChannel, Activate, At, Types, CreationTypes, Creates
<1>8. ASSUME NEW pc, Go(c, pc)
      PROVE  /\ creation'[c].pc = pc /\ creation'[c].number = creation[c].number
             /\ creation'[c].found = creation[c].found
             /\ \A d \in Creation : d # c => creation'[d] = creation[d]
  BY <1>1, <1>8 DEF Go, CreationRecord
<1>9. ASSUME NEW n, Meet(n, {c})
      PROVE  /\ met \subseteq met' /\ (c \in met' => c \in met)
             /\ \A d \in Creation \ met' : d # c /\ Underway(d) => creation[d].number # n
  BY <1>9 DEF Meet
<1>10. CASE Subscribe(c)
  <2> PICK n \in Number : n = creation[c].number
    BY <1>7, <1>10
  <2>1. Go(c, "find") /\ Meet(n, {c}) /\ subscribed' = subscribed \cup {n}
        /\ channel' = channel /\ record' = record
    BY <1>10 DEF Subscribe, tables
  <2>2. \A m \in Number : c \notin met' /\ creation'[c].number = m => Done(c, m)'
    BY <1>8, <2>1 DEF Done
  <2> QED
    BY <1>8, <1>9, <2>1, <2>2, HoldingStep DEF Holding
<1>11. CASE FindChannel(c)
  <2> DEFINE f == [creation EXCEPT ![c].pc = "create"]
  <2>1. f[c].pc = "create" /\ f[c].number = creation[c].number /\ f \in [Creation -> CreationRecord]
        /\ \A d \in Creation : d # c => f[d] = creation[d]
    BY <1>1 DEF CreationRecord
  <2>2. PICK b \in BOOLEAN : creation' = [f EXCEPT ![c].found = b]
    BY <1>11 DEF FindChannel
  <2> HIDE DEF f
  <2>3. creation'[c].pc = "create" /\ creation'[c].number = creation[c].number
        /\ \A d \in Creation : d # c => creation'[d] = creation[d]
    BY <2>1, <2>2 DEF CreationRecord
  <2>4. creation[c].pc = "find" /\ UNCHANGED <<channel, record, subscribed>> /\ met' = met
    BY <1>11 DEF FindChannel, At, tables, outside, history
  <2> QED
    BY <2>3, <2>4 DEF Holding, Done
<1>12. CASE CreateChannel(c)
  <2> PICK n \in Number : n = creation[c].number
    BY <1>7, <1>12
  <2>1. record' = record /\ subscribed' = subscribed /\ creation[c].pc = "create"
    BY <1>12 DEF CreateChannel, At, outside
  <2>2. CASE Answer(c) /\ channel' = channel
    BY <2>1, <2>2, HoldingAnswer
  <2>3. CASE /\ Go(c, "activate") /\ Meet(n, {c})
             /\ \/ ~creation[c].found /\ channel' = [channel EXCEPT ![n] = c]
                \/ creation[c].found /\ channel' = channel
    <3>1. /\ channel' \in [Number -> Creation \cup {None}]
          /\ ~creation[c].found => channel'[n] = c
          /\ \A m \in Number \ {n} : channel'[m] = channel[m]
      BY <2>3 DEF Holding
    <3>2. \A m \in Number : c \notin met' /\ creation'[c].number = m => Done(c, m)'
      BY <1>8, <1>9, <2>1, <2>3, <3>1 DEF Done, Holding
    <3> QED
      BY <1>8, <1>9, <2>1, <2>3, <3>1, <3>2, HoldingStep
  <2> QED
    BY <1>12, <2>2, <2>3 DEF CreateChannel
<1>13. CASE Activate(c)
  <2> PICK n \in Number : n = creation[c].number
    BY <1>7, <1>13
  <2>1. Go(c, "announce") /\ Meet(n, {c}) /\ subscribed' = subscribed /\ channel' = channel
        /\ SetStatus(n, "ACTIVE") /\ creation[c].pc = "activate"
    BY <1>13 DEF Activate, At, outside
  <2>2. StatusSet(n, "ACTIVE")
    BY <2>1, StatusStep
  <2>3. \A m \in Number : c \notin met' /\ creation'[c].number = m => Done(c, m)'
    BY <1>8, <1>9, <2>1, <2>2 DEF Done, Holding, StatusSet
  <2> QED
    BY <1>8, <1>9, <2>1, <2>2, <2>3, HoldingStep DEF Holding, StatusSet
<1> QED
  BY <1>2, <1>5, <1>6, <1>10, <1>11, <1>12, <1>13

\* Nobody buys a number that a creation has: it was on record, and is released
\* when it is not any more.
LEMMA HoldingBought ==
  ASSUME Inv, Asked = {}, Holding, NEW s \in Slot, RecordPurchase(s)
  PROVE  Holding'
<1> PICK n \in Number : n = purchase[s].number
  BY DEF RecordPurchase, Inv, Types, PurchaseTypes, Buys
<1>1. twilio[n] = "billed" /\ record[n] = "none"
  BY DEF RecordPurchase, Inv, NumbersInv, Bought
<1>2. \A c \in Creation : creation[c].number # n
  BY <1>1 DEF Inv, KeysInv, Served
<1>3. UNCHANGED <<channel, subscribed, creation>> /\ met' = met
      /\ \A m \in Number \ {n} : record'[m] = record[m]
  BY DEF RecordPurchase, Inv, Types, outside
<1> QED
  BY <1>2, <1>3, HoldingKept DEF Holding

\* Steps that end with Meet(n, {}) are heard of by every call about n.
LEMMA HoldingMet ==
  ASSUME Holding, NEW n \in Number, Meet(n, {}), creation' = creation,
         channel' \in [Number -> Creation \cup {None}],
         \A m \in Number \ {n} :
           channel'[m] = channel[m] /\ record'[m] = record[m] /\ (m \in subscribed => m \in subscribed')
  PROVE  Holding'
<1>1. met \subseteq met' /\ \A c \in Creation \ met' : Underway(c) => creation[c].number # n
  BY DEF Meet
<1> QED
  BY <1>1, HoldingKept

LEMMA HoldingNext == ASSUME Inv, Asked = {}, Holding, [Next]_vars PROVE Holding'
<1>1. channel \in [Number -> Creation \cup {None}] /\ record \in [Number -> Statuses] /\ Types
  BY DEF Holding, Inv, Types
<1> USE DEF tables, outside, history
<1>2. CASE UNCHANGED vars
  BY <1>2, HoldingElsewhere DEF vars
<1>3. CASE Buying
  <2>1. CASE ProvisionN \/ RegisterPurchased
    BY <2>1, HoldingElsewhere DEF ProvisionN, RegisterPurchased
  <2>2. ASSUME NEW s \in Slot, Search(s) \/ CreateTwilio(s) PROVE Holding'
    BY <2>2, HoldingElsewhere DEF Search, CreateTwilio
  <2> QED
    BY <1>3, <2>1, <2>2, HoldingBought DEF Buying
<1>4. CASE Registering
  <2>1. ASSUME NEW x \in Registrar, ApiRegister(x) \/ RegisterAllUnregistered \/ Register(x)
                                    \/ Verify(x) \/ RegisterFails(x)
        PROVE  Holding'
    BY <2>1, HoldingElsewhere DEF ApiRegister, RegisterAllUnregistered, Register, Verify, RegisterFails
  <2>2. ASSUME NEW x \in Registrar, RecordVerified(x) PROVE Holding'
    <3> PICK n \in Number : n = registrar[x].number
      BY <1>1, <2>2 DEF RecordVerified, Types, RegistrarTypes, Registers
    <3>1. SetStatus(n, "VERIFIED") /\ Meet(n, {}) /\ UNCHANGED <<channel, subscribed, creation>>
      BY <2>2 DEF RecordVerified
    <3>2. StatusSet(n, "VERIFIED")
      BY <1>1, <3>1, StatusStep
    <3> QED
      BY <1>1, <3>1, <3>2, HoldingMet DEF StatusSet
  <2> QED
    BY <1>4, <2>1, <2>2 DEF Registering, Registrar
<1>5. CASE Creating
  BY <1>1, <1>5, HoldingCreating DEF Creating
<1>6. CASE Destroying
  <2> PICK n \in Number :
        \/ CallDestroy(n) \/ Release(n) \/ Unsubscribe(n) \/ DeleteKeystore(n) \/ Commit(n)
        \/ DestroyFails(n)
    BY <1>6 DEF Destroying
  <2>1. CASE CallDestroy(n) \/ Release(n) \/ DeleteKeystore(n)
    BY <2>1, HoldingElsewhere DEF CallDestroy, Release, DeleteKeystore
  <2>2. CASE Unsubscribe(n)
    <3>1. Meet(n, {}) /\ UNCHANGED <<record, channel, creation>>
          /\ \A m \in Number \ {n} : m \in subscribed => m \in subscribed'
      BY <2>2 DEF Unsubscribe
    <3> QED
      BY <1>1, <3>1, HoldingMet
  <2>3. CASE Commit(n)
    <3>1. Meet(n, {}) /\ UNCHANGED <<subscribed, creation>> /\ record' = [record EXCEPT ![n] = "none"]
          /\ (channel' = channel \/ channel' = [channel EXCEPT ![n] = None])
      BY <2>3 DEF Commit
    <3> QED
      BY <1>1, <3>1, HoldingMet
  <2>4. CASE DestroyFails(n)
    BY <1>1, <2>4, HoldingMet DEF DestroyFails
  <2> QED
    BY <2>1, <2>2, <2>3, <2>4
<1>7. CASE Sweeping
  BY <1>7, HoldingElsewhere DEF Sweeping, ReadKeystore, FilterEntries, RemoveEntries
<1>8. CASE Texting
  BY <1>8, HoldingElsewhere DEF Texting, CheckQuota, CountFinds, CountIncrements, DeleteExpired, others
<1> QED
  BY <1>2, <1>3, <1>4, <1>5, <1>6, <1>7, <1>8 DEF Next

\* Where creations choose their numbers themselves, one that made a channel and that
\* no other call about the number came across tells the truth: the channel is the one
\* it made, signald was asked to receive its messages, and the number is in use.
THEOREM CreationsTellTheTruth == ASSUME Asked = {} PROVE Spec => []CreationHolds
<1>1. Init => Holding
  BY DEF Init, Holding, Done
<1>2. Inv /\ Holding /\ [Next]_vars => Holding'
  BY HoldingNext
<1>3. Inv /\ Holding => CreationHolds
  BY DEF CreationHolds, At, Holding, Done, Inv, Types, CreationTypes, Creates
<1> QED
  BY <1>1, <1>2, <1>3, InvInit, InvNext, PTL DEF Spec

-----------------------------------------------------------------------------
(* Text messages. *)

\* Those of a sender that were let through and are not counted yet.
Answering(s) == {t \in Text : text[t].sender = s /\ text[t].pc # "idle"}

TextTypes ==
  /\ text \in [Text -> [pc: {"idle", "count", "increment"}, sender: Sender]]
  /\ DOMAIN sent = Sender

\* Each is counted once, and only those under the quota were let through.
Counted ==
  \A s \in Sender :
    /\ Answering(s) # {} => Quota > 0
    /\ sent[s] # None =>
         sent[s] \in Nat /\ sent[s] + Cardinality(Answering(s)) < Quota + Cardinality(Text)

TextsInv == TextTypes /\ Counted

LEMMA Texts == IsFiniteSet(Text) /\ Cardinality(Text) \in Nat /\ Quota \in Nat
BY ConstantsAssumption, FS_CardinalityType

LEMMA AnsweringFinite ==
  ASSUME NEW S \in SUBSET Text
  PROVE  IsFiniteSet(S) /\ Cardinality(S) \in Nat /\ Cardinality(S) <= Cardinality(Text)
BY Texts, FS_Subset, FS_CardinalityType

\* A message goes on to a label.
TextMoves(t, pc) ==
  /\ text' \in [Text -> [pc: {"idle", "count", "increment"}, sender: Sender]]
  /\ text'[t].pc = pc /\ text'[t].sender = text[t].sender
  /\ \A u \in Text : u # t => text'[u] = text[u]

LEMMA TextStep ==
  ASSUME TextTypes, NEW t \in Text, NEW pc \in {"idle", "count", "increment"},
         text' = [text EXCEPT ![t].pc = pc]
  PROVE  TextMoves(t, pc)
BY DEF TextTypes, TextMoves

\* What the sender of a message is left with, others being as they were.
SentMoves(s) ==
  /\ DOMAIN sent' = Sender
  /\ \A r \in Sender : r # s => sent'[r] = sent[r]

LEMMA AnsweringOthers ==
  ASSUME NEW t \in Text, NEW pc \in {"idle", "count", "increment"}, TextMoves(t, pc),
         NEW r \in Sender, r # text[t].sender
  PROVE  Answering(r)' = Answering(r)
BY DEF TextMoves, Answering

\* One sender is checked: the others are as they were.
LEMMA OthersCounted ==
  ASSUME TextsInv, NEW t \in Text, NEW pc \in {"idle", "count", "increment"}, TextMoves(t, pc),
         NEW s \in Sender, s = text[t].sender, SentMoves(s),
         (Answering(s) # {})' => Quota > 0,
         sent'[s] # None => sent'[s] \in Nat
           /\ sent'[s] + Cardinality(Answering(s)') < Quota + Cardinality(Text)
  PROVE  TextsInv'
<1>1. TextTypes'
  BY DEF TextsInv, TextTypes, TextMoves, SentMoves
<1>2. ASSUME NEW r \in Sender, r # s
      PROVE  /\ Answering(r)' # {} => Quota > 0
             /\ sent'[r] # None => sent'[r] \in Nat
                  /\ sent'[r] + Cardinality(Answering(r)') < Quota + Cardinality(Text)
  <2>1. Answering(r)' = Answering(r) /\ sent'[r] = sent[r]
    BY <1>2, AnsweringOthers DEF SentMoves
  <2> QED
    BY <2>1 DEF TextsInv, Counted
<1> QED
  BY <1>1, <1>2 DEF TextsInv, Counted

LEMMA CheckQuotaCounts == ASSUME TextsInv, NEW t \in Text, CheckQuota(t) PROVE TextsInv'
<1> PICK s \in Sender : s = text[t].sender
  BY DEF TextsInv, TextTypes
<1>1. TextMoves(t, "count")
  BY TextStep DEF TextsInv, CheckQuota
<1>2. /\ FoundOrCreated(s) < Quota /\ SentMoves(s) /\ sent'[s] = FoundOrCreated(s)
  BY DEF TextsInv, TextTypes, CheckQuota, SentMoves
<1>3. FoundOrCreated(s) \in Nat
  BY DEF FoundOrCreated, TextsInv, Counted
<1>4. Quota > 0
  BY <1>2, <1>3, Texts
<1>5. Answering(s)' \in SUBSET Text
  BY DEF Answering
<1>6. Cardinality(Answering(s)') \in Nat /\ Cardinality(Answering(s)') <= Cardinality(Text)
  BY <1>5, AnsweringFinite
<1>7. FoundOrCreated(s) + Cardinality(Answering(s)') < Quota + Cardinality(Text)
  BY <1>2, <1>3, <1>6, Texts
<1> QED
  BY <1>1, <1>2, <1>3, <1>4, <1>7, OthersCounted

LEMMA CountFindsCounts == ASSUME TextsInv, NEW t \in Text, CountFinds(t) PROVE TextsInv'
<1> PICK s \in Sender : s = text[t].sender
  BY DEF TextsInv, TextTypes
<1>1. TextMoves(t, "increment") /\ text[t].pc = "count"
  BY TextStep DEF TextsInv, CountFinds
<1>2. SentMoves(s) /\ sent'[s] = FoundOrCreated(s)
  BY DEF TextsInv, TextTypes, CountFinds, SentMoves
<1>3. t \in Answering(s) /\ Answering(s)' = Answering(s)
  BY <1>1 DEF Answering, TextMoves
<1>4. Quota > 0
  BY <1>3 DEF TextsInv, Counted
<1>5. Answering(s) \in SUBSET Text
  BY DEF Answering
<1>6. Cardinality(Answering(s)) \in Nat /\ Cardinality(Answering(s)) <= Cardinality(Text)
  BY <1>5, AnsweringFinite
<1>7. CASE sent[s] = None
  <2>1. sent'[s] = 0
    BY <1>2, <1>7 DEF FoundOrCreated
  <2>2. 0 + Cardinality(Answering(s)) < Quota + Cardinality(Text)
    BY <1>4, <1>6, Texts
  <2> QED
    BY <1>1, <1>2, <1>3, <1>4, <2>1, <2>2, OthersCounted
<1>8. CASE sent[s] # None
  <2>1. sent'[s] = sent[s]
    BY <1>2, <1>8 DEF FoundOrCreated
  <2>2. sent[s] \in Nat /\ sent[s] + Cardinality(Answering(s)) < Quota + Cardinality(Text)
    BY <1>8 DEF TextsInv, Counted
  <2> QED
    BY <1>1, <1>2, <1>3, <1>4, <2>1, <2>2, OthersCounted
<1> QED
  BY <1>7, <1>8

LEMMA CountIncrementsCounts ==
  ASSUME TextsInv, NEW t \in Text, CountIncrements(t) PROVE TextsInv'
<1> PICK s \in Sender : s = text[t].sender
  BY DEF TextsInv, TextTypes
<1>1. TextMoves(t, "idle") /\ text[t].pc = "increment"
  BY TextStep DEF TextsInv, CountIncrements
<1>2. SentMoves(s) /\ sent'[s] = IF sent[s] = None THEN None ELSE sent[s] + 1
  BY DEF TextsInv, TextTypes, CountIncrements, SentMoves
<1>3. t \in Answering(s) /\ Answering(s)' = Answering(s) \ {t}
  BY <1>1 DEF Answering, TextMoves
<1>4. Quota > 0
  BY <1>3 DEF TextsInv, Counted
<1>5. Answering(s) \in SUBSET Text
  BY DEF Answering
<1>6. IsFiniteSet(Answering(s)) /\ Cardinality(Answering(s)) \in Nat
  BY <1>5, AnsweringFinite
<1>7. Cardinality(Answering(s)') = Cardinality(Answering(s)) - 1
  <2>1. Cardinality(Answering(s) \ {t}) = Cardinality(Answering(s)) - 1
    BY ONLY <1>3, <1>6, FS_RemoveElement
  <2> QED
    BY <1>3, <2>1
<1>8. CASE sent[s] = None
  <2>1. sent'[s] = None /\ SentMoves(s)
    BY <1>2, <1>8
  <2> QED
    BY <1>1, <1>4, <2>1, OthersCounted
<1>9. CASE sent[s] # None
  <2>1. sent[s] \in Nat /\ sent[s] + Cardinality(Answering(s)) < Quota + Cardinality(Text)
    BY <1>9 DEF TextsInv, Counted
  <2>2. sent'[s] = sent[s] + 1
    BY <1>2, <1>9
  <2>3. (sent[s] + 1) + (Cardinality(Answering(s)) - 1) < Quota + Cardinality(Text)
    BY <2>1, <1>6, Texts
  <2>4. sent'[s] \in Nat /\ sent'[s] + Cardinality(Answering(s)') < Quota + Cardinality(Text)
    BY <2>1, <2>2, <2>3, <1>7
  <2> QED
    BY <1>1, <1>2, <1>4, <2>4, OthersCounted
<1> QED
  BY <1>8, <1>9

LEMMA DeleteExpiredCounts ==
  ASSUME TextsInv, NEW s \in Sender, DeleteExpired(s) PROVE TextsInv'
<1>1. UNCHANGED text /\ sent' = [sent EXCEPT ![s] = None]
  BY DEF DeleteExpired
<1>2. \A r \in Sender : Answering(r)' = Answering(r)
  BY <1>1 DEF Answering
<1>3. DOMAIN sent' = Sender /\ sent'[s] = None /\ \A r \in Sender : r # s => sent'[r] = sent[r]
  BY <1>1 DEF TextsInv, TextTypes
<1> QED
  BY <1>1, <1>2, <1>3 DEF TextsInv, TextTypes, Counted

LEMMA TextsElsewhere == ASSUME TextsInv, UNCHANGED texts PROVE TextsInv'
BY DEF TextsInv, TextTypes, Counted, Answering, texts

LEMMA TextsNext == TextsInv /\ [Next]_vars => TextsInv'
<1> SUFFICES ASSUME TextsInv, [Next]_vars PROVE TextsInv'
  OBVIOUS
<1>1. CASE Texting
  BY <1>1, CheckQuotaCounts, CountFindsCounts, CountIncrementsCounts, DeleteExpiredCounts
     DEF Texting
<1>2. CASE Buying
  BY <1>2, TextsElsewhere DEF Buying, ProvisionN, RegisterPurchased, Search, CreateTwilio,
     RecordPurchase
<1>3. CASE Registering
  BY <1>3, TextsElsewhere DEF Registering, ApiRegister, RegisterAllUnregistered, Register, Verify,
     RegisterFails, RecordVerified
<1>4. CASE Creating
  BY <1>4, TextsElsewhere DEF Creating, Create, ListVerified, Subscribe, FindChannel,
     CreateChannel, Activate, Announce, CreationFails
<1>5. CASE Destroying
  BY <1>5, TextsElsewhere DEF Destroying, CallDestroy, Release, Unsubscribe, DeleteKeystore,
     Commit, DestroyFails
<1>6. CASE Sweeping
  BY <1>6, TextsElsewhere DEF Sweeping, ReadKeystore, FilterEntries, RemoveEntries
<1>7. CASE UNCHANGED vars
  BY <1>7, TextsElsewhere DEF vars
<1> QED
  BY <1>1, <1>2, <1>3, <1>4, <1>5, <1>6, <1>7 DEF Next

\* However many texts of one sender come in at once, they exceed the quota by
\* less than their number: each was let through under the quota, and is counted
\* once.
THEOREM OvershootIsBounded == Spec => []QuotaOvershoot
<1>1. Init => TextsInv
  BY DEF Init, TextsInv, TextTypes, Counted, Answering
<1>2. ASSUME TextsInv PROVE QuotaOvershoot
  <2> SUFFICES ASSUME NEW s \in Sender, sent[s] # None
               PROVE  sent[s] < Quota + Cardinality(Text)
    BY DEF QuotaOvershoot
  <2>1. sent[s] \in Nat /\ sent[s] + Cardinality(Answering(s)) < Quota + Cardinality(Text)
    BY <1>2 DEF TextsInv, Counted
  <2>2. Cardinality(Answering(s)) \in Nat
    BY AnsweringFinite DEF Answering
  <2> QED
    BY <2>1, <2>2, Texts
<1> QED
  BY <1>1, <1>2, TextsNext, PTL DEF Spec

-----------------------------------------------------------------------------
(* The other variables keep their types, too. *)

OtherTypes ==
  /\ subscribed \subseteq Number /\ unclean \subseteq Number /\ met \subseteq Creation
  /\ channel \in [Number -> Creation \cup {None}]
  /\ callback \in [Number -> Registrar \cup {None}]
  /\ failures \in 0..MaxFailures
  /\ sent = [s \in Sender |-> sent[s]]

LEMMA OtherTypesNext == ASSUME Types, OtherTypes, [Next]_vars PROVE OtherTypes'
<1>n. MaxFailures \in Nat
  BY ConstantsAssumption
<1> USE DEF OtherTypes, tables, outside, texts, history
<1>1. CASE UNCHANGED <<subscribed, channel, callback, history, sent>>
  BY <1>1
<1>2. ASSUME NEW s \in Slot, Search(s) \/ CreateTwilio(s) \/ RecordPurchase(s)
      PROVE  OtherTypes'
  BY <1>n, <1>2 DEF Search, CreateTwilio, RecordPurchase, Fails
<1>3. CASE Buying
  BY <1>1, <1>2, <1>3 DEF Buying, ProvisionN, RegisterPurchased
<1>4. CASE Registering
  <2>1. ASSUME NEW x \in Registrar, Register(x) PROVE OtherTypes'
    BY <2>1 DEF Register
  <2>2. ASSUME NEW x \in Registrar, Verify(x) \/ RegisterFails(x) PROVE OtherTypes'
    BY <2>2 DEF Verify, RegisterFails
  <2>3. ASSUME NEW x \in Registrar, RecordVerified(x) PROVE OtherTypes'
    BY <2>3 DEF RecordVerified, Meet
  <2> QED
    BY <1>1, <1>4, <2>1, <2>2, <2>3 DEF Registering, ApiRegister, RegisterAllUnregistered
<1>5. CASE Creating
  <2>1. ASSUME NEW c \in Creation, Create(c) \/ FindChannel(c) PROVE OtherTypes'
    BY <1>1, <2>1 DEF Create, FindChannel
  <2>2. ASSUME NEW c \in Creation, ListVerified(c) \/ Announce(c) \/ CreationFails(c)
        PROVE  OtherTypes'
    BY <1>n, <2>2 DEF ListVerified, Announce, CreationFails, Answer, Fails
  <2>3. ASSUME NEW c \in Creation, Subscribe(c) PROVE OtherTypes'
    <3>1. creation[c].number \in Number
      BY <2>3 DEF Subscribe, At, Types, CreationTypes, Creates, CreationRecord
    <3> QED
      BY <2>3, <3>1 DEF Subscribe, Meet
  <2>4. ASSUME NEW c \in Creation, CreateChannel(c) \/ Activate(c) PROVE OtherTypes'
    BY <2>4 DEF CreateChannel, Activate, Answer, Meet
  <2> QED
    BY <1>5, <2>1, <2>2, <2>3, <2>4 DEF Creating
<1>6. CASE Destroying
  <2>1. ASSUME NEW n \in Number, CallDestroy(n) \/ Release(n) \/ DeleteKeystore(n)
        PROVE  OtherTypes'
    BY <1>1, <2>1 DEF CallDestroy, Release, DeleteKeystore
  <2>2. ASSUME NEW n \in Number, Unsubscribe(n) \/ Commit(n) PROVE OtherTypes'
    BY <2>2 DEF Unsubscribe, Commit, Meet
  <2>3. ASSUME NEW n \in Number, DestroyFails(n) PROVE OtherTypes'
    BY <1>n, <2>3 DEF DestroyFails, Fails, Meet
  <2> QED
    BY <1>6, <2>1, <2>2, <2>3 DEF Destroying
<1>7. CASE Sweeping
  BY <1>1, <1>7 DEF Sweeping, ReadKeystore, FilterEntries, RemoveEntries
<1>9. CASE Texting
  <2>1. UNCHANGED others /\ \E s, x : sent' = [sent EXCEPT ![s] = x]
    BY <1>9 DEF Texting, CheckQuota, CountFinds, CountIncrements, DeleteExpired
  <2>2. sent' = [s \in Sender |-> sent'[s]]
    BY <2>1
  <2> QED
    BY <2>1, <2>2 DEF others
<1>8. CASE UNCHANGED vars
  BY <1>1, <1>8 DEF vars
<1> QED
  BY <1>3, <1>4, <1>5, <1>6, <1>7, <1>8, <1>9 DEF Next

\* Every variable of the numbers' lives keeps its type: calls past their first
\* steps are about a number, and no count of texts passes its bound.
THEOREM NumbersTypesHold == Spec => []TypeOK
<1>1. Init => OtherTypes /\ TextsInv
  <2>1. ASSUME Init PROVE OtherTypes
    BY <2>1, ConstantsAssumption DEF Init, OtherTypes
  <2>2. ASSUME Init PROVE TextsInv
    BY <2>2 DEF Init, TextsInv, TextTypes, Counted, Answering
  <2> QED
    BY <2>1, <2>2
<1>2. Inv /\ OtherTypes /\ TextsInv /\ [Next]_vars => (OtherTypes /\ TextsInv)'
  BY OtherTypesNext, TextsNext DEF Inv
<1>3. ASSUME Inv, OtherTypes, TextsInv PROVE TypeOK
  <2>1. ASSUME NEW s \in Sender PROVE sent[s] \in 0..(Quota + Cardinality(Text)) \cup {None}
    <3>1. CASE sent[s] = None
      BY <3>1
    <3>2. CASE sent[s] # None
      <4>1. sent[s] \in Nat /\ sent[s] + Cardinality(Answering(s)) < Quota + Cardinality(Text)
        BY <1>3, <3>2 DEF TextsInv, Counted
      <4>2. Cardinality(Answering(s)) \in Nat
        BY AnsweringFinite DEF Answering
      <4> QED
        BY <4>1, <4>2, Texts
    <3> QED
      BY <3>1, <3>2
  <2>2. sent = [s \in Sender |-> sent[s]]
    BY <1>3 DEF OtherTypes
  <2>3. sent \in [Sender -> 0..(Quota + Cardinality(Text)) \cup {None}]
    BY <2>1, <2>2
  <2>4. purchase \in [Slot -> PurchaseRecord] /\ registrar \in [Registrar -> RegistrarRecord]
        /\ creation \in [Creation -> CreationRecord] /\ destroy \in [Number -> DestroyRecord]
        /\ sweep \in SweepRecord
    BY <1>3 DEF Inv, Types, PurchaseTypes, RegistrarTypes, CreationTypes
  <2> QED
    BY <1>3, <2>3, <2>4 DEF Inv, Types, OtherTypes, TextsInv, TextTypes, TypeOK, PurchaseRecord,
       RegistrarRecord, CreationRecord, DestroyRecord, SweepRecord
<1> QED
  BY <1>1, <1>2, <1>3, Invariant, PTL DEF Spec

-----------------------------------------------------------------------------
(***************************************************************************)
(* Shards.  How the channels are spread: after every channel the buckets   *)
(* in the heap are even, because each goes to the least bucket and none of *)
(* those before it is smaller.                                             *)
(***************************************************************************)

(* Induction on numbers, for sets: what no least number violates, holds.   *)

LEMMA LeastNumber ==
  ASSUME NEW T \in SUBSET Nat, T # {}
  PROVE  \E x \in T : \A y \in T : x <= y
<1> DEFINE R == OpToRel(<, Nat)
<1>1. IsWellFoundedOn(R, Nat)
  BY NatLessThanWellFounded
<1>2. \A x, y \in Nat : x < y => <<x, y>> \in R
  BY DEF OpToRel
<1> HIDE DEF R
<1>3. PICK x \in T : \A y \in T : ~ (<<y, x>> \in R)
  BY <1>1, WFMin
<1>4. \A y \in T : ~ (y < x)
  BY <1>2, <1>3
<1>5. \A y \in T : x <= y
  BY <1>4
<1> QED
  BY <1>5

LEMMA CountUp ==
  ASSUME NEW N \in Nat, NEW Q, 0 \in Q, \A n \in 0..(N - 1) : n \in Q => n + 1 \in Q
  PROVE  \A n \in 0..N : n \in Q
<1> DEFINE T == {n \in 0..N : n \notin Q}
<1>1. SUFFICES ASSUME T # {} PROVE FALSE
  OBVIOUS
<1>2. T \in SUBSET Nat
  OBVIOUS
<1>3. PICK x \in T : \A y \in T : x <= y
  <2> HIDE DEF T
  <2> QED
    BY <1>1, <1>2, LeastNumber
<1>4. x \in Nat /\ x # 0 /\ x - 1 \in 0..(N - 1) /\ x - 1 \notin T /\ x \notin Q /\ x <= N
  BY <1>3
<1>5. x - 1 \in Q
  BY <1>4
<1> QED
  BY <1>4, <1>5

-----------------------------------------------------------------------------
(* The heap.                                                               *)

\* What n channels may have made of the heap.
Grown(heaps, order, size, n) ==
  IF n = 0 THEN {EmptyHeap}
  ELSE UNION {{Insert(heap, s, order[n], size[order[n]]) : s \in Least(heap)} :
                heap \in heaps[n - 1]}

\* groupEvenlyBySize puts the channels into the heap one by one.
LEMMA HeapsGrow ==
  ASSUME NEW order, NEW size, Len(order) \in Nat
  PROVE  \E heaps : /\ \A n \in 0..Len(order) : heaps[n] = Grown(heaps, order, size, n)
                    /\ GroupEvenly(order, size) = heaps[Len(order)]
<1> DEFINE N == Len(order)
           Solves(h, m) == h = [n \in 0..m |-> Grown(h, order, size, n)]
           Q == {m \in 0..N : \E h : Solves(h, m)}
<1>1. 0 \in Q
  <2> DEFINE g == [n \in 0..0 |-> {EmptyHeap}]
  <2>1. Solves(g, 0)
    BY DEF Grown
  <2>2. 0 \in 0..N
    OBVIOUS
  <2> HIDE DEF Solves
  <2> QED
    BY <2>1, <2>2
<1>2. ASSUME NEW m \in 0..(N - 1), m \in Q PROVE m + 1 \in Q
  <2>1. PICK g : Solves(g, m)
    BY <1>2
  <2> DEFINE h == [n \in 0..(m + 1) |-> IF n = m + 1 THEN Grown(g, order, size, m + 1) ELSE g[n]]
  <2>2. ASSUME NEW n \in 0..(m + 1) PROVE h[n] = Grown(h, order, size, n)
    <3>1. n # 0 => h[n - 1] = g[n - 1] /\ n - 1 \in 0..m
      BY <2>1
    <3>2. Grown(h, order, size, n) = Grown(g, order, size, n)
      <4> HIDE DEF h
      <4> QED
        BY <3>1 DEF Grown
    <3>3. n # m + 1 => h[n] = Grown(g, order, size, n)
      BY <2>1
    <3> QED
      BY <3>2, <3>3
  <2>3. Solves(h, m + 1)
    BY <2>2
  <2>4. m + 1 \in 0..N
    OBVIOUS
  <2> HIDE DEF Solves, h
  <2> QED
    BY <2>3, <2>4
<1>3. \E h : Solves(h, N)
  <2>1. N \in Q
    <3>1. N \in Nat /\ N \in 0..N
      OBVIOUS
    <3>2. \A m \in 0..(N - 1) : m \in Q => m + 1 \in Q
      BY <1>2
    <3> HIDE DEF Q, N
    <3>3. \A m \in 0..N : m \in Q
      BY <1>1, <3>1, <3>2, CountUp
    <3> QED
      BY <3>1, <3>3
  <2> QED
    BY <2>1
<1> DEFINE H == CHOOSE h : Solves(h, N)
<1>4. Solves(H, N)
  BY <1>3
<1>5. GroupEvenly(order, size) = H[N]
  BY DEF GroupEvenly, Grown
<1>6. \A n \in 0..N : H[n] = Grown(H, order, size, n)
  <2> HIDE DEF H
  <2> QED
    BY <1>4
<1> HIDE DEF H
<1> QED
  BY <1>5, <1>6

Even(heap, placed, size) ==
  /\ heap \in [Shard -> Bucket]
  /\ \A s, t \in Shard : s # t => heap[s].channels \cap heap[t].channels = {}
  /\ \A c \in Channel : c \in placed <=> \E s \in Shard : c \in heap[s].channels
  /\ \A s, t \in Shard : \A c \in heap[s].channels : heap[s].total - size[c] <= heap[t].total
  /\ \A s \in Shard : \A c \in heap[s].channels : size[c] <= heap[s].largest

Sizes == [Channel -> 0..MaxSize]

LEMMA EmptyEven == ASSUME NEW size PROVE Even(EmptyHeap, {}, size)
<1>1. EmptyBucket \in Bucket /\ EmptyBucket.channels = {}
  BY DEF EmptyBucket, Bucket
<1> QED
  BY <1>1 DEF Even, EmptyHeap

\* The least bucket may take a channel that is no larger than those before it.
LEMMA InsertEven ==
  ASSUME NEW size \in Sizes, NEW placed \in SUBSET Channel, NEW c \in Channel \ placed,
         NEW heap, Even(heap, placed, size), NEW l \in Least(heap),
         \A d \in placed : size[c] <= size[d]
  PROVE  Even(Insert(heap, l, c, size[c]), placed \cup {c}, size)
<1> DEFINE h == Insert(heap, l, c, size[c])
           new == Put(heap[l], c, size[c])
<1>n. /\ l \in Shard /\ heap \in [Shard -> Bucket] /\ \A t \in Shard : heap[l].total <= heap[t].total
      /\ \A d \in Channel : size[d] \in Nat
  BY DEF Even, Least, Sizes, ShardsAssumption
<1>b. \A s \in Shard : /\ heap[s] \in Bucket /\ heap[s].channels \subseteq Channel
                       /\ heap[s].total \in Nat /\ heap[s].largest \in Nat
  BY <1>n DEF Bucket
<1>1. /\ new.channels = heap[l].channels \cup {c} /\ new.total = heap[l].total + size[c]
      /\ new.largest = IF heap[l].channels = {} THEN size[c] ELSE heap[l].largest
      /\ new \in Bucket
  BY <1>n, <1>b DEF Put, Bucket
<1>2. h \in [Shard -> Bucket] /\ h[l] = new /\ \A s \in Shard \ {l} : h[s] = heap[s]
  BY <1>n, <1>1 DEF Insert
<1> HIDE DEF h, new
<1>3. \A s \in Shard : \A d \in heap[s].channels : d \in placed /\ size[c] <= size[d] /\ d # c
  BY <1>b DEF Even
<1>4. \A s, t \in Shard : s # t => h[s].channels \cap h[t].channels = {}
  BY <1>1, <1>2, <1>3 DEF Even
<1>5. \A d \in Channel : d \in placed \cup {c} <=> \E s \in Shard : d \in h[s].channels
  <2>1. ASSUME NEW d \in Channel, d \in placed \cup {c}
        PROVE  \E s \in Shard : d \in h[s].channels
    <3>1. CASE d = c
      BY <1>n, <1>1, <1>2, <3>1
    <3>2. CASE d \in placed
      <4>1. PICK s \in Shard : d \in heap[s].channels
        BY <3>2 DEF Even
      <4> QED
        BY <1>1, <1>2, <4>1
    <3> QED
      BY <2>1, <3>1, <3>2
  <2>2. ASSUME NEW d \in Channel, NEW s \in Shard, d \in h[s].channels
        PROVE  d \in placed \cup {c}
    BY <1>1, <1>2, <1>3, <2>2
  <2> QED
    BY <2>1, <2>2
<1>6. \A t \in Shard : heap[t].total <= h[t].total /\ h[t].total \in Nat
  BY <1>n, <1>1, <1>2, <1>b
<1>7. ASSUME NEW s \in Shard, NEW t \in Shard, NEW d \in h[s].channels
      PROVE  h[s].total - size[d] <= h[t].total
  <2>1. CASE s = l
    <3>1. d \in Channel /\ size[d] \in Nat /\ size[c] \in Nat /\ size[c] <= size[d]
      BY <1>n, <1>b, <1>1, <1>2, <1>3, <1>7, <2>1
    <3>2. h[s].total - size[d] <= heap[l].total
      BY <1>n, <1>b, <1>1, <1>2, <2>1, <3>1
    <3> QED
      BY <1>n, <1>b, <1>6, <3>1, <3>2
  <2>2. CASE s # l
    <3>1. h[s] = heap[s] /\ d \in heap[s].channels /\ d \in Channel /\ size[d] \in Nat
      BY <1>n, <1>b, <1>2, <1>7, <2>2
    <3>2. heap[s].total - size[d] <= heap[t].total
      BY <3>1 DEF Even
    <3> QED
      BY <1>b, <1>6, <3>1, <3>2
  <2> QED
    BY <2>1, <2>2
<1>8. ASSUME NEW s \in Shard, NEW d \in h[s].channels
      PROVE  size[d] <= h[s].largest
  <2>1. CASE s = l
    <3>1. CASE d = c
      <4>1. CASE heap[l].channels = {}
        BY <1>n, <1>1, <1>2, <2>1, <3>1, <4>1
      <4>2. CASE heap[l].channels # {}
        <5>1. PICK e \in heap[l].channels : TRUE
          BY <4>2
        <5>2. size[c] <= size[e] /\ size[e] <= heap[l].largest /\ e \in Channel
          BY <1>n, <1>b, <1>3, <5>1 DEF Even
        <5> QED
          BY <1>n, <1>b, <1>1, <1>2, <2>1, <3>1, <4>2, <5>2
      <4> QED
        BY <4>1, <4>2
    <3>2. CASE d # c
      <4>1. d \in heap[l].channels /\ size[d] <= heap[l].largest
        BY <1>1, <1>2, <1>n, <1>8, <2>1, <3>2 DEF Even
      <4> QED
        BY <1>1, <1>2, <2>1, <4>1
    <3> QED
      BY <3>1, <3>2
  <2>2. CASE s # l
    BY <1>2, <1>8, <2>2 DEF Even
  <2> QED
    BY <2>1, <2>2
<1> QED
  BY <1>2, <1>4, <1>5, <1>7, <1>8 DEF Even, h

Descending(order, size) ==
  /\ order \in SetToSeqs(Channel)
  /\ \A i, j \in DOMAIN order : i < j => size[order[i]] >= size[order[j]]

\* The query returns every channel once.
LEMMA OrderIsWhole ==
  ASSUME NEW order \in SetToSeqs(Channel)
  PROVE  /\ Len(order) = Cardinality(Channel) /\ Len(order) \in Nat
         /\ order \in [1..Len(order) -> Channel]
         /\ \A i, j \in 1..Len(order) : i # j => order[i] # order[j]
         /\ \A c \in Channel : \E i \in 1..Len(order) : order[i] = c
<1> DEFINE N == Cardinality(Channel)
<1>1. IsFiniteSet(Channel) /\ N \in Nat
  <2>1. IsFiniteSet(User)
    BY ShardsAssumption DEF ShardsAssumption
  <2> QED
    BY <2>1, FS_AddElement, FS_CardinalityType DEF Channel
<1>2. order \in [1..N -> Channel] /\ \A i, j \in 1..N : i # j => order[i] # order[j]
  BY DEF SetToSeqs
<1> HIDE DEF N
<1>3. Len(order) = N
  BY <1>1, <1>2
<1>4. order \in Injection(1..N, Channel)
  BY <1>2 DEF Injection, IsInjective
<1>5. Cardinality(1..N) = N
  BY <1>1, FS_Interval
<1>6. order \in Surjection(1..N, Channel)
  BY <1>1, <1>4, <1>5, FS_Injection DEF N
<1>7. \A c \in Channel : \E i \in 1..N : order[i] = c
  BY <1>6 DEF Surjection
<1> QED
  BY <1>1, <1>2, <1>3, <1>7 DEF N

\* However the heap breaks ties, what it holds in the end is even.
LEMMA GroupedEvenly ==
  ASSUME NEW size \in Sizes, NEW order, Descending(order, size),
         NEW heap \in GroupEvenly(order, size)
  PROVE  Even(heap, Channel, size)
<1> DEFINE N == Len(order)
           Placed(n) == {order[i] : i \in 1..n}
<1>1. /\ order \in SetToSeqs(Channel) /\ N \in Nat /\ order \in [1..N -> Channel]
      /\ \A i, j \in 1..N : i # j => order[i] # order[j]
      /\ \A c \in Channel : \E i \in 1..N : order[i] = c
      /\ \A i, j \in 1..N : i < j => size[order[i]] >= size[order[j]]
  BY OrderIsWhole DEF Descending
<1>2. PICK heaps : /\ \A n \in 0..N : heaps[n] = Grown(heaps, order, size, n)
                   /\ GroupEvenly(order, size) = heaps[N]
  BY <1>1, HeapsGrow
<1> DEFINE Q == {n \in 0..N : \A h \in heaps[n] : Even(h, Placed(n), size)}
<1> HIDE DEF N
<1>3. 0 \in Q
  <2>1. 0 \in 0..N /\ heaps[0] = {EmptyHeap}
    <3>1. 0 \in 0..N
      BY <1>1
    <3>2. Grown(heaps, order, size, 0) = {EmptyHeap}
      BY DEF Grown
    <3> QED
      BY <1>2, <3>1, <3>2
  <2>2. Placed(0) = {}
    OBVIOUS
  <2> QED
    BY <2>1, <2>2, EmptyEven
<1>4. ASSUME NEW n \in 0..(N - 1), n \in Q PROVE n + 1 \in Q
  <2>1. /\ n + 1 \in 0..N /\ n + 1 \in 1..N /\ n \in Nat /\ n + 1 # 0 /\ (n + 1) - 1 = n
        /\ \A i \in 1..n : i \in 1..N /\ i < n + 1 /\ i # n + 1
    BY <1>1
  <2>2. heaps[n + 1] = UNION {{Insert(h, s, order[n + 1], size[order[n + 1]]) : s \in Least(h)} :
                                h \in heaps[n]}
    BY <1>2, <2>1 DEF Grown
  <2>3. /\ Placed(n) \in SUBSET Channel /\ order[n + 1] \in Channel \ Placed(n)
        /\ \A d \in Placed(n) : size[order[n + 1]] <= size[d]
    <3>1. \A i \in 1..n : /\ order[i] \in Channel /\ order[i] # order[n + 1]
                          /\ size[order[n + 1]] <= size[order[i]]
      <4>1. \A d \in Channel : size[d] \in Nat
        BY ShardsAssumption DEF Sizes, ShardsAssumption
      <4> QED
        BY <1>1, <2>1, <4>1
    <3> QED
      BY <1>1, <2>1, <3>1
  <2>4. Placed(n + 1) = Placed(n) \cup {order[n + 1]}
    <3>1. 1..(n + 1) = 1..n \cup {n + 1}
      BY <2>1
    <3> QED
      BY <3>1
  <2> DEFINE c == order[n + 1]
             P == Placed(n)
  <2>5. ASSUME NEW h \in heaps[n], NEW s \in Least(h)
        PROVE  Even(Insert(h, s, c, size[c]), P \cup {c}, size)
    <3>1. Even(h, P, size)
      BY <1>4, <2>5
    <3> HIDE DEF c, P
    <3> QED
      BY <2>3, <2>5, <3>1, InsertEven DEF c, P
  <2>6. ASSUME NEW g \in heaps[n + 1]
        PROVE  Even(g, Placed(n + 1), size)
    <3>1. PICK h \in heaps[n] : g \in {Insert(h, s, c, size[c]) : s \in Least(h)}
      BY <2>2, <2>6
    <3>2. PICK s \in Least(h) : g = Insert(h, s, c, size[c])
      BY <3>1
    <3> HIDE DEF Placed, c
    <3> QED
      BY <2>4, <2>5, <3>2 DEF c
  <2> HIDE DEF Placed
  <2> QED
    BY <2>1, <2>6
<1>5. N \in Q
  <2>1. N \in 0..N
    BY <1>1
  <2>2. \A n \in 0..(N - 1) : n \in Q => n + 1 \in Q
    BY <1>4
  <2> HIDE DEF Q
  <2> QED
    BY <1>1, <1>3, <2>1, <2>2, CountUp
<1>6. Even(heap, Placed(N), size)
  BY <1>2, <1>5
<1>7. Placed(N) = Channel
  BY <1>1
<1> QED
  BY <1>6, <1>7

-----------------------------------------------------------------------------
(* The assignment, from the query to the last row saved.                   *)

Assigned(bs, szs, rw) ==
  /\ DOMAIN bs \subseteq Shard
  /\ \A s, t \in DOMAIN bs : s # t => bs[s].channels \cap bs[t].channels = {}
  /\ \A s, t \in DOMAIN bs :
       /\ s < t => bs[s].total <= bs[t].total
       /\ \A c \in bs[s].channels : bs[s].total - szs[c] <= bs[t].total
  /\ \A s \in DOMAIN bs : \A c \in bs[s].channels : szs[c] <= bs[s].largest
  /\ \A c \in Channel : \/ rw[c] \in Shard \ DOMAIN bs
                        \/ \E s \in DOMAIN bs : c \in bs[s].channels

AssignedInv ==
  /\ row \in [Channel -> Shard]
  /\ stage = "saving" => Assigned(buckets, sizes, row)

\* The order in which the heap is consumed gives each shard its bucket.
LEMMA ConsumedEven ==
  ASSUME NEW size, NEW heap, Even(heap, Channel, size), NEW bs \in Consumed(heap), NEW rw
  PROVE  Assigned(bs, size, rw)
<1>1. PICK p \in Bijection(Shard, Shard) :
        /\ \A s, t \in Shard : s < t => heap[p[s]].total <= heap[p[t]].total
        /\ bs = [s \in Shard |-> heap[p[s]]]
  BY DEF Consumed
<1>2. /\ p \in [Shard -> Shard]
      /\ \A s, t \in Shard : s # t => p[s] # p[t]
      /\ \A t \in Shard : \E s \in Shard : p[s] = t
  BY DEF Bijection, Injection, Surjection, IsInjective
<1>3. DOMAIN bs = Shard /\ \A s \in Shard : bs[s] = heap[p[s]] /\ p[s] \in Shard
  BY <1>1, <1>2
<1>4. \A s, t \in Shard : s # t => bs[s].channels \cap bs[t].channels = {}
  BY <1>2, <1>3 DEF Even
<1>5. \A s, t \in Shard : /\ s < t => bs[s].total <= bs[t].total
                          /\ \A c \in bs[s].channels : bs[s].total - size[c] <= bs[t].total
  BY <1>1, <1>3 DEF Even
<1>6. \A s \in Shard : \A c \in bs[s].channels : size[c] <= bs[s].largest
  BY <1>3 DEF Even
<1>7. ASSUME NEW c \in Channel PROVE \E s \in Shard : c \in bs[s].channels
  <2>1. PICK t \in Shard : c \in heap[t].channels
    BY DEF Even
  <2> QED
    BY <1>2, <1>3, <2>1
<1> QED
  BY <1>3, <1>4, <1>5, <1>6, <1>7 DEF Assigned

LEMMA GroupStep == ASSUME AssignedInv, Group PROVE AssignedInv'
<1>1. PICK order \in SetToSeqs(Channel) :
        /\ \A i, j \in DOMAIN order : i < j => sizes'[order[i]] >= sizes'[order[j]]
        /\ \E heap \in GroupEvenly(order, sizes') : buckets' \in Consumed(heap)
  BY DEF Group
<1>2. PICK size \in Sizes : size = sizes'
  BY DEF Group, Sizes
<1>3. PICK heap \in GroupEvenly(order, size) : buckets' \in Consumed(heap)
  BY <1>1, <1>2
<1>4. Even(heap, Channel, size)
  BY <1>1, <1>2, GroupedEvenly DEF Descending
<1>5. PICK bs \in Consumed(heap) : bs = buckets'
  BY <1>3
<1>6. Assigned(bs, size, row)
  BY <1>4, ConsumedEven
<1> QED
  BY <1>2, <1>5, <1>6 DEF AssignedInv, Group

LEMMA SaveBucketStep == ASSUME AssignedInv, SaveBucket PROVE AssignedInv'
<1>1. PICK s \in DOMAIN buckets :
        /\ row' = [c \in Channel |-> IF c \in buckets[s].channels THEN s ELSE row[c]]
        /\ buckets' = [t \in DOMAIN buckets \ {s} |-> buckets[t]]
        /\ IF DOMAIN buckets = {s} THEN stage' = "running" /\ sizes' = NoSizes
                                   ELSE UNCHANGED <<stage, sizes>>
  BY DEF SaveBucket
<1>2. Assigned(buckets, sizes, row) /\ s \in Shard
  BY DEF AssignedInv, SaveBucket, Assigned
<1>3. row' \in [Channel -> Shard]
  BY <1>1, <1>2 DEF AssignedInv
<1>4. SUFFICES ASSUME sizes' = sizes PROVE Assigned(buckets, sizes, row)'
  BY <1>1, <1>3 DEF AssignedInv
<1>5. DOMAIN buckets' = DOMAIN buckets \ {s} /\ \A t \in DOMAIN buckets' : buckets'[t] = buckets[t]
  BY <1>1
<1>6. ASSUME NEW c \in Channel
      PROVE  row'[c] \in Shard \ DOMAIN buckets' \/ \E t \in DOMAIN buckets' : c \in buckets'[t].channels
  BY <1>1, <1>2, <1>5 DEF Assigned
<1> QED
  BY <1>2, <1>4, <1>5, <1>6 DEF Assigned

\* Nothing else touches the rows or what is yet to be saved.
LEMMA OtherStep ==
  ASSUME AssignedInv, UNCHANGED row, stage' = "saving" => UNCHANGED <<stage, buckets, sizes>>
  PROVE  AssignedInv'
BY DEF AssignedInv, Assigned

LEMMA AssignedInvStep == AssignedInv /\ [ShardsNext]_shardVars => AssignedInv'
<1> SUFFICES ASSUME AssignedInv, [ShardsNext]_shardVars PROVE AssignedInv'
  OBVIOUS
<1>1. CASE UNCHANGED shardVars
  BY <1>1, OtherStep DEF shardVars, assignment
<1>2. CASE Start
  <2>1. CASE SubscribeAll
    BY <2>1, OtherStep DEF SubscribeAll
  <2>2. CASE StartupFails
    BY <2>2, OtherStep DEF StartupFails, StartApp
  <2> QED
    BY <1>2, <2>1, <2>2, GroupStep, SaveBucketStep DEF Start
<1>3. CASE BeginRound
  BY <1>3, OtherStep DEF BeginRound, assignment
<1>4. CASE Reboot
  BY <1>4, OtherStep DEF Reboot, StartApp
<1>5. ASSUME NEW r \in Round, EndRound(r) PROVE AssignedInv'
  BY <1>5, OtherStep DEF EndRound, assignment
<1>6. ASSUME NEW c \in User, Forget(c) PROVE AssignedInv'
  BY <1>6, OtherStep DEF Forget, assignment
<1>7. ASSUME NEW s \in Shard, Boot(s) \/ HandleAbort(s) \/ HandleSubscribes(s) \/ Connect(s)
      PROVE  AssignedInv'
  BY <1>7, OtherStep DEF Boot, HandleAbort, HandleSubscribes, Connect, Exit, assignment
<1>8. ASSUME NEW s \in Shard, Hang(s) \/ Crash(s) \/ \E c \in Channel : LoseSubscription(s, c)
      PROVE  AssignedInv'
  BY <1>8, OtherStep DEF Hang, Crash, LoseSubscription, Exit, assignment
<1>9. ASSUME NEW s \in Shard, NEW r \in Round, RestartStep(r, s) PROVE AssignedInv'
  BY <1>9, OtherStep DEF RestartStep, SendAbort, WriteRejected, Reconnect, CloseTimesOut,
                         Resubscribe, Alive, AliveTimesOut, assignment
<1> QED
  BY <1>1, <1>2, <1>3, <1>4, <1>5, <1>6, <1>7, <1>8, <1>9 DEF ShardsNext

\* Whatever the members of the channels, the number of shards and the order in
\* which the heap gives out buckets of one size, the channels are spread evenly
\* and no row is forgotten while they are saved.
THEOREM ChannelsAreSpread == ShardsSpec => []EvenlyAssigned
<1>1. ShardsInit => AssignedInv
  <2>1. 0 \in Shard
    BY ShardsAssumption DEF Shard, ShardsAssumption
  <2> QED
    BY <2>1 DEF ShardsInit, AssignedInv
<1>2. AssignedInv => EvenlyAssigned
  BY DEF AssignedInv, Assigned, EvenlyAssigned
<1> QED
  BY <1>1, <1>2, AssignedInvStep, PTL DEF ShardsSpec

-----------------------------------------------------------------------------
(* What the other steps build on: no pool is open to a process that does   *)
(* not run, so none that does not run is asked anything, and a round is     *)
(* restarting exactly while one of its restarts is.                         *)

ProcessesOK ==
  /\ pool \in [Shard -> {"connecting", "open", "dead"}]
  /\ up \subseteq Shard /\ hung \subseteq up
  /\ subs \in [Shard -> SUBSET Channel] /\ inbox \in [Shard -> SUBSET Request]
  /\ \A s \in Shard : s \notin up => subs[s] = {} /\ inbox[s] = {} /\ pool[s] # "open"

RestartTypes ==
  [Round -> [Shard -> [pc : {"idle", "abort", "await", "subscribe", "waiting"},
                       channels : SUBSET Channel]]]

RoundsOK ==
  /\ marks \in [User -> Unmarked..1]
  /\ round \in [Round -> {"idle", "probing", "unsent", "restarting"}]
  /\ restart \in RestartTypes
  /\ \A r \in Round : round[r] = "restarting" <=> (\E s \in Shard : restart[r][s].pc # "idle")

SharesOK ==
  /\ stage \in {"subscribing", "assigning", "saving", "running"}
  /\ sizes \in Sizes
  /\ DOMAIN buckets \subseteq Shard /\ \A s \in DOMAIN buckets : buckets[s] \in Bucket
  /\ faults \in 0..MaxFaults /\ early \in 0..MaxEarly

LEMMA Marks == Unmarked \in Unmarked..1 /\ 0 \in Unmarked..1 /\ 1 \in Unmarked..1
BY DEF Unmarked

LEMMA Requests ==
  /\ Abort \in Request /\ \A r \in Round : Ping(r) \in Request
  /\ \A S \in SUBSET Channel : Subscribing(S) \in SUBSET Request
BY DEF Request, Subscribing

\* A process is asked something only through an open pool, so it runs.
LEMMA WriteKeeps ==
  ASSUME ProcessesOK, NEW s \in Shard, NEW Q \in SUBSET Request, Write(s, Q),
         UNCHANGED <<pool, up, hung, subs>>
  PROVE  ProcessesOK'
<1>1. inbox' = [inbox EXCEPT ![s] = inbox[s] \cup Q] /\ s \in up
  BY DEF Write, ProcessesOK
<1>2. inbox' \in [Shard -> SUBSET Request]
  BY <1>1 DEF ProcessesOK
<1> QED
  BY <1>1, <1>2 DEF ProcessesOK

\* An exit takes what the process read and was asked, and its connections.
LEMMA ExitKeeps == ASSUME ProcessesOK, NEW s \in Shard, Exit(s) PROVE ProcessesOK'
BY DEF ProcessesOK, Exit

LEMMA StartAppKeepsProcesses == ASSUME ProcessesOK, StartApp PROVE ProcessesOK'
<1>1. inbox' \in [Shard -> SUBSET Request] /\ \A s \in Shard : inbox[s] = {} => inbox'[s] = {}
  BY DEF StartApp, ProcessesOK
<1>2. pool' \in [Shard -> {"connecting", "open", "dead"}] /\ \A s \in Shard : pool'[s] # "open"
  BY DEF StartApp, Connecting
<1> QED
  BY <1>1, <1>2 DEF StartApp, ProcessesOK

LEMMA ProcessesStep ==
  ASSUME ProcessesOK, RoundsOK, [ShardsNext]_shardVars PROVE ProcessesOK'
<1>1. CASE UNCHANGED shardVars
  BY <1>1 DEF shardVars, signalc, ProcessesOK
<1>2. CASE Start
  <2>1. CASE SubscribeAll
    <3>1. \A s \in Shard : On(s) \in SUBSET Channel
      BY DEF On
    <3>2. inbox' \in [Shard -> SUBSET Request]
      BY <2>1, <3>1, Requests DEF SubscribeAll, ProcessesOK
    <3>3. ASSUME NEW s \in Shard, s \notin up PROVE inbox'[s] = {}
      <4>1. On(s) = {} /\ inbox[s] = {}
        BY <2>1, <3>3 DEF SubscribeAll, ProcessesOK
      <4>2. Subscribing(On(s)) = {}
        BY <4>1 DEF Subscribing
      <4> QED
        BY <2>1, <4>1, <4>2 DEF SubscribeAll
    <3> QED
      BY <2>1, <3>2, <3>3 DEF SubscribeAll, ProcessesOK
  <2>2. CASE StartupFails
    BY <2>2, StartAppKeepsProcesses DEF StartupFails
  <2>3. CASE Group
    BY <2>3 DEF Group, signalc, ProcessesOK
  <2>4. CASE SaveBucket
    BY <2>4 DEF SaveBucket, signalc, ProcessesOK
  <2> QED
    BY <1>2, <2>1, <2>2, <2>3, <2>4 DEF Start
<1>3. CASE BeginRound
  BY <1>3 DEF BeginRound, signalc, ProcessesOK
<1>4. CASE Reboot
  BY <1>4, StartAppKeepsProcesses DEF Reboot
<1>5. ASSUME NEW r \in Round, EndRound(r) PROVE ProcessesOK'
  BY <1>5 DEF EndRound, signalc, ProcessesOK
<1>6. ASSUME NEW c \in User, Forget(c) PROVE ProcessesOK'
  BY <1>6 DEF Forget, signalc, ProcessesOK
<1>7. ASSUME NEW s \in Shard, Boot(s) \/ Connect(s) \/ Hang(s) PROVE ProcessesOK'
  BY <1>7 DEF Boot, Connect, Hang, signalc, ProcessesOK
<1>8. ASSUME NEW s \in Shard, HandleAbort(s) \/ Crash(s) PROVE ProcessesOK'
  BY <1>8, ExitKeeps DEF HandleAbort, Crash
<1>9. ASSUME NEW s \in Shard, HandleSubscribes(s) PROVE ProcessesOK'
  <2>1. PICK asked \in SUBSET Channel :
          /\ inbox' = [inbox EXCEPT ![s] = inbox[s] \ Subscribing(asked)]
          /\ subs' = [subs EXCEPT ![s] = subs[s] \cup asked]
    BY <1>9 DEF HandleSubscribes
  <2>2. inbox' \in [Shard -> SUBSET Request] /\ subs' \in [Shard -> SUBSET Channel]
    BY <2>1 DEF ProcessesOK
  <2> QED
    BY <1>9, <2>1, <2>2 DEF HandleSubscribes, ProcessesOK
<1>10. ASSUME NEW s \in Shard, NEW c \in Channel, LoseSubscription(s, c) PROVE ProcessesOK'
  BY <1>10 DEF LoseSubscription, ProcessesOK
<1>11. ASSUME NEW s \in Shard, NEW r \in Round, RestartStep(r, s) PROVE ProcessesOK'
  <2>1. CASE SendAbort(r, s)
    BY <2>1, Requests, WriteKeeps DEF SendAbort
  <2>2. CASE WriteRejected(r, s) \/ CloseTimesOut(r, s)
    BY <2>2 DEF WriteRejected, CloseTimesOut, signalc, ProcessesOK
  <2>3. CASE Reconnect(r, s)
    BY <2>3 DEF Reconnect, signalc, ProcessesOK
  <2>4. CASE Resubscribe(r, s)
    <3>1. restart[r][s].channels \in SUBSET Channel
      BY DEF RoundsOK, RestartTypes
    <3>2. PICK Q \in SUBSET Request : Q = Subscribing(restart[r][s].channels) \cup {Ping(r)}
      BY <3>1, Requests
    <3>3. Write(s, Q)
      BY <2>4, <3>2 DEF Resubscribe
    <3> QED
      BY <2>4, <3>3, WriteKeeps DEF Resubscribe
  <2>5. CASE Alive(r, s) \/ AliveTimesOut(r, s)
    <3>1. inbox' = [inbox EXCEPT ![s] = inbox[s] \ {Ping(r)}] /\ UNCHANGED <<pool, up, hung, subs>>
      BY <2>5 DEF Alive, AliveTimesOut
    <3> QED
      BY <3>1 DEF ProcessesOK
  <2> QED
    BY <1>11, <2>1, <2>2, <2>3, <2>4, <2>5 DEF RestartStep
<1> QED
  BY <1>1, <1>2, <1>3, <1>4, <1>5, <1>6, <1>7, <1>8, <1>9, <1>10, <1>11 DEF ShardsNext

\* A restart that goes on keeps its round restarting;
LEMMA GoesOn ==
  ASSUME RoundsOK, NEW r \in Round, NEW s \in Shard, restart[r][s].pc # "idle",
         NEW new \in [pc : {"abort", "await", "subscribe", "waiting"}, channels : SUBSET Channel],
         restart' = [restart EXCEPT ![r][s] = new], UNCHANGED <<round, marks>>
  PROVE  RoundsOK'
<1>1. restart' \in RestartTypes
  BY DEF RoundsOK, RestartTypes
<1>2. /\ restart'[r][s] = new
      /\ \A q \in Round, t \in Shard : q # r \/ t # s => restart'[q][t] = restart[q][t]
  BY DEF RoundsOK, RestartTypes
<1>3. ASSUME NEW q \in Round
      PROVE  round'[q] = "restarting" <=> (\E t \in Shard : restart'[q][t].pc # "idle")
  <2>1. CASE q = r
    BY <1>2, <2>1 DEF RoundsOK
  <2>2. CASE q # r
    BY <1>2, <2>2 DEF RoundsOK
  <2> QED
    BY <2>1, <2>2
<1> QED
  BY <1>1, <1>3 DEF RoundsOK

\* and the last that ends ends it.
LEMMA EndKeeps ==
  ASSUME RoundsOK, NEW r \in Round, NEW s \in Shard, restart[r][s].pc # "idle", End(r, s),
         UNCHANGED marks
  PROVE  RoundsOK'
<1>1. restart' \in RestartTypes
  BY DEF RoundsOK, RestartTypes, End, NoRestart
<1>2. /\ restart'[r][s].pc = "idle"
      /\ \A q \in Round, t \in Shard : q # r \/ t # s => restart'[q][t] = restart[q][t]
  BY DEF RoundsOK, RestartTypes, End, NoRestart
<1>3. round' \in [Round -> {"idle", "probing", "unsent", "restarting"}]
  BY DEF RoundsOK, End
<1>4. ASSUME NEW q \in Round
      PROVE  round'[q] = "restarting" <=> (\E t \in Shard : restart'[q][t].pc # "idle")
  <2>1. CASE q = r /\ \A t \in Shard \ {s} : restart[r][t].pc = "idle"
    BY <1>2, <2>1 DEF RoundsOK, End
  <2>2. CASE q = r /\ ~ (\A t \in Shard \ {s} : restart[r][t].pc = "idle")
    BY <1>2, <2>2 DEF RoundsOK, End
  <2>3. CASE q # r
    <3>1. round'[q] = round[q]
      BY <2>3 DEF RoundsOK, End
    <3> QED
      BY <1>2, <2>3, <3>1 DEF RoundsOK
  <2> QED
    BY <2>1, <2>2, <2>3
<1> QED
  BY <1>1, <1>3, <1>4 DEF RoundsOK

\* The restarts a round begins are those of the shards of fatal failures.
LEMMA EndRoundKeeps ==
  ASSUME RoundsOK, row \in [Channel -> Shard], NEW r \in Round, EndRound(r) PROVE RoundsOK'
<1>1. PICK failed \in SUBSET User :
        /\ marks' = Note(failed)
        /\ restart' = [restart EXCEPT ![r] =
             [s \in Shard |-> IF s \in {row[c] : c \in Fatal(failed)}
                                THEN [pc |-> "abort", channels |-> {}] ELSE NoRestart]]
        /\ round' = [round EXCEPT ![r] = IF {row[c] : c \in Fatal(failed)} = {}
                                           THEN "idle" ELSE "restarting"]
  BY DEF EndRound
<1> DEFINE hit == {row[c] : c \in Fatal(failed)}
<1>2. hit \subseteq Shard
  BY DEF Fatal, Channel
<1> HIDE DEF hit
<1>3. marks' \in [User -> Unmarked..1]
  BY <1>1, Marks DEF RoundsOK, Note, Older
<1>4. restart' \in RestartTypes /\ round' \in [Round -> {"idle", "probing", "unsent", "restarting"}]
  BY <1>1 DEF RoundsOK, RestartTypes, NoRestart
<1>5. ASSUME NEW q \in Round
      PROVE  round'[q] = "restarting" <=> (\E t \in Shard : restart'[q][t].pc # "idle")
  <2>1. CASE q = r
    <3>1. round'[r] = IF hit = {} THEN "idle" ELSE "restarting"
      BY <1>1 DEF RoundsOK, hit
    <3>2. \A t \in Shard : restart'[r][t] = IF t \in hit THEN [pc |-> "abort", channels |-> {}]
                                                         ELSE NoRestart
      BY <1>1 DEF RoundsOK, RestartTypes, hit
    <3>3. \A t \in Shard : restart'[r][t].pc # "idle" <=> t \in hit
      BY <3>2 DEF NoRestart
    <3> QED
      BY <1>2, <2>1, <3>1, <3>3
  <2>2. CASE q # r
    <3>1. round'[q] = round[q] /\ restart'[q] = restart[q]
      BY <1>1, <2>2 DEF RoundsOK, RestartTypes
    <3> QED
      BY <3>1 DEF RoundsOK
  <2> QED
    BY <2>1, <2>2
<1> QED
  BY <1>3, <1>4, <1>5 DEF RoundsOK

LEMMA StartAppKeepsRounds == ASSUME StartApp PROVE RoundsOK'
<1>1. /\ marks' = [c \in User |-> Unmarked] /\ round' = [r \in Round |-> "idle"]
      /\ restart' = [r \in Round |-> [s \in Shard |-> [pc |-> "idle", channels |-> {}]]]
  BY DEF StartApp, NoMarks, NoRounds, NoRestarts, NoRestart
<1> QED
  BY <1>1, Marks DEF RoundsOK, RestartTypes

LEMMA RoundsStep ==
  ASSUME RoundsOK, row \in [Channel -> Shard], [ShardsNext]_shardVars PROVE RoundsOK'
<1>1. CASE UNCHANGED checks
  BY <1>1 DEF checks, RoundsOK
<1>2. CASE BeginRound
  <2>1. PICK r \in Round : /\ round[r] = "idle"
                           /\ \E x \in {"unsent", "probing"} : round' = [round EXCEPT ![r] = x]
    BY <1>2 DEF BeginRound
  <2> QED
    BY <1>2, <2>1 DEF BeginRound, RoundsOK
<1>3. CASE Reboot \/ StartupFails
  BY <1>3, StartAppKeepsRounds DEF Reboot, StartupFails
<1>4. ASSUME NEW c \in User, Forget(c) PROVE RoundsOK'
  BY <1>4, Marks DEF Forget, RoundsOK
<1>5. ASSUME NEW s \in Shard, NEW r \in Round, RestartStep(r, s) PROVE RoundsOK'
  <2>t. restart[r][s] \in [pc : {"idle", "abort", "await", "subscribe", "waiting"},
                           channels : SUBSET Channel]
    BY DEF RoundsOK, RestartTypes
  <2>1. CASE SendAbort(r, s)
    <3>1. [pc |-> "await", channels |-> On(s)] \in
            [pc : {"abort", "await", "subscribe", "waiting"}, channels : SUBSET Channel]
      BY DEF On
    <3>2. PICK new \in [pc : {"abort", "await", "subscribe", "waiting"}, channels : SUBSET Channel] :
            new = [pc |-> "await", channels |-> On(s)]
      BY <3>1
    <3>3. /\ restart[r][s].pc # "idle" /\ restart' = [restart EXCEPT ![r][s] = new]
          /\ UNCHANGED <<round, marks>>
      BY <2>1, <3>2 DEF SendAbort, Step
    <3> QED
      BY <3>3, GoesOn
  <2>2. CASE WriteRejected(r, s)
    <3>1. restart[r][s].pc # "idle"
      BY <2>2 DEF WriteRejected, Step
    <3> QED
      BY <2>2, <3>1, EndKeeps DEF WriteRejected
  <2>3. CASE CloseTimesOut(r, s) \/ Alive(r, s) \/ AliveTimesOut(r, s)
    <3>1. restart[r][s].pc # "idle" /\ End(r, s) /\ UNCHANGED marks
      BY <2>3 DEF CloseTimesOut, Alive, AliveTimesOut, Step
    <3> QED
      BY <3>1, EndKeeps
  <2>4. CASE Reconnect(r, s) \/ Resubscribe(r, s)
    <3>1. PICK pc1 \in {"subscribe", "waiting"} :
            restart[r][s].pc # "idle" /\ To(r, s, pc1) /\ UNCHANGED marks
      BY <2>4 DEF Reconnect, Resubscribe, Step
    <3>2. [restart[r][s] EXCEPT !.pc = pc1] \in
            [pc : {"abort", "await", "subscribe", "waiting"}, channels : SUBSET Channel]
      BY <2>t
    <3>3. PICK new \in [pc : {"abort", "await", "subscribe", "waiting"}, channels : SUBSET Channel] :
            new = [restart[r][s] EXCEPT !.pc = pc1]
      BY <3>2
    <3>4. restart' = [restart EXCEPT ![r][s] = new] /\ UNCHANGED round
      BY <3>1, <3>3 DEF To
    <3> QED
      BY <3>1, <3>4, GoesOn
  <2> QED
    BY <1>5, <2>1, <2>2, <2>3, <2>4 DEF RestartStep
<1>6. CASE SubscribeAll \/ Group \/ SaveBucket
  BY <1>1, <1>6 DEF SubscribeAll, Group, SaveBucket
<1>7. ASSUME NEW s \in Shard,
             Boot(s) \/ HandleAbort(s) \/ HandleSubscribes(s) \/ Connect(s) \/ Hang(s) \/ Crash(s)
             \/ \E c \in Channel : LoseSubscription(s, c)
      PROVE  RoundsOK'
  BY <1>1, <1>7 DEF Boot, HandleAbort, HandleSubscribes, Connect, Hang, Crash, LoseSubscription
<1>8. CASE UNCHANGED shardVars
  BY <1>1, <1>8 DEF shardVars
<1> QED
  BY <1>2, <1>3, <1>4, <1>5, <1>6, <1>7, <1>8, EndRoundKeeps DEF ShardsNext, Start

LEMMA SharesStep == ASSUME SharesOK, [ShardsNext]_shardVars PROVE SharesOK'
<1>n. MaxFaults \in Nat /\ MaxEarly \in Nat /\ MaxSize \in Nat /\ IsFiniteSet(User)
  BY ShardsAssumption DEF ShardsAssumption
<1>0. NoSizes \in Sizes
  BY <1>n DEF NoSizes, Sizes
<1>1. CASE UNCHANGED <<stage, assignment, bounds>>
  BY <1>1 DEF assignment, bounds, SharesOK
<1>2. CASE SubscribeAll
  BY <1>2 DEF SubscribeAll, assignment, bounds, SharesOK
<1>3. CASE StartupFails \/ Reboot
  <2>1. stage' = "subscribing" /\ sizes' = NoSizes /\ buckets' = <<>>
    BY <1>3 DEF StartupFails, Reboot, StartApp
  <2>2. faults' \in 0..MaxFaults /\ early' \in 0..MaxEarly
    BY <1>n, <1>3 DEF StartupFails, Reboot, Fault, bounds, SharesOK
  <2>3. DOMAIN buckets' = {}
    BY <2>1
  <2> QED
    BY <1>0, <2>1, <2>2, <2>3 DEF SharesOK
<1>4. CASE Group
  <2>1. PICK order \in SetToSeqs(Channel) :
          /\ \A i, j \in DOMAIN order : i < j => sizes'[order[i]] >= sizes'[order[j]]
          /\ \E heap \in GroupEvenly(order, sizes') : buckets' \in Consumed(heap)
    BY <1>4 DEF Group
  <2>2. PICK size \in Sizes : size = sizes'
    BY <1>4 DEF Group, Sizes
  <2>3. PICK heap \in GroupEvenly(order, size) : buckets' \in Consumed(heap)
    BY <2>1, <2>2
  <2>4. heap \in [Shard -> Bucket]
    BY <2>1, <2>2, GroupedEvenly DEF Descending, Even
  <2>5. DOMAIN buckets' = Shard /\ \A s \in Shard : buckets'[s] \in Bucket
    <3>1. PICK p \in Bijection(Shard, Shard) : buckets' = [s \in Shard |-> heap[p[s]]]
      BY <2>3 DEF Consumed
    <3>2. p \in [Shard -> Shard]
      BY DEF Bijection, Injection
    <3> QED
      BY <2>4, <3>1, <3>2
  <2> QED
    BY <1>4, <2>2, <2>5 DEF Group, bounds, SharesOK
<1>5. CASE SaveBucket
  BY <1>0, <1>5 DEF SaveBucket, bounds, SharesOK
<1>6. CASE BeginRound
  BY <1>n, <1>6 DEF BeginRound, InTime, assignment, SharesOK
<1>7. ASSUME NEW r \in Round, EndRound(r) PROVE SharesOK'
  <2>1. PICK failed \in SUBSET User :
          /\ faults' = faults + Cardinality({c \in failed : round[r] = "probing" /\ Passes(c)})
          /\ faults' <= MaxFaults
    BY <1>7 DEF EndRound
  <2> DEFINE slow == {c \in failed : round[r] = "probing" /\ Passes(c)}
  <2>2. Cardinality(slow) \in Nat
    BY <1>n, FS_Subset, FS_CardinalityType
  <2> QED
    BY <1>n, <1>7, <2>1, <2>2 DEF EndRound, InTime, assignment, SharesOK
<1>8. ASSUME NEW c \in User, Forget(c) PROVE SharesOK'
  BY <1>1, <1>8 DEF Forget
<1>9. ASSUME NEW s \in Shard, Boot(s) \/ HandleAbort(s) \/ HandleSubscribes(s) \/ Connect(s)
      PROVE  SharesOK'
  BY <1>1, <1>9 DEF Boot, HandleAbort, HandleSubscribes, Connect
<1>10. ASSUME NEW s \in Shard, Hang(s) \/ Crash(s) \/ \E c \in Channel : LoseSubscription(s, c)
       PROVE  SharesOK'
  BY <1>n, <1>10 DEF Hang, Crash, LoseSubscription, Fault, assignment, SharesOK
<1>11. ASSUME NEW s \in Shard, NEW r \in Round, RestartStep(r, s) PROVE SharesOK'
  BY <1>1, <1>11 DEF RestartStep, SendAbort, WriteRejected, Reconnect, CloseTimesOut,
                     Resubscribe, Alive, AliveTimesOut
<1>12. CASE UNCHANGED shardVars
  BY <1>1, <1>12 DEF shardVars
<1> QED
  BY <1>2, <1>3, <1>4, <1>5, <1>6, <1>7, <1>8, <1>9, <1>10, <1>11, <1>12 DEF ShardsNext, Start

\* The variables keep their types; a process that does not run reads nothing and
\* is asked nothing, whatever crashes, hangs, times out or is restarted meanwhile
\* (restart and stopSocket write only to pools that are open); and a round that
\* restarts has a restart under way that will end it.
THEOREM ShardsTypesHold == ShardsSpec => []ShardsTypeOK
<1> DEFINE J == AssignedInv /\ ProcessesOK /\ RoundsOK /\ SharesOK
<1>1. ShardsInit => J
  <2> SUFFICES ASSUME ShardsInit PROVE J
    OBVIOUS
  <2>n. /\ 0 \in Shard /\ MaxSize \in Nat /\ MaxFaults \in Nat /\ MaxEarly \in Nat
        /\ DOMAIN (<<>>) = {}
    BY ShardsAssumption DEF Shard, ShardsAssumption
  <2>1. AssignedInv /\ SharesOK
    BY <2>n DEF ShardsInit, AssignedInv, SharesOK, NoSizes, Sizes
  <2>2. ProcessesOK
    BY DEF ShardsInit, ProcessesOK, Connecting
  <2>3. RoundsOK
    BY Marks DEF ShardsInit, RoundsOK, RestartTypes, NoMarks, NoRounds, NoRestarts, NoRestart
  <2> QED
    BY <2>1, <2>2, <2>3
<1>2. J /\ [ShardsNext]_shardVars => J'
  BY AssignedInvStep, ProcessesStep, RoundsStep, SharesStep DEF AssignedInv
<1>3. J => ShardsTypeOK
  <2>1. J => \A r \in Round :
               (round[r] = "restarting") = (\E s \in Shard : restart[r][s].pc # "idle")
    BY DEF RoundsOK
  <2> QED
    BY <2>1 DEF AssignedInv, ProcessesOK, RoundsOK, SharesOK, RestartTypes, Sizes, ShardsTypeOK
<1> QED
  BY <1>1, <1>2, <1>3, PTL DEF ShardsSpec

=============================================================================
