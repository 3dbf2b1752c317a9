----------------------- MODULE SignalCallbacksProofs -----------------------
(***************************************************************************)
(* What TLAPS proves of SignalCallbacks, for any numbers and requests:     *)
(* its type invariant; that every awaited answer finds the callback that   *)
(* waits for it, and every callback is deleted in the end; that messages   *)
(* held back for a new safety number are sent after it is trusted; and     *)
(* that the callbacks implement Promises.  The invariant is Books: what is *)
(* known of each request, from the time it is made.                        *)
(***************************************************************************)
EXTENDS SignalCallbacks, TLAPS

USE DEF Request, NoRequest, Id, AllKinds, Awaited

-----------------------------------------------------------------------------
(* The books: what is known of every request, made or not. *)

\* A request not made yet has left no trace.
Untouched(r) ==
  /\ kind[r] = "NONE" /\ number[r] = NoPhone /\ state[r] = "none"
  /\ trustedBy[r] = NoRequest
  /\ r \notin timers /\ r \notin writing /\ r \notin wire /\ r \notin verifying
  /\ r \notin recovering /\ r \notin followUp
  /\ \A a \in Answer : <<r, a>> \notin inbox

Fresh == \A r \in Request : r > issued => Untouched(r)

\* A send is never awaited; the other requests are never "written".
WellMade(r) ==
  /\ kind[r] \in AllKinds /\ number[r] \in Phone
  /\ kind[r] = "SEND" => state[r] \in {"writing", "written", "rejected"}
  /\ kind[r] # "SEND" => state[r] \in {"writing", "pending", "resolved", "rejected"}

Made == \A r \in Request : r <= issued => WellMade(r)

\* Answers say what signald did.
Honest(r) ==
  /\ <<r, "ok">> \in inbox => r \in done /\ kind[r] # "VERIFY"
  /\ <<r, "success">> \in inbox => kind[r] = "VERIFY" /\ number[r] \in done
  /\ <<r, "error">> \in inbox => kind[r] = "VERIFY"
  /\ r \in verifying => kind[r] = "VERIFY"
  /\ r \in followUp => kind[r] = "TRUST"

Truthful == \A r \in Request : Honest(r)

\* A callback is registered under its own id and has a timer.
Expires(i) ==
  registry[i] # NoRequest => registry[i] \in timers /\ Key(registry[i]) = i

Books == TypeOK /\ Fresh /\ Made /\ Truthful /\ EntriesExpire

\* The books are in order at the start.
LEMMA BooksInit == Init => Books
  BY BoundAssumption
     DEF Init, Books, TypeOK, Fresh, Untouched, Made, Truthful, Honest, EntriesExpire,
         Answer

\* Whoever left a trace was made.
LEMMA Known ==
  ASSUME Books, NEW r \in Request,
         \/ state[r] # "none"
         \/ r \in writing \cup wire \cup verifying \cup recovering \cup followUp
         \/ r \in timers \/ \E a \in Answer : <<r, a>> \in inbox
  PROVE  r <= issued /\ kind[r] \in AllKinds /\ number[r] \in Phone /\ Key(r) \in Id
  <1>1. ~(r > issued)
    BY DEF Books, Fresh, Untouched
  <1>2. issued \in Nat /\ r \in Nat
    BY BoundAssumption DEF Books, TypeOK
  <1>3. r <= issued
    BY <1>1, <1>2
  <1>4. kind[r] \in AllKinds /\ number[r] \in Phone
    BY <1>3 DEF Books, Made, WellMade
  <1> QED
    BY <1>3, <1>4 DEF Key, IdOf

\* What it means to make request n, of kind k and about number p.
Makes(n, k, p) ==
  /\ n = issued + 1 /\ n <= MaxRequests /\ issued' = n
  /\ p \in Phone /\ IdOf(k, p, n) \in Id
  /\ kind' = [kind EXCEPT ![n] = k]
  /\ number' = [number EXCEPT ![n] = p]
  /\ writing' = writing \cup {n}
  /\ k \notin {"HEALTHCHECK", "VERIFY"} =>
       /\ state' = [state EXCEPT ![n] = "writing"]
       /\ registry' = registry /\ timers' = timers
  /\ k \in {"HEALTHCHECK", "VERIFY"} =>
       /\ state' = [state EXCEPT ![n] = "pending"]
       /\ registry' = [registry EXCEPT ![IdOf(k, p, n)] = n]
       /\ timers' = timers \cup {n}

\* Every action that makes a request does just that.
LEMMA Making ==
  ASSUME Books, NEW k \in AllKinds, NEW p, Make(k, p),
         p \in Phone \/ \E r \in recovering \cup followUp : p = number[r]
  PROVE  \E n \in Request : Makes(n, k, p)
  <1>1. p \in Phone
    BY Known DEF Books, TypeOK
  <1>2. issued + 1 \in Request /\ issued + 1 <= MaxRequests
    BY BoundAssumption DEF Books, TypeOK, Make
  <1>3. Makes(issued + 1, k, p)
    BY <1>1, <1>2 DEF Make, Register, IdOf, Makes, callbacks
  <1> QED
    BY <1>2, <1>3

\* The part of TypeOK that concerns requests and their callbacks.
RequestsTypeOK ==
  /\ issued \in 0..MaxRequests
  /\ kind \in [Request -> AllKinds \cup {"NONE"}]
  /\ number \in [Request -> Phone \cup {NoPhone}]
  /\ state \in [Request -> {"none", "writing", "pending", "written", "resolved",
                           "rejected"}]
  /\ registry \in [Id -> Request \cup {NoRequest}]
  /\ timers \subseteq Request
  /\ writing \subseteq Request

\* A new request keeps the types of requests and callbacks.
LEMMA MadeType ==
  ASSUME TypeOK, NEW k \in AllKinds, NEW p, NEW n \in Request, Makes(n, k, p)
  PROVE  RequestsTypeOK'
  <1>1. issued' \in 0..MaxRequests
    BY DEF TypeOK, Makes
  <1> HIDE DEF Request, Id, AllKinds
  <1>2. /\ kind' \in [Request -> AllKinds \cup {"NONE"}]
        /\ number' \in [Request -> Phone \cup {NoPhone}]
        /\ writing' \subseteq Request
    BY DEF TypeOK, Makes
  <1>3. /\ state' \in [Request -> {"none", "writing", "pending", "written", "resolved",
                                  "rejected"}]
        /\ registry' \in [Id -> Request \cup {NoRequest}]
        /\ timers' \subseteq Request
    <2>1. CASE k \in {"HEALTHCHECK", "VERIFY"}
      <3>1. state' = [state EXCEPT ![n] = "pending"] /\ timers' = timers \cup {n}
        BY <2>1 DEF Makes
      <3>2. registry' = [registry EXCEPT ![IdOf(k, p, n)] = n]
        BY <2>1 DEF Makes
      <3>3. state' \in [Request -> {"none", "writing", "pending", "written", "resolved",
                                    "rejected"}]
        BY <3>1 DEF TypeOK
      <3>4. registry' \in [Id -> Request \cup {NoRequest}]
        BY <3>2 DEF TypeOK
      <3> QED
        BY <3>1, <3>3, <3>4 DEF TypeOK
    <2>2. CASE k \notin {"HEALTHCHECK", "VERIFY"}
      BY <2>2 DEF TypeOK, Makes
    <2> QED
      BY <2>1, <2>2
  <1> QED
    BY <1>1, <1>2, <1>3 DEF RequestsTypeOK

\* The answer to r finds the callback of q.
Finds(r, q) ==
  /\ r <= issued /\ q <= issued
  /\ registry[Key(r)] = q
  /\ Key(q) = Key(r) /\ Key(r) \in Id
  /\ kind[r] = "VERIFY" <=> kind[q] = "VERIFY"
  /\ kind[r] = "VERIFY" => number[q] = number[r]
  /\ kind[r] # "VERIFY" => q = r

\* An answer that finds a callback finds one that was made for its id.
LEMMA Callback ==
  ASSUME Books, NEW r \in Request, registry[Key(r)] # NoRequest,
         \E a \in Answer : <<r, a>> \in inbox
  PROVE  \E q \in Request : Finds(r, q)
  <1>1. r <= issued /\ Key(r) \in Id
    BY Known
  <1>3. PICK q \in Request : registry[Key(r)] = q
    BY <1>1 DEF Books, TypeOK
  <1>4. Key(q) = Key(r) /\ q \in timers
    BY <1>1, <1>3, BoundAssumption DEF Books, EntriesExpire
  <1>5. q <= issued /\ kind[q] \in AllKinds /\ number[q] \in Phone
    BY <1>4, Known
  <1>2. kind[r] \in AllKinds /\ number[r] \in Phone
    BY Known
  <1>6. Finds(r, q)
    BY <1>1, <1>2, <1>3, <1>4, <1>5, PhoneAssumption DEF Finds, Key, IdOf
  <1> QED
    BY <1>6

\* Every step keeps the types.
LEMMA TypeNext == Books /\ [Next]_vars => TypeOK'
  <1> SUFFICES ASSUME Books, [Next]_vars PROVE TypeOK'
    OBVIOUS
  <1> USE BoundAssumption, PhoneAssumption
         DEF Books, TypeOK, Answer, requests, callbacks, signald, safetyNumbers
  <1>1. ASSUME NEW k \in AllKinds, NEW p \in Phone, Issue(k, p) PROVE TypeOK'
    <2>1. PICK n \in Request : Makes(n, k, p)
      BY <1>1, Making DEF Issue
    <2>2. RequestsTypeOK'
      BY <2>1, MadeType DEF Books
    <2> HIDE DEF Request, Id, AllKinds
    <2> QED
      BY <1>1, <2>1, <2>2
         DEF Issue, Books, TypeOK, RequestsTypeOK, Makes, signald, safetyNumbers
  <1>2. ASSUME NEW p \in Phone, TrustAndNotify(p) PROVE TypeOK'
    <2>1. PICK n \in Request : Makes(n, "TRUST", p)
      BY <1>2, Making DEF TrustAndNotify
    <2>2. RequestsTypeOK'
      BY <2>1, MadeType DEF Books
    <2> HIDE DEF Request, Id, AllKinds
    <2> QED
      BY <1>2, <2>1, <2>2
         DEF TrustAndNotify, Books, TypeOK, RequestsTypeOK, Makes, signald,
             safetyNumbers
  <1>3. ASSUME NEW r \in Request, WriteSucceeds(r) PROVE TypeOK'
    <2>1. kind[r] \in AllKinds /\ IdOf(kind[r], number[r], r) \in Id
      BY <1>3, Known DEF WriteSucceeds, Key
    <2> HIDE DEF Request, Id, AllKinds
    <2>2. CASE state[r] = "writing"
      BY <1>3, <2>1, <2>2 DEF WriteSucceeds, Register, Books, TypeOK, safetyNumbers
    <2>3. CASE state[r] # "writing"
      BY <1>3, <2>3 DEF WriteSucceeds, Books, TypeOK, safetyNumbers, callbacks
    <2> QED
      BY <2>2, <2>3
  <1>4. ASSUME NEW r \in Request, WriteFails(r) PROVE TypeOK'
    BY <1>4 DEF WriteFails
  <1>5. ASSUME NEW r \in Request, SignaldAnswers(r) PROVE TypeOK'
    BY <1>5 DEF SignaldAnswers
  <1>6. ASSUME NEW r \in Request, ReceiveSms(r) PROVE TypeOK'
    BY <1>6 DEF ReceiveSms
  <1>7. ASSUME NEW r \in Request, SignaldVerifies(r) PROVE TypeOK'
    <2>1. number[r] \in Phone
      BY <1>7, Known DEF SignaldVerifies
    <2> HIDE DEF Request, AllKinds
    <2>2. done' \subseteq Id /\ inbox' \subseteq Request \X Answer
      <3>1. CASE done' = done \cup {number[r]} /\ inbox' = inbox \cup {<<r, "success">>}
        BY <2>1, <3>1 DEF Books, TypeOK, Answer
      <3>2. CASE inbox' = inbox \cup {<<r, "error">>} /\ UNCHANGED done
        BY <3>2 DEF Books, TypeOK, Answer
      <3> QED
        BY <1>7, <3>1, <3>2 DEF SignaldVerifies
    <2> HIDE DEF Id
    <2> QED
      BY <1>7, <2>2
         DEF SignaldVerifies, Books, TypeOK, requests, callbacks, safetyNumbers
  <1>8. ASSUME NEW r \in Request, NEW a \in Answer, HandleNothing(r, a) PROVE TypeOK'
    BY <1>8 DEF HandleNothing, Receive
  <1>9. ASSUME NEW r \in Request, HandleAnswer(r) PROVE TypeOK'
    <2>1. PICK q \in Request : Finds(r, q)
      BY <1>9, Callback DEF HandleAnswer, Receive
    <2> QED
      BY <1>9, <2>1 DEF HandleAnswer, Receive, Settle, Finds
  <1>10. ASSUME NEW r \in Request, HandleHealthcheck(r) PROVE TypeOK'
    <2>1. PICK q \in Request : Finds(r, q)
      BY <1>10, Callback DEF HandleHealthcheck, Receive
    <2> QED
      BY <1>10, <2>1 DEF HandleHealthcheck, Receive, Delete, Settle, Finds
  <1>11. ASSUME NEW r \in Request, HandleVerification(r) PROVE TypeOK'
    <2>1. PICK q \in Request : Finds(r, q)
      BY <1>11, Callback DEF HandleVerification, Receive, Answer
    <2>2. inbox' \subseteq inbox /\ \E o \in {"resolved", "rejected"} : Settle(q, o)
      BY <1>11, <2>1 DEF HandleVerification, Receive, Finds
    <2>3. UNCHANGED <<issued, kind, number, registry, timers, writing, wire, verifying, done,
                      recovering, followUp, trustedBy>>
      BY <1>11 DEF HandleVerification, Receive
    <2> HIDE DEF Request, Id, AllKinds
    <2>4. state' \in [Request -> {"none", "writing", "pending", "written", "resolved", "rejected"}]
      BY <2>2 DEF Settle, Books, TypeOK
    <2>5. TypeOK /\ inbox' \subseteq inbox
      BY <2>2 DEF Books
    <2>6. inbox' \subseteq Request \X Answer
      BY ONLY <2>5 DEF TypeOK
    <2>7. /\ issued' \in 0..MaxRequests /\ timers' \subseteq Request /\ writing' \subseteq Request
          /\ wire' \subseteq Request /\ verifying' \subseteq Request /\ done' \subseteq Id
          /\ recovering' \subseteq Request /\ followUp' \subseteq Request
      BY ONLY <2>3, <2>5 DEF TypeOK
    <2>8. /\ kind' \in [Request -> AllKinds \cup {"NONE"}]
          /\ number' \in [Request -> Phone \cup {NoPhone}]
          /\ registry' \in [Id -> Request \cup {NoRequest}]
          /\ trustedBy' \in [Request -> Request \cup {NoRequest}]
      BY ONLY <2>3, <2>5 DEF TypeOK
    <2> QED
      BY ONLY <2>4, <2>6, <2>7, <2>8 DEF TypeOK
  <1>12. ASSUME NEW r \in Request, HandleSendResults(r) PROVE TypeOK'
    <2>1. PICK q \in Request : Finds(r, q)
      BY <1>12, Callback DEF HandleSendResults, Receive
    <2>2. /\ UNCHANGED <<issued, kind, number, state, timers, writing, wire, verifying, done, followUp,
                         trustedBy>>
          /\ inbox' \subseteq inbox
      BY <1>12 DEF HandleSendResults, Receive
    <2>3. q \in Request /\ (recovering' = recovering \/ recovering' = recovering \cup {q})
      BY <1>12, <2>1 DEF HandleSendResults, Finds
    <2>4. registry' = [registry EXCEPT ![Key(r)] = NoRequest]
      BY <1>12 DEF HandleSendResults, Delete
    <2> HIDE DEF Request, Id, AllKinds
    <2>5. registry' \in [Id -> Request \cup {NoRequest}] /\ recovering' \subseteq Request
      BY <2>3, <2>4 DEF Books, TypeOK
    <2> QED
      BY <2>2, <2>5 DEF Books, TypeOK
  <1>13. ASSUME NEW r \in Request, Deauthorize(r) PROVE TypeOK'
    BY <1>13 DEF Deauthorize
  <1>14. ASSUME NEW r \in Request, TrustAndResend(r) PROVE TypeOK'
    <2>1. PICK n \in Request : Makes(n, "TRUST", number[r])
      BY <1>14, Making DEF TrustAndResend
    <2>2. RequestsTypeOK'
      BY <2>1, MadeType DEF Books
    <2> HIDE DEF Request, Id, AllKinds
    <2> QED
      BY <1>14, <2>1, <2>2
         DEF TrustAndResend, Books, TypeOK, RequestsTypeOK, Makes, signald,
             safetyNumbers
  <1>15. ASSUME NEW r \in Request, Resend(r) PROVE TypeOK'
    <2>1. PICK n \in Request : Makes(n, "SEND", number[r])
      BY <1>15, Making DEF Resend
    <2>2. RequestsTypeOK'
      BY <2>1, MadeType DEF Books
    <2> HIDE DEF Request, Id, AllKinds
    <2> QED
      BY <1>15, <2>1, <2>2
         DEF Resend, Books, TypeOK, RequestsTypeOK, Makes, signald, safetyNumbers
  <1>16. ASSUME NEW r \in Request, TimeOut(r) PROVE TypeOK'
    BY <1>16 DEF TimeOut, Fires, Settle
  <1>17. CASE UNCHANGED vars
    BY <1>17 DEF vars
  <1> HIDE DEF Books, TypeOK, Answer, requests, callbacks, signald, safetyNumbers
  <1> QED
    BY <1>1, <1>2, <1>3, <1>4, <1>5, <1>6, <1>7, <1>8,
       <1>9, <1>10, <1>11, <1>12, <1>13, <1>14, <1>15, <1>16, <1>17 DEF Next, Step, Handle

\* Every step leaves the requests to come alone.
LEMMA FreshNext == Books /\ [Next]_vars => Fresh'
  <1> SUFFICES ASSUME Books, [Next]_vars, NEW q \in Request, q > issued'
               PROVE  Untouched(q)'
    BY DEF Fresh
  <1>1. ASSUME NEW k \in AllKinds, NEW p \in Phone, Issue(k, p) PROVE Untouched(q)'
    <2>1. PICK n \in Request : Makes(n, k, p)
      BY <1>1, Making DEF Issue
    <2>2. q # n /\ q > issued
      BY <2>1, BoundAssumption DEF Makes, Books, TypeOK
    <2> HIDE DEF Request, Id, AllKinds
    <2>3. Untouched(q)
      BY <2>2 DEF Books, Fresh
    <2> QED
      BY <1>1, <2>1, <2>2, <2>3
         DEF Issue, Makes, Untouched, Books, TypeOK, signald, safetyNumbers
  <1>2. ASSUME NEW p \in Phone, TrustAndNotify(p) PROVE Untouched(q)'
    <2>1. PICK n \in Request : Makes(n, "TRUST", p)
      BY <1>2, Making DEF TrustAndNotify
    <2>2. q # n /\ q > issued
      BY <2>1, BoundAssumption DEF Makes, Books, TypeOK
    <2> HIDE DEF Request, Id, AllKinds
    <2>3. Untouched(q)
      BY <2>2 DEF Books, Fresh
    <2> QED
      BY <1>2, <2>1, <2>2, <2>3
         DEF TrustAndNotify, Makes, Untouched, Books, TypeOK, signald, safetyNumbers
  <1>3. ASSUME NEW r \in Request, WriteSucceeds(r) PROVE Untouched(q)'
    <2>1. q > issued
      BY <1>3 DEF WriteSucceeds, Register, IdOf, requests, callbacks
    <2>2. q # r
      BY <1>3, <2>1 DEF Books, Fresh, Untouched, WriteSucceeds, Register, IdOf, Answer
    <2> HIDE DEF Request, Id, AllKinds
    <2>3. Untouched(q)
      BY <2>1 DEF Books, Fresh
    <2> QED
      BY <1>3, <2>2, <2>3
         DEF WriteSucceeds, Register, IdOf, Untouched, Books, TypeOK,
             requests, callbacks, signald, safetyNumbers
  <1>4. ASSUME NEW r \in Request, WriteFails(r) PROVE Untouched(q)'
    <2>1. q > issued
      BY <1>4 DEF WriteFails, requests, callbacks
    <2>2. q # r
      BY <1>4, <2>1 DEF Books, Fresh, Untouched, WriteFails, Answer
    <2> HIDE DEF Request, Id, AllKinds
    <2>3. Untouched(q)
      BY <2>1 DEF Books, Fresh
    <2> QED
      BY <1>4, <2>2, <2>3
         DEF WriteFails, Untouched, Books, TypeOK,
             requests, callbacks, signald, safetyNumbers
  <1>5. ASSUME NEW r \in Request, SignaldAnswers(r) PROVE Untouched(q)'
    <2>1. q > issued
      BY <1>5 DEF SignaldAnswers, requests, callbacks
    <2>2. q # r
      BY <1>5, <2>1 DEF Books, Fresh, Untouched, SignaldAnswers, Answer
    <2> HIDE DEF Request, Id, AllKinds
    <2>3. Untouched(q)
      BY <2>1 DEF Books, Fresh
    <2> QED
      BY <1>5, <2>2, <2>3
         DEF SignaldAnswers, Untouched, Books, TypeOK,
             requests, callbacks, signald, safetyNumbers
  <1>6. ASSUME NEW r \in Request, ReceiveSms(r) PROVE Untouched(q)'
    <2>1. q > issued
      BY <1>6 DEF ReceiveSms, requests, callbacks
    <2>2. q # r
      BY <1>6, <2>1 DEF Books, Fresh, Untouched, ReceiveSms, Answer
    <2> HIDE DEF Request, Id, AllKinds
    <2>3. Untouched(q)
      BY <2>1 DEF Books, Fresh
    <2> QED
      BY <1>6, <2>2, <2>3
         DEF ReceiveSms, Untouched, Books, TypeOK,
             requests, callbacks, signald, safetyNumbers
  <1>7. ASSUME NEW r \in Request, SignaldVerifies(r) PROVE Untouched(q)'
    <2>1. q > issued
      BY <1>7 DEF SignaldVerifies, requests, callbacks
    <2>2. q # r
      BY <1>7, <2>1 DEF Books, Fresh, Untouched, SignaldVerifies, Answer
    <2> HIDE DEF Request, Id, AllKinds
    <2>3. Untouched(q)
      BY <2>1 DEF Books, Fresh
    <2> QED
      BY <1>7, <2>2, <2>3
         DEF SignaldVerifies, Untouched, Books, TypeOK,
             requests, callbacks, signald, safetyNumbers
  <1>8. ASSUME NEW r \in Request, NEW a \in Answer, HandleNothing(r, a)
        PROVE  Untouched(q)'
    <2>1. q > issued
      BY <1>8 DEF HandleNothing, Receive, requests, callbacks
    <2>2. q # r
      BY <1>8, <2>1 DEF Books, Fresh, Untouched, HandleNothing, Receive, Answer
    <2> HIDE DEF Request, Id, AllKinds
    <2>3. Untouched(q)
      BY <2>1 DEF Books, Fresh
    <2> QED
      BY <1>8, <2>2, <2>3
         DEF HandleNothing, Receive, Untouched, Books, TypeOK,
             requests, callbacks, signald, safetyNumbers
  <1>9. ASSUME NEW r \in Request, HandleAnswer(r) PROVE Untouched(q)'
    <2>1. PICK c \in Request : Finds(r, c)
      BY <1>9, Callback DEF HandleAnswer, Receive, Answer
    <2>2. q # c /\ q > issued
      BY <1>9, <2>1, BoundAssumption DEF HandleAnswer, Receive, Finds, Books, TypeOK
    <2> HIDE DEF Request, Id, AllKinds
    <2>3. Untouched(q)
      BY <2>2 DEF Books, Fresh
    <2> QED
      BY <1>9, <2>1, <2>2, <2>3
         DEF HandleAnswer, Receive, Settle, Finds, Untouched, Books, TypeOK
  <1>10. ASSUME NEW r \in Request, HandleHealthcheck(r) PROVE Untouched(q)'
    <2>1. PICK c \in Request : Finds(r, c)
      BY <1>10, Callback DEF HandleHealthcheck, Receive, Answer
    <2>2. q # c /\ q > issued
      BY <1>10, <2>1, BoundAssumption
         DEF HandleHealthcheck, Receive, Finds, Books, TypeOK
    <2> HIDE DEF Request, Id, AllKinds
    <2>3. Untouched(q)
      BY <2>2 DEF Books, Fresh
    <2> QED
      BY <1>10, <2>1, <2>2, <2>3
         DEF HandleHealthcheck, Receive, Delete, Settle, Finds, Untouched, Books,
             TypeOK
  <1>11. ASSUME NEW r \in Request, HandleVerification(r) PROVE Untouched(q)'
    <2>1. PICK c \in Request : Finds(r, c)
      BY <1>11, Callback DEF HandleVerification, Receive, Answer
    <2>2. q # c /\ q > issued
      BY <1>11, <2>1, BoundAssumption
         DEF HandleVerification, Receive, Finds, Books, TypeOK
    <2> HIDE DEF Request, Id, AllKinds
    <2>3. Untouched(q)
      BY <2>2 DEF Books, Fresh
    <2> QED
      BY <1>11, <2>1, <2>2, <2>3
         DEF HandleVerification, Receive, Settle, Finds, Untouched, Books, TypeOK
  <1>12. ASSUME NEW r \in Request, HandleSendResults(r) PROVE Untouched(q)'
    <2>1. PICK c \in Request : Finds(r, c)
      BY <1>12, Callback DEF HandleSendResults, Receive, Answer
    <2>2. q # c /\ q > issued
      BY <1>12, <2>1, BoundAssumption
         DEF HandleSendResults, Receive, Finds, Books, TypeOK
    <2> HIDE DEF Request, Id, AllKinds
    <2>3. Untouched(q)
      BY <2>2 DEF Books, Fresh
    <2> QED
      BY <1>12, <2>1, <2>2, <2>3
         DEF HandleSendResults, Receive, Delete, Finds, Untouched
  <1>13. ASSUME NEW r \in Request, Deauthorize(r) PROVE Untouched(q)'
    <2>1. q > issued
      BY <1>13 DEF Deauthorize, requests, callbacks
    <2>2. q # r
      BY <1>13, <2>1 DEF Books, Fresh, Untouched, Deauthorize, Answer
    <2> HIDE DEF Request, Id, AllKinds
    <2>3. Untouched(q)
      BY <2>1 DEF Books, Fresh
    <2> QED
      BY <1>13, <2>2, <2>3
         DEF Deauthorize, Untouched, Books, TypeOK,
             requests, callbacks, signald, safetyNumbers
  <1>14. ASSUME NEW r \in Request, TrustAndResend(r) PROVE Untouched(q)'
    <2>1. PICK n \in Request : Makes(n, "TRUST", number[r])
      BY <1>14, Making DEF TrustAndResend
    <2>2. q # n /\ q > issued
      BY <2>1, BoundAssumption DEF Makes, Books, TypeOK
    <2> HIDE DEF Request, Id, AllKinds
    <2>3. Untouched(q)
      BY <2>2 DEF Books, Fresh
    <2> QED
      BY <1>14, <2>1, <2>2, <2>3
         DEF TrustAndResend, Makes, Untouched, Books, TypeOK, signald, safetyNumbers
  <1>15. ASSUME NEW r \in Request, Resend(r) PROVE Untouched(q)'
    <2>1. PICK n \in Request : Makes(n, "SEND", number[r])
      BY <1>15, Making DEF Resend
    <2>2. q # n /\ q > issued
      BY <2>1, BoundAssumption DEF Makes, Books, TypeOK
    <2> HIDE DEF Request, Id, AllKinds
    <2>3. Untouched(q)
      BY <2>2 DEF Books, Fresh
    <2> QED
      BY <1>15, <2>1, <2>2, <2>3
         DEF Resend, Makes, Untouched, Books, TypeOK, signald, safetyNumbers
  <1>16. ASSUME NEW r \in Request, TimeOut(r) PROVE Untouched(q)'
    <2>1. q > issued
      BY <1>16 DEF TimeOut, Fires, Settle, requests, callbacks
    <2>2. q # r
      BY <1>16, <2>1 DEF Books, Fresh, Untouched, TimeOut, Fires, Settle, Answer
    <2> HIDE DEF Request, Id, AllKinds
    <2>3. Untouched(q)
      BY <2>1 DEF Books, Fresh
    <2> QED
      BY <1>16, <2>2, <2>3
         DEF TimeOut, Fires, Settle, Untouched, Books, TypeOK,
             requests, callbacks, signald, safetyNumbers
  <1>17. CASE UNCHANGED vars
    <2>1. Untouched(q)
      BY <1>17 DEF vars, requests, Books, Fresh
    <2> QED
      BY <1>17, <2>1
         DEF vars, Untouched, requests, callbacks, signald, safetyNumbers
  <1> QED
    BY <1>1, <1>2, <1>3, <1>4, <1>5, <1>6, <1>7, <1>8,
       <1>9, <1>10, <1>11, <1>12, <1>13, <1>14, <1>15, <1>16, <1>17 DEF Next, Step, Handle

\* Every step keeps the requests well made.
LEMMA MadeNext == Books /\ [Next]_vars => Made'
  <1> SUFFICES ASSUME Books, [Next]_vars, NEW q \in Request, q <= issued'
               PROVE  WellMade(q)'
    BY DEF Made
  <1>1. ASSUME NEW k \in AllKinds, NEW p \in Phone, Issue(k, p) PROVE WellMade(q)'
    <2>1. PICK n \in Request : Makes(n, k, p)
      BY <1>1, Making DEF Issue
    <2>2. CASE q = n
      <3>1. k \in AllKinds /\ p \in Phone
        BY <1>1, <2>1 DEF Makes
      <3> HIDE DEF Request, Id, AllKinds
      <3>2. kind'[n] = k /\ number'[n] = p
        BY <2>1 DEF Makes, Books, TypeOK
      <3>3. state'[n] = IF k \in {"HEALTHCHECK", "VERIFY"} THEN "pending" ELSE "writing"
        BY <2>1 DEF Makes, Books, TypeOK
      <3> QED
        BY <2>2, <3>1, <3>2, <3>3 DEF WellMade
    <2>3. CASE q # n
      <3>1. q <= issued
        BY <2>1, <2>3, BoundAssumption DEF Makes, Books, TypeOK
      <3>2. WellMade(q)
        BY <3>1 DEF Books, Made
      <3> HIDE DEF Request, Id, AllKinds
      <3> QED
        BY <2>1, <2>3, <3>2 DEF Makes, WellMade, Books, TypeOK
    <2> QED
      BY <2>2, <2>3
  <1>2. ASSUME NEW p \in Phone, TrustAndNotify(p) PROVE WellMade(q)'
    <2>1. PICK n \in Request : Makes(n, "TRUST", p)
      BY <1>2, Making DEF TrustAndNotify
    <2>2. CASE q = n
      <3>1. "TRUST" \in AllKinds /\ p \in Phone
        BY <1>2, <2>1 DEF Makes
      <3> HIDE DEF Request, Id, AllKinds
      <3>2. kind'[n] = "TRUST" /\ number'[n] = p
        BY <2>1 DEF Makes, Books, TypeOK
      <3>3. state'[n] = "writing"
        BY <2>1 DEF Makes, Books, TypeOK
      <3> QED
        BY <2>2, <3>1, <3>2, <3>3 DEF WellMade
    <2>3. CASE q # n
      <3>1. q <= issued
        BY <2>1, <2>3, BoundAssumption DEF Makes, Books, TypeOK
      <3>2. WellMade(q)
        BY <3>1 DEF Books, Made
      <3> HIDE DEF Request, Id, AllKinds
      <3> QED
        BY <2>1, <2>3, <3>2 DEF Makes, WellMade, Books, TypeOK
    <2> QED
      BY <2>2, <2>3
  <1>3. ASSUME NEW r \in Request, WriteSucceeds(r) PROVE WellMade(q)'
    <2>1. q <= issued
      BY <1>3 DEF WriteSucceeds, Register, IdOf, requests
    <2>2. WellMade(q)
      BY <2>1 DEF Books, Made
    <2> HIDE DEF Request, Id, AllKinds
    <2> QED
      BY <1>3, <2>2 DEF WriteSucceeds, Register, IdOf, WellMade, Books, TypeOK, requests
  <1>4. ASSUME NEW r \in Request, WriteFails(r) PROVE WellMade(q)'
    <2>1. q <= issued
      BY <1>4 DEF WriteFails, requests
    <2>2. WellMade(q)
      BY <2>1 DEF Books, Made
    <2> HIDE DEF Request, Id, AllKinds
    <2> QED
      BY <1>4, <2>2 DEF WriteFails, WellMade, Books, TypeOK, requests
  <1>5. ASSUME NEW r \in Request, SignaldAnswers(r) PROVE WellMade(q)'
    <2>1. q <= issued
      BY <1>5 DEF SignaldAnswers, requests
    <2>2. WellMade(q)
      BY <2>1 DEF Books, Made
    <2> HIDE DEF Request, Id, AllKinds
    <2> QED
      BY <1>5, <2>2 DEF SignaldAnswers, WellMade, Books, TypeOK, requests
  <1>6. ASSUME NEW r \in Request, ReceiveSms(r) PROVE WellMade(q)'
    <2>1. q <= issued
      BY <1>6 DEF ReceiveSms, requests
    <2>2. WellMade(q)
      BY <2>1 DEF Books, Made
    <2> HIDE DEF Request, Id, AllKinds
    <2> QED
      BY <1>6, <2>2 DEF ReceiveSms, WellMade, Books, TypeOK, requests
  <1>7. ASSUME NEW r \in Request, SignaldVerifies(r) PROVE WellMade(q)'
    <2>1. q <= issued
      BY <1>7 DEF SignaldVerifies, requests
    <2>2. WellMade(q)
      BY <2>1 DEF Books, Made
    <2> HIDE DEF Request, Id, AllKinds
    <2> QED
      BY <1>7, <2>2 DEF SignaldVerifies, WellMade, Books, TypeOK, requests
  <1>8. ASSUME NEW r \in Request, NEW a \in Answer, HandleNothing(r, a)
        PROVE  WellMade(q)'
    <2>1. q <= issued
      BY <1>8 DEF HandleNothing, Receive, requests
    <2>2. WellMade(q)
      BY <2>1 DEF Books, Made
    <2> HIDE DEF Request, Id, AllKinds
    <2> QED
      BY <1>8, <2>2 DEF HandleNothing, Receive, WellMade, Books, TypeOK, requests
  <1>9. ASSUME NEW r \in Request, HandleAnswer(r) PROVE WellMade(q)'
    <2>1. q <= issued
      BY <1>9 DEF HandleAnswer, Receive, Settle, requests
    <2>2. WellMade(q)
      BY <2>1 DEF Books, Made
    <2>3. PICK c \in Request : Finds(r, c)
      BY <1>9, Callback DEF HandleAnswer, Receive, Answer
    <2> HIDE DEF Request, Id, AllKinds
    <2> QED
      BY <1>9, <2>2, <2>3
         DEF HandleAnswer, Receive, Settle, Finds, WellMade, Books, TypeOK
  <1>10. ASSUME NEW r \in Request, HandleHealthcheck(r) PROVE WellMade(q)'
    <2>1. q <= issued
      BY <1>10 DEF HandleHealthcheck, Receive, Delete, Settle, requests
    <2>2. WellMade(q)
      BY <2>1 DEF Books, Made
    <2>3. PICK c \in Request : Finds(r, c)
      BY <1>10, Callback DEF HandleHealthcheck, Receive, Answer
    <2> HIDE DEF Request, Id, AllKinds
    <2> QED
      BY <1>10, <2>2, <2>3
         DEF HandleHealthcheck, Receive, Delete, Settle, Finds, WellMade, Books, TypeOK
  <1>11. ASSUME NEW r \in Request, HandleVerification(r) PROVE WellMade(q)'
    <2>1. q <= issued
      BY <1>11 DEF HandleVerification, Receive, Settle, requests
    <2>2. WellMade(q)
      BY <2>1 DEF Books, Made
    <2>3. PICK c \in Request : Finds(r, c)
      BY <1>11, Callback DEF HandleVerification, Receive, Answer
    <2> HIDE DEF Request, Id, AllKinds
    <2> QED
      BY <1>11, <2>2, <2>3
         DEF HandleVerification, Receive, Settle, Finds, WellMade, Books, TypeOK
  <1>12. ASSUME NEW r \in Request, HandleSendResults(r) PROVE WellMade(q)'
    <2>1. q <= issued
      BY <1>12 DEF HandleSendResults, Receive, Delete, requests
    <2>2. WellMade(q)
      BY <2>1 DEF Books, Made
    <2> HIDE DEF Request, Id, AllKinds
    <2> QED
      BY <1>12, <2>2
         DEF HandleSendResults, Receive, Delete, WellMade, Books, TypeOK, requests
  <1>13. ASSUME NEW r \in Request, Deauthorize(r) PROVE WellMade(q)'
    <2>1. q <= issued
      BY <1>13 DEF Deauthorize, requests
    <2>2. WellMade(q)
      BY <2>1 DEF Books, Made
    <2> HIDE DEF Request, Id, AllKinds
    <2> QED
      BY <1>13, <2>2 DEF Deauthorize, WellMade, Books, TypeOK, requests
  <1>14. ASSUME NEW r \in Request, TrustAndResend(r) PROVE WellMade(q)'
    <2>1. PICK n \in Request : Makes(n, "TRUST", number[r])
      BY <1>14, Making DEF TrustAndResend
    <2>2. CASE q = n
      <3>1. "TRUST" \in AllKinds /\ number[r] \in Phone
        BY <1>14, <2>1 DEF Makes
      <3> HIDE DEF Request, Id, AllKinds
      <3>2. kind'[n] = "TRUST" /\ number'[n] = number[r]
        BY <2>1 DEF Makes, Books, TypeOK
      <3>3. state'[n] = "writing"
        BY <2>1 DEF Makes, Books, TypeOK
      <3> QED
        BY <2>2, <3>1, <3>2, <3>3 DEF WellMade
    <2>3. CASE q # n
      <3>1. q <= issued
        BY <2>1, <2>3, BoundAssumption DEF Makes, Books, TypeOK
      <3>2. WellMade(q)
        BY <3>1 DEF Books, Made
      <3> HIDE DEF Request, Id, AllKinds
      <3> QED
        BY <2>1, <2>3, <3>2 DEF Makes, WellMade, Books, TypeOK
    <2> QED
      BY <2>2, <2>3
  <1>15. ASSUME NEW r \in Request, Resend(r) PROVE WellMade(q)'
    <2>1. PICK n \in Request : Makes(n, "SEND", number[r])
      BY <1>15, Making DEF Resend
    <2>2. CASE q = n
      <3>1. "SEND" \in AllKinds /\ number[r] \in Phone
        BY <1>15, <2>1 DEF Makes
      <3> HIDE DEF Request, Id, AllKinds
      <3>2. kind'[n] = "SEND" /\ number'[n] = number[r]
        BY <2>1 DEF Makes, Books, TypeOK
      <3>3. state'[n] = "writing"
        BY <2>1 DEF Makes, Books, TypeOK
      <3> QED
        BY <2>2, <3>1, <3>2, <3>3 DEF WellMade
    <2>3. CASE q # n
      <3>1. q <= issued
        BY <2>1, <2>3, BoundAssumption DEF Makes, Books, TypeOK
      <3>2. WellMade(q)
        BY <3>1 DEF Books, Made
      <3> HIDE DEF Request, Id, AllKinds
      <3> QED
        BY <2>1, <2>3, <3>2 DEF Makes, WellMade, Books, TypeOK
    <2> QED
      BY <2>2, <2>3
  <1>16. ASSUME NEW r \in Request, TimeOut(r) PROVE WellMade(q)'
    <2>1. q <= issued
      BY <1>16 DEF TimeOut, Fires, Settle, requests
    <2>2. WellMade(q)
      BY <2>1 DEF Books, Made
    <2> HIDE DEF Request, Id, AllKinds
    <2> QED
      BY <1>16, <2>2 DEF TimeOut, Fires, Settle, WellMade, Books, TypeOK, requests
  <1>17. CASE UNCHANGED vars
    <2>1. WellMade(q)
      BY <1>17 DEF vars, requests, Books, Made
    <2> QED
      BY <1>17, <2>1 DEF vars, requests, WellMade
  <1> QED
    BY <1>1, <1>2, <1>3, <1>4, <1>5, <1>6, <1>7, <1>8,
       <1>9, <1>10, <1>11, <1>12, <1>13, <1>14, <1>15, <1>16, <1>17 DEF Next, Step, Handle

\* Every step keeps the answers true.
LEMMA TruthfulNext == Books /\ [Next]_vars => Truthful'
  <1> SUFFICES ASSUME Books, [Next]_vars, NEW q \in Request PROVE Honest(q)'
    BY DEF Truthful
  <1>0. Honest(q)
    BY DEF Books, Truthful
  <1>1. ASSUME NEW k \in AllKinds, NEW p \in Phone, Issue(k, p) PROVE Honest(q)'
    <2>1. PICK n \in Request : Makes(n, k, p)
      BY <1>1, Making DEF Issue
    <2>2. Untouched(n)
      BY <2>1, BoundAssumption DEF Makes, Books, TypeOK, Fresh
    <2>3. kind'[n] = k /\ (q # n => kind'[q] = kind[q] /\ number'[q] = number[q])
      BY <2>1 DEF Makes, Books, TypeOK
    <2>4. followUp' \subseteq followUp /\ UNCHANGED signald
      BY <1>1, <2>1 DEF Issue, Makes, safetyNumbers
    <2> HIDE DEF Request, Id, AllKinds
    <2> QED
      BY <1>0, <2>2, <2>3, <2>4 DEF Honest, Untouched, Answer, signald
  <1>2. ASSUME NEW p \in Phone, TrustAndNotify(p) PROVE Honest(q)'
    <2>1. PICK n \in Request : Makes(n, "TRUST", p)
      BY <1>2, Making DEF TrustAndNotify
    <2>2. Untouched(n)
      BY <2>1, BoundAssumption DEF Makes, Books, TypeOK, Fresh
    <2>3. kind'[n] = "TRUST" /\ (q # n => kind'[q] = kind[q] /\ number'[q] = number[q])
      BY <2>1 DEF Makes, Books, TypeOK
    <2>4. followUp' \subseteq followUp \cup {n} /\ UNCHANGED signald
      BY <1>2, <2>1 DEF TrustAndNotify, Makes, safetyNumbers
    <2> HIDE DEF Request, Id, AllKinds
    <2> QED
      BY <1>0, <2>2, <2>3, <2>4 DEF Honest, Untouched, Answer, signald
  <1>3. ASSUME NEW r \in Request, WriteSucceeds(r) PROVE Honest(q)'
    <2> HIDE DEF Request, Id, AllKinds
    <2> QED
      BY <1>0, <1>3 DEF WriteSucceeds, Register, IdOf, Honest,
                  requests, callbacks, signald, safetyNumbers
  <1>4. ASSUME NEW r \in Request, WriteFails(r) PROVE Honest(q)'
    <2> HIDE DEF Request, Id, AllKinds
    <2> QED
      BY <1>0, <1>4 DEF WriteFails, Honest,
                  requests, callbacks, signald, safetyNumbers
  <1>5. ASSUME NEW r \in Request, SignaldAnswers(r) PROVE Honest(q)'
    <2> HIDE DEF Request, Id, AllKinds
    <2> QED
      BY <1>0, <1>5 DEF SignaldAnswers, Honest,
                  requests, callbacks, signald, safetyNumbers
  <1>6. ASSUME NEW r \in Request, ReceiveSms(r) PROVE Honest(q)'
    <2> HIDE DEF Request, Id, AllKinds
    <2> QED
      BY <1>0, <1>6 DEF ReceiveSms, Honest,
                  requests, callbacks, signald, safetyNumbers
  <1>7. ASSUME NEW r \in Request, SignaldVerifies(r) PROVE Honest(q)'
    <2> HIDE DEF Request, Id, AllKinds
    <2> QED
      BY <1>0, <1>7 DEF SignaldVerifies, Honest,
                  requests, callbacks, signald, safetyNumbers
  <1>8. ASSUME NEW r \in Request, NEW a \in Answer, HandleNothing(r, a) PROVE Honest(q)'
    <2> HIDE DEF Request, Id, AllKinds
    <2> QED
      BY <1>0, <1>8 DEF HandleNothing, Receive, Honest,
                  requests, callbacks, signald, safetyNumbers
  <1>9. ASSUME NEW r \in Request, HandleAnswer(r) PROVE Honest(q)'
    <2> HIDE DEF Request, Id, AllKinds
    <2> QED
      BY <1>0, <1>9 DEF HandleAnswer, Receive, Settle, Honest,
                  requests, callbacks, signald, safetyNumbers
  <1>10. ASSUME NEW r \in Request, HandleHealthcheck(r) PROVE Honest(q)'
    <2> HIDE DEF Request, Id, AllKinds
    <2> QED
      BY <1>0, <1>10 DEF HandleHealthcheck, Receive, Delete, Settle, Honest,
                  requests, callbacks, signald, safetyNumbers
  <1>11. ASSUME NEW r \in Request, HandleVerification(r) PROVE Honest(q)'
    <2> HIDE DEF Request, Id, AllKinds
    <2> QED
      BY <1>0, <1>11 DEF HandleVerification, Receive, Settle, Honest,
                  requests, callbacks, signald, safetyNumbers
  <1>12. ASSUME NEW r \in Request, HandleSendResults(r) PROVE Honest(q)'
    <2> HIDE DEF Request, Id, AllKinds
    <2> QED
      BY <1>0, <1>12 DEF HandleSendResults, Receive, Delete, Honest,
                  requests, callbacks, signald, safetyNumbers
  <1>13. ASSUME NEW r \in Request, Deauthorize(r) PROVE Honest(q)'
    <2> HIDE DEF Request, Id, AllKinds
    <2> QED
      BY <1>0, <1>13 DEF Deauthorize, Honest,
                  requests, callbacks, signald, safetyNumbers
  <1>14. ASSUME NEW r \in Request, TrustAndResend(r) PROVE Honest(q)'
    <2>1. PICK n \in Request : Makes(n, "TRUST", number[r])
      BY <1>14, Making DEF TrustAndResend
    <2>2. Untouched(n)
      BY <2>1, BoundAssumption DEF Makes, Books, TypeOK, Fresh
    <2>3. kind'[n] = "TRUST" /\ (q # n => kind'[q] = kind[q] /\ number'[q] = number[q])
      BY <2>1 DEF Makes, Books, TypeOK
    <2>4. followUp' \subseteq followUp \cup {n} /\ UNCHANGED signald
      BY <1>14, <2>1 DEF TrustAndResend, Makes, safetyNumbers
    <2> HIDE DEF Request, Id, AllKinds
    <2> QED
      BY <1>0, <2>2, <2>3, <2>4 DEF Honest, Untouched, Answer, signald
  <1>15. ASSUME NEW r \in Request, Resend(r) PROVE Honest(q)'
    <2>1. PICK n \in Request : Makes(n, "SEND", number[r])
      BY <1>15, Making DEF Resend
    <2>2. Untouched(n)
      BY <2>1, BoundAssumption DEF Makes, Books, TypeOK, Fresh
    <2>3. kind'[n] = "SEND" /\ (q # n => kind'[q] = kind[q] /\ number'[q] = number[q])
      BY <2>1 DEF Makes, Books, TypeOK
    <2>4. followUp' \subseteq followUp /\ UNCHANGED signald
      BY <1>15, <2>1 DEF Resend, Makes, safetyNumbers
    <2> HIDE DEF Request, Id, AllKinds
    <2> QED
      BY <1>0, <2>2, <2>3, <2>4 DEF Honest, Untouched, Answer, signald
  <1>16. ASSUME NEW r \in Request, TimeOut(r) PROVE Honest(q)'
    <2> HIDE DEF Request, Id, AllKinds
    <2> QED
      BY <1>0, <1>16 DEF TimeOut, Fires, Settle, Honest,
                  requests, callbacks, signald, safetyNumbers
  <1>17. CASE UNCHANGED vars
    BY <1>0, <1>17 DEF vars, requests, signald, safetyNumbers, Honest
  <1> QED
    BY <1>1, <1>2, <1>3, <1>4, <1>5, <1>6, <1>7, <1>8,
       <1>9, <1>10, <1>11, <1>12, <1>13, <1>14, <1>15, <1>16, <1>17 DEF Next, Step, Handle

\* Every step keeps a timer for every callback.
LEMMA ExpireNext == Books /\ [Next]_vars => EntriesExpire'
  <1> SUFFICES ASSUME Books, [Next]_vars, NEW j \in Id PROVE Expires(j)'
    BY DEF EntriesExpire, Expires
  <1>0. Expires(j)
    BY DEF Books, EntriesExpire, Expires
  <1>1. ASSUME NEW k \in AllKinds, NEW p \in Phone, Issue(k, p) PROVE Expires(j)'
    <2>1. PICK n \in Request : Makes(n, k, p)
      BY <1>1, Making DEF Issue
    <2>2. n \notin timers
      BY <2>1, BoundAssumption DEF Makes, Books, TypeOK, Fresh, Untouched
    <2> HIDE DEF Request, Id, AllKinds
    <2>3. kind'[n] = k /\ number'[n] = p /\ timers \subseteq timers'
      BY <2>1 DEF Makes, Books, TypeOK
    <2>4. ASSUME NEW c \in Request, c # n PROVE Key(c)' = Key(c)
      BY <2>1, <2>4 DEF Makes, Books, TypeOK, Key
    <2>5. Key(n)' = IdOf(k, p, n)
      BY <2>3 DEF Key
    <2>6. CASE registry'[j] = registry[j]
      BY <1>0, <2>2, <2>3, <2>4, <2>6 DEF Expires, Books, TypeOK
    <2>7. CASE j = IdOf(k, p, n) /\ registry'[j] = n /\ n \in timers'
      BY <2>5, <2>7 DEF Expires
    <2> QED
      BY <2>1, <2>6, <2>7 DEF Makes, Books, TypeOK
  <1>2. ASSUME NEW p \in Phone, TrustAndNotify(p) PROVE Expires(j)'
    <2>1. PICK n \in Request : Makes(n, "TRUST", p)
      BY <1>2, Making DEF TrustAndNotify
    <2>2. n \notin timers
      BY <2>1, BoundAssumption DEF Makes, Books, TypeOK, Fresh, Untouched
    <2> HIDE DEF Request, Id, AllKinds
    <2>3. kind'[n] = "TRUST" /\ number'[n] = p /\ timers \subseteq timers'
      BY <2>1 DEF Makes, Books, TypeOK
    <2>4. ASSUME NEW c \in Request, c # n PROVE Key(c)' = Key(c)
      BY <2>1, <2>4 DEF Makes, Books, TypeOK, Key
    <2>5. Key(n)' = IdOf("TRUST", p, n)
      BY <2>3 DEF Key
    <2>6. CASE registry'[j] = registry[j]
      BY <1>0, <2>2, <2>3, <2>4, <2>6 DEF Expires, Books, TypeOK
    <2>7. CASE j = IdOf("TRUST", p, n) /\ registry'[j] = n /\ n \in timers'
      BY <2>5, <2>7 DEF Expires
    <2> QED
      BY <2>1, <2>6, <2>7 DEF Makes, Books, TypeOK
  <1>3. ASSUME NEW r \in Request, WriteSucceeds(r) PROVE Expires(j)'
    <2>1. Key(r) \in Id
      BY <1>3, Known DEF WriteSucceeds
    <2> HIDE DEF Request, Id, AllKinds
    <2>2. \/ registry' = registry /\ timers' = timers
          \/ registry' = [registry EXCEPT ![Key(r)] = r] /\ timers' = timers \cup {r}
      BY <1>3 DEF WriteSucceeds, Register, Key, callbacks
    <2>3. \A c \in Request : Key(c)' = Key(c)
      BY <1>3 DEF WriteSucceeds, Key
    <2> QED
      BY <1>0, <2>1, <2>2, <2>3 DEF Expires, Books, TypeOK
  <1>4. ASSUME NEW r \in Request, WriteFails(r) PROVE Expires(j)'
    <2> HIDE DEF Request, Id, AllKinds
    <2>1. timers' = timers /\ (registry'[j] = registry[j] \/ registry'[j] = NoRequest)
      BY <1>4 DEF WriteFails, callbacks, Books, TypeOK
    <2>2. \A c \in Request : Key(c)' = Key(c)
      BY <1>4 DEF WriteFails, requests, Key
    <2> QED
      BY <1>0, <2>1, <2>2 DEF Expires, Books, TypeOK
  <1>5. ASSUME NEW r \in Request, SignaldAnswers(r) PROVE Expires(j)'
    <2> HIDE DEF Request, Id, AllKinds
    <2>1. timers' = timers /\ (registry'[j] = registry[j] \/ registry'[j] = NoRequest)
      BY <1>5 DEF SignaldAnswers, callbacks, Books, TypeOK
    <2>2. \A c \in Request : Key(c)' = Key(c)
      BY <1>5 DEF SignaldAnswers, requests, Key
    <2> QED
      BY <1>0, <2>1, <2>2 DEF Expires, Books, TypeOK
  <1>6. ASSUME NEW r \in Request, ReceiveSms(r) PROVE Expires(j)'
    <2> HIDE DEF Request, Id, AllKinds
    <2>1. timers' = timers /\ (registry'[j] = registry[j] \/ registry'[j] = NoRequest)
      BY <1>6 DEF ReceiveSms, callbacks, Books, TypeOK
    <2>2. \A c \in Request : Key(c)' = Key(c)
      BY <1>6 DEF ReceiveSms, requests, Key
    <2> QED
      BY <1>0, <2>1, <2>2 DEF Expires, Books, TypeOK
  <1>7. ASSUME NEW r \in Request, SignaldVerifies(r) PROVE Expires(j)'
    <2> HIDE DEF Request, Id, AllKinds
    <2>1. timers' = timers /\ (registry'[j] = registry[j] \/ registry'[j] = NoRequest)
      BY <1>7 DEF SignaldVerifies, callbacks, Books, TypeOK
    <2>2. \A c \in Request : Key(c)' = Key(c)
      BY <1>7 DEF SignaldVerifies, requests, Key
    <2> QED
      BY <1>0, <2>1, <2>2 DEF Expires, Books, TypeOK
  <1>8. ASSUME NEW r \in Request, NEW a \in Answer, HandleNothing(r, a)
        PROVE  Expires(j)'
    <2> HIDE DEF Request, Id, AllKinds
    <2>1. timers' = timers /\ (registry'[j] = registry[j] \/ registry'[j] = NoRequest)
      BY <1>8 DEF HandleNothing, Receive, callbacks, Books, TypeOK
    <2>2. \A c \in Request : Key(c)' = Key(c)
      BY <1>8 DEF HandleNothing, Receive, requests, Key
    <2> QED
      BY <1>0, <2>1, <2>2 DEF Expires, Books, TypeOK
  <1>9. ASSUME NEW r \in Request, HandleAnswer(r) PROVE Expires(j)'
    <2> HIDE DEF Request, Id, AllKinds
    <2>1. timers' = timers /\ (registry'[j] = registry[j] \/ registry'[j] = NoRequest)
      BY <1>9 DEF HandleAnswer, Receive, Settle, callbacks, Books, TypeOK
    <2>2. \A c \in Request : Key(c)' = Key(c)
      BY <1>9 DEF HandleAnswer, Receive, Settle, requests, Key
    <2> QED
      BY <1>0, <2>1, <2>2 DEF Expires, Books, TypeOK
  <1>10. ASSUME NEW r \in Request, HandleHealthcheck(r) PROVE Expires(j)'
    <2> HIDE DEF Request, Id, AllKinds
    <2>1. timers' = timers /\ (registry'[j] = registry[j] \/ registry'[j] = NoRequest)
      BY <1>10 DEF HandleHealthcheck, Receive, Delete, Settle, callbacks, Books, TypeOK
    <2>2. \A c \in Request : Key(c)' = Key(c)
      BY <1>10 DEF HandleHealthcheck, Receive, Delete, Settle, requests, Key
    <2> QED
      BY <1>0, <2>1, <2>2 DEF Expires, Books, TypeOK
  <1>11. ASSUME NEW r \in Request, HandleVerification(r) PROVE Expires(j)'
    <2> HIDE DEF Request, Id, AllKinds
    <2>1. timers' = timers /\ (registry'[j] = registry[j] \/ registry'[j] = NoRequest)
      BY <1>11 DEF HandleVerification, Receive, Settle, callbacks, Books, TypeOK
    <2>2. \A c \in Request : Key(c)' = Key(c)
      BY <1>11 DEF HandleVerification, Receive, Settle, requests, Key
    <2> QED
      BY <1>0, <2>1, <2>2 DEF Expires, Books, TypeOK
  <1>12. ASSUME NEW r \in Request, HandleSendResults(r) PROVE Expires(j)'
    <2> HIDE DEF Request, Id, AllKinds
    <2>1. timers' = timers /\ (registry'[j] = registry[j] \/ registry'[j] = NoRequest)
      BY <1>12 DEF HandleSendResults, Receive, Delete, callbacks, Books, TypeOK
    <2>2. \A c \in Request : Key(c)' = Key(c)
      BY <1>12 DEF HandleSendResults, Receive, Delete, requests, Key
    <2> QED
      BY <1>0, <2>1, <2>2 DEF Expires, Books, TypeOK
  <1>13. ASSUME NEW r \in Request, Deauthorize(r) PROVE Expires(j)'
    <2> HIDE DEF Request, Id, AllKinds
    <2>1. timers' = timers /\ (registry'[j] = registry[j] \/ registry'[j] = NoRequest)
      BY <1>13 DEF Deauthorize, callbacks, Books, TypeOK
    <2>2. \A c \in Request : Key(c)' = Key(c)
      BY <1>13 DEF Deauthorize, requests, Key
    <2> QED
      BY <1>0, <2>1, <2>2 DEF Expires, Books, TypeOK
  <1>14. ASSUME NEW r \in Request, TrustAndResend(r) PROVE Expires(j)'
    <2>1. PICK n \in Request : Makes(n, "TRUST", number[r])
      BY <1>14, Making DEF TrustAndResend
    <2>2. n \notin timers
      BY <2>1, BoundAssumption DEF Makes, Books, TypeOK, Fresh, Untouched
    <2> HIDE DEF Request, Id, AllKinds
    <2>3. kind'[n] = "TRUST" /\ number'[n] = number[r] /\ timers \subseteq timers'
      BY <2>1 DEF Makes, Books, TypeOK
    <2>4. ASSUME NEW c \in Request, c # n PROVE Key(c)' = Key(c)
      BY <2>1, <2>4 DEF Makes, Books, TypeOK, Key
    <2>5. Key(n)' = IdOf("TRUST", number[r], n)
      BY <2>3 DEF Key
    <2>6. CASE registry'[j] = registry[j]
      BY <1>0, <2>2, <2>3, <2>4, <2>6 DEF Expires, Books, TypeOK
    <2>7. CASE j = IdOf("TRUST", number[r], n) /\ registry'[j] = n /\ n \in timers'
      BY <2>5, <2>7 DEF Expires
    <2> QED
      BY <2>1, <2>6, <2>7 DEF Makes, Books, TypeOK
  <1>15. ASSUME NEW r \in Request, Resend(r) PROVE Expires(j)'
    <2>1. PICK n \in Request : Makes(n, "SEND", number[r])
      BY <1>15, Making DEF Resend
    <2>2. n \notin timers
      BY <2>1, BoundAssumption DEF Makes, Books, TypeOK, Fresh, Untouched
    <2> HIDE DEF Request, Id, AllKinds
    <2>3. kind'[n] = "SEND" /\ number'[n] = number[r] /\ timers \subseteq timers'
      BY <2>1 DEF Makes, Books, TypeOK
    <2>4. ASSUME NEW c \in Request, c # n PROVE Key(c)' = Key(c)
      BY <2>1, <2>4 DEF Makes, Books, TypeOK, Key
    <2>5. Key(n)' = IdOf("SEND", number[r], n)
      BY <2>3 DEF Key
    <2>6. CASE registry'[j] = registry[j]
      BY <1>0, <2>2, <2>3, <2>4, <2>6 DEF Expires, Books, TypeOK
    <2>7. CASE j = IdOf("SEND", number[r], n) /\ registry'[j] = n /\ n \in timers'
      BY <2>5, <2>7 DEF Expires
    <2> QED
      BY <2>1, <2>6, <2>7 DEF Makes, Books, TypeOK
  <1>16. ASSUME NEW r \in Request, TimeOut(r) PROVE Expires(j)'
    <2>1. Key(r) \in Id
      BY <1>16, Known DEF TimeOut, Fires
    <2> HIDE DEF Request, Id, AllKinds
    <2>2. registry' = [registry EXCEPT ![Key(r)] = NoRequest] /\ timers' = timers \ {r}
      BY <1>16 DEF TimeOut, Fires
    <2>3. \A c \in Request : Key(c)' = Key(c)
      BY <1>16 DEF TimeOut, Fires, Key
    <2> QED
      BY <1>0, <2>1, <2>2, <2>3 DEF Expires, Books, TypeOK
  <1>17. CASE UNCHANGED vars
    BY <1>0, <1>17 DEF vars, requests, callbacks, Expires, Key
  <1> QED
    BY <1>1, <1>2, <1>3, <1>4, <1>5, <1>6, <1>7, <1>8,
       <1>9, <1>10, <1>11, <1>12, <1>13, <1>14, <1>15, <1>16, <1>17 DEF Next, Step, Handle

\* The books stay in order.
LEMMA BooksNext == Books /\ [Next]_vars => Books'
  BY TypeNext, FreshNext, MadeNext, TruthfulNext, ExpireNext DEF Books

\* Every variable keeps its type: every request, promise and callback stays one
\* that the handlers know.
THEOREM TypeCorrect == Spec => []TypeOK
  <1>1. Books => TypeOK
    BY DEF Books
  <1> QED
    BY <1>1, BooksInit, BooksNext, PTL DEF Spec

\* Every callback has a timer that will delete it, set by register along with it.
THEOREM CallbacksExpire == Spec => []EntriesExpire
  <1>1. Books => EntriesExpire
    BY DEF Books
  <1> QED
    BY <1>1, BooksInit, BooksNext, PTL DEF Spec

-----------------------------------------------------------------------------
(* What the callers see. *)

\* If the caller of q waits for an answer with an id of its own, it finds q.
Found(q) == state[q] = "pending" /\ kind[q] # "VERIFY" => registry[q] = q

\* PendingRegistered is Found of every request.
LEMMA OwnId ==
  Books => (PendingRegistered <=> \A q \in Request : Found(q))
  BY DEF PendingRegistered, Found, Key, IdOf

\* The same of the next state.
LEMMA OwnIdNext ==
  (\A q \in Request : Found(q)') => PendingRegistered'
  BY DEF PendingRegistered, Found, Key, IdOf

\* A callback is deleted, or taken over, only when its promise settles.
LEMMA RegisteredNext == Books /\ PendingRegistered /\ [Next]_vars => PendingRegistered'
  <1> SUFFICES ASSUME Books, PendingRegistered, [Next]_vars, NEW q \in Request
               PROVE  Found(q)'
    BY BooksNext, OwnId, OwnIdNext
  <1>0. Found(q)
    BY OwnId
  <1>a. q \in Id
    OBVIOUS
  <1>1. ASSUME NEW k \in AllKinds, NEW p \in Phone, Issue(k, p) PROVE Found(q)'
    <2>1. PICK n \in Request : Makes(n, k, p)
      BY <1>1, Making DEF Issue
    <2>2. IdOf(k, p, n) \in Id /\ (q # n => IdOf(k, p, n) # q)
      BY <2>1, PhoneAssumption DEF Makes, IdOf
    <2> HIDE DEF Request, Id, AllKinds
    <2>3. CASE q = n
      <3>1. kind'[n] = k /\ (state'[n] = "pending" => k \in {"HEALTHCHECK", "VERIFY"})
        BY <2>1 DEF Makes, Books, TypeOK
      <3>2. k = "HEALTHCHECK" => registry'[n] = n
        BY <2>1, <2>2 DEF Makes, Books, TypeOK, IdOf
      <3> QED
        BY <2>3, <3>1, <3>2 DEF Found
    <2>4. CASE q # n
      <3>1. kind'[q] = kind[q] /\ state'[q] = state[q]
        BY <2>1, <2>4 DEF Makes, Books, TypeOK
      <3>2. registry'[q] = registry[q]
        BY <1>a, <2>1, <2>2, <2>4 DEF Makes, Books, TypeOK
      <3> QED
        BY <1>0, <3>1, <3>2 DEF Found
    <2> QED
      BY <2>3, <2>4
  <1>2. ASSUME NEW p \in Phone, TrustAndNotify(p) PROVE Found(q)'
    <2>1. PICK n \in Request : Makes(n, "TRUST", p)
      BY <1>2, Making DEF TrustAndNotify
    <2>2. IdOf("TRUST", p, n) \in Id /\ (q # n => IdOf("TRUST", p, n) # q)
      BY <2>1, PhoneAssumption DEF Makes, IdOf
    <2> HIDE DEF Request, Id, AllKinds
    <2>3. CASE q = n
      <3>1. kind'[n] = "TRUST" /\ state'[n] = "writing"
        BY <2>1 DEF Makes, Books, TypeOK
      <3> QED
        BY <2>3, <3>1 DEF Found
    <2>4. CASE q # n
      <3>1. kind'[q] = kind[q] /\ state'[q] = state[q]
        BY <2>1, <2>4 DEF Makes, Books, TypeOK
      <3>2. registry'[q] = registry[q]
        BY <1>a, <2>1, <2>2, <2>4 DEF Makes, Books, TypeOK
      <3> QED
        BY <1>0, <3>1, <3>2 DEF Found
    <2> QED
      BY <2>3, <2>4
  <1>3. ASSUME NEW r \in Request, WriteSucceeds(r) PROVE Found(q)'
    <2>1. number[r] \in Phone /\ Key(r) \in Id
      BY <1>3, Known DEF WriteSucceeds
    <2>2. (q # r => Key(r) # q) /\ (kind[r] # "VERIFY" => Key(r) = r)
      BY <2>1, PhoneAssumption DEF Key, IdOf
    <2> HIDE DEF Request, Id, AllKinds
    <2>3. CASE state[r] = "writing"
      <3>1. /\ registry' = [registry EXCEPT ![Key(r)] = r]
            /\ \E v \in {"written", "pending"} : state' = [state EXCEPT ![r] = v]
            /\ kind' = kind
        BY <1>3, <2>3 DEF WriteSucceeds, Register, Key
      <3>2. CASE q = r
        BY <2>1, <2>2, <3>1, <3>2 DEF Found, Books, TypeOK
      <3>3. CASE q # r
        BY <1>0, <1>a, <2>2, <3>1, <3>3 DEF Found, Books, TypeOK
      <3> QED
        BY <3>2, <3>3
    <2>4. CASE state[r] # "writing"
      BY <1>0, <1>3, <2>4 DEF WriteSucceeds, callbacks, Found
    <2> QED
      BY <2>3, <2>4
  <1>4. ASSUME NEW r \in Request, WriteFails(r) PROVE Found(q)'
    <2> HIDE DEF Request, Id, AllKinds
    <2> QED
      BY <1>0, <1>4 DEF WriteFails, requests, callbacks, Found, Books, TypeOK
  <1>5. ASSUME NEW r \in Request, SignaldAnswers(r) PROVE Found(q)'
    <2> HIDE DEF Request, Id, AllKinds
    <2> QED
      BY <1>0, <1>5 DEF SignaldAnswers, requests, callbacks, Found, Books, TypeOK
  <1>6. ASSUME NEW r \in Request, ReceiveSms(r) PROVE Found(q)'
    <2> HIDE DEF Request, Id, AllKinds
    <2> QED
      BY <1>0, <1>6 DEF ReceiveSms, requests, callbacks, Found, Books, TypeOK
  <1>7. ASSUME NEW r \in Request, SignaldVerifies(r) PROVE Found(q)'
    <2> HIDE DEF Request, Id, AllKinds
    <2> QED
      BY <1>0, <1>7 DEF SignaldVerifies, requests, callbacks, Found, Books, TypeOK
  <1>8. ASSUME NEW r \in Request, NEW a \in Answer, HandleNothing(r, a) PROVE Found(q)'
    <2> HIDE DEF Request, Id, AllKinds
    <2> QED
      BY <1>0, <1>8
         DEF HandleNothing, Receive, requests, callbacks, Found, Books, TypeOK
  <1>9. ASSUME NEW r \in Request, HandleAnswer(r) PROVE Found(q)'
    <2>1. PICK c \in Request : Finds(r, c)
      BY <1>9, Callback DEF HandleAnswer, Receive, Answer
    <2> HIDE DEF Request, Id, AllKinds
    <2> QED
      BY <1>0, <1>9, <2>1 DEF HandleAnswer, Receive, Settle, Finds, Found, Books, TypeOK
  <1>10. ASSUME NEW r \in Request, HandleHealthcheck(r) PROVE Found(q)'
    <2>1. PICK c \in Request : Finds(r, c)
      BY <1>10, Callback DEF HandleHealthcheck, Receive, Answer
    <2>2. c = r /\ Key(r) = r
      BY <1>10, <2>1 DEF HandleHealthcheck, Finds, Key, IdOf
    <2> HIDE DEF Request, Id, AllKinds
    <2> QED
      BY <1>0, <1>10, <2>1, <2>2
         DEF HandleHealthcheck, Receive, Delete, Settle, Finds, Found, Books, TypeOK
  <1>11. ASSUME NEW r \in Request, HandleVerification(r) PROVE Found(q)'
    <2>1. PICK c \in Request : Finds(r, c)
      BY <1>11, Callback DEF HandleVerification, Receive, Answer
    <2> HIDE DEF Request, Id, AllKinds
    <2> QED
      BY <1>0, <1>11, <2>1
         DEF HandleVerification, Receive, Settle, Finds, Found, Books, TypeOK
  <1>12. ASSUME NEW r \in Request, HandleSendResults(r) PROVE Found(q)'
    <2>1. PICK c \in Request : Finds(r, c)
      BY <1>12, Callback DEF HandleSendResults, Receive, Answer
    <2>2. c = r /\ Key(r) = r
      BY <1>12, <2>1 DEF HandleSendResults, Finds, Key, IdOf
    <2>3. state[r] # "pending"
      BY <1>12, <2>1 DEF HandleSendResults, Finds, Books, Made, WellMade
    <2> HIDE DEF Request, Id, AllKinds
    <2> QED
      BY <1>0, <1>12, <2>1, <2>2, <2>3
         DEF HandleSendResults, Receive, Delete, Finds, Found, Books, TypeOK
  <1>13. ASSUME NEW r \in Request, Deauthorize(r) PROVE Found(q)'
    <2> HIDE DEF Request, Id, AllKinds
    <2> QED
      BY <1>0, <1>13 DEF Deauthorize, requests, callbacks, Found, Books, TypeOK
  <1>14. ASSUME NEW r \in Request, TrustAndResend(r) PROVE Found(q)'
    <2>1. PICK n \in Request : Makes(n, "TRUST", number[r])
      BY <1>14, Making DEF TrustAndResend
    <2>2. IdOf("TRUST", number[r], n) \in Id /\ (q # n => IdOf("TRUST", number[r], n) # q)
      BY <2>1, PhoneAssumption DEF Makes, IdOf
    <2> HIDE DEF Request, Id, AllKinds
    <2>3. CASE q = n
      <3>1. kind'[n] = "TRUST" /\ state'[n] = "writing"
        BY <2>1 DEF Makes, Books, TypeOK
      <3> QED
        BY <2>3, <3>1 DEF Found
    <2>4. CASE q # n
      <3>1. kind'[q] = kind[q] /\ state'[q] = state[q]
        BY <2>1, <2>4 DEF Makes, Books, TypeOK
      <3>2. registry'[q] = registry[q]
        BY <1>a, <2>1, <2>2, <2>4 DEF Makes, Books, TypeOK
      <3> QED
        BY <1>0, <3>1, <3>2 DEF Found
    <2> QED
      BY <2>3, <2>4
  <1>15. ASSUME NEW r \in Request, Resend(r) PROVE Found(q)'
    <2>1. PICK n \in Request : Makes(n, "SEND", number[r])
      BY <1>15, Making DEF Resend
    <2>2. IdOf("SEND", number[r], n) \in Id /\ (q # n => IdOf("SEND", number[r], n) # q)
      BY <2>1, PhoneAssumption DEF Makes, IdOf
    <2> HIDE DEF Request, Id, AllKinds
    <2>3. CASE q = n
      <3>1. kind'[n] = "SEND" /\ state'[n] = "writing"
        BY <2>1 DEF Makes, Books, TypeOK
      <3> QED
        BY <2>3, <3>1 DEF Found
    <2>4. CASE q # n
      <3>1. kind'[q] = kind[q] /\ state'[q] = state[q]
        BY <2>1, <2>4 DEF Makes, Books, TypeOK
      <3>2. registry'[q] = registry[q]
        BY <1>a, <2>1, <2>2, <2>4 DEF Makes, Books, TypeOK
      <3> QED
        BY <1>0, <3>1, <3>2 DEF Found
    <2> QED
      BY <2>3, <2>4
  <1>16. ASSUME NEW r \in Request, TimeOut(r) PROVE Found(q)'
    <2>1. number[r] \in Phone /\ Key(r) \in Id
      BY <1>16, Known DEF TimeOut, Fires
    <2>2. (q # r => Key(r) # q) /\ (kind[r] # "VERIFY" => Key(r) = r)
      BY <2>1, PhoneAssumption DEF Key, IdOf
    <2> HIDE DEF Request, Id, AllKinds
    <2> QED
      BY <1>0, <1>16, <2>1, <2>2 DEF TimeOut, Fires, Settle, Found, Books, TypeOK
  <1>17. CASE UNCHANGED vars
    BY <1>0, <1>17 DEF vars, requests, callbacks, Found
  <1> QED
    BY <1>1, <1>2, <1>3, <1>4, <1>5, <1>6, <1>7, <1>8,
       <1>9, <1>10, <1>11, <1>12, <1>13, <1>14, <1>15, <1>16, <1>17 DEF Next, Step, Handle

\* Whoever waits for an answer with an id of its own is found by it: no other
\* request, answer or timer takes its callback.
THEOREM PendingAreRegistered == Spec => []PendingRegistered
  <1>1. Init => PendingRegistered
    BY DEF Init, PendingRegistered
  <1> QED
    BY <1>1, BooksInit, BooksNext, RegisteredNext, PTL DEF Spec

\* A promise is resolved only when signald has done what its request asked for.
Resolved(r) == state[r] = "resolved" => Key(r) \in done

ResolvedDone == \A r \in Request : Resolved(r)

\* A promise is resolved by an answer to what was asked.
LEMMA ResolvedNext == Books /\ ResolvedDone /\ [Next]_vars => ResolvedDone'
  <1> SUFFICES ASSUME Books, ResolvedDone, [Next]_vars, NEW q \in Request
               PROVE  Resolved(q)'
    BY DEF ResolvedDone, Resolved
  <1>0. Resolved(q)
    BY DEF ResolvedDone, Resolved
  <1>1. ASSUME NEW k \in AllKinds, NEW p \in Phone, Issue(k, p) PROVE Resolved(q)'
    <2>1. PICK n \in Request : Makes(n, k, p)
      BY <1>1, Making DEF Issue
    <2> HIDE DEF Request, Id, AllKinds
    <2>2. state'[n] # "resolved" /\ done' = done
      BY <1>1, <2>1 DEF Makes, Books, TypeOK, Issue, signald
    <2>3. q # n => state'[q] = state[q] /\ Key(q)' = Key(q)
      BY <2>1 DEF Makes, Books, TypeOK, Key
    <2> QED
      BY <1>0, <2>2, <2>3 DEF Resolved
  <1>2. ASSUME NEW p \in Phone, TrustAndNotify(p) PROVE Resolved(q)'
    <2>1. PICK n \in Request : Makes(n, "TRUST", p)
      BY <1>2, Making DEF TrustAndNotify
    <2> HIDE DEF Request, Id, AllKinds
    <2>2. state'[n] # "resolved" /\ done' = done
      BY <1>2, <2>1 DEF Makes, Books, TypeOK, TrustAndNotify, signald
    <2>3. q # n => state'[q] = state[q] /\ Key(q)' = Key(q)
      BY <2>1 DEF Makes, Books, TypeOK, Key
    <2> QED
      BY <1>0, <2>2, <2>3 DEF Resolved
  <1>3. ASSUME NEW r \in Request, WriteSucceeds(r) PROVE Resolved(q)'
    <2> HIDE DEF Request, Id, AllKinds
    <2>1. Key(q)' = Key(q) /\ done \subseteq done'
      BY <1>3 DEF WriteSucceeds, Register, IdOf, requests, signald, Key
    <2>2. state'[q] = "resolved" => state[q] = "resolved"
      BY <1>3 DEF WriteSucceeds, Register, IdOf, requests, Books, TypeOK
    <2> QED
      BY <1>0, <2>1, <2>2 DEF Resolved
  <1>4. ASSUME NEW r \in Request, WriteFails(r) PROVE Resolved(q)'
    <2> HIDE DEF Request, Id, AllKinds
    <2>1. Key(q)' = Key(q) /\ done \subseteq done'
      BY <1>4 DEF WriteFails, requests, signald, Key
    <2>2. state'[q] = "resolved" => state[q] = "resolved"
      BY <1>4 DEF WriteFails, requests, Books, TypeOK
    <2> QED
      BY <1>0, <2>1, <2>2 DEF Resolved
  <1>5. ASSUME NEW r \in Request, SignaldAnswers(r) PROVE Resolved(q)'
    <2> HIDE DEF Request, Id, AllKinds
    <2>1. Key(q)' = Key(q) /\ done \subseteq done'
      BY <1>5 DEF SignaldAnswers, requests, signald, Key
    <2>2. state'[q] = "resolved" => state[q] = "resolved"
      BY <1>5 DEF SignaldAnswers, requests, Books, TypeOK
    <2> QED
      BY <1>0, <2>1, <2>2 DEF Resolved
  <1>6. ASSUME NEW r \in Request, ReceiveSms(r) PROVE Resolved(q)'
    <2> HIDE DEF Request, Id, AllKinds
    <2>1. Key(q)' = Key(q) /\ done \subseteq done'
      BY <1>6 DEF ReceiveSms, requests, signald, Key
    <2>2. state'[q] = "resolved" => state[q] = "resolved"
      BY <1>6 DEF ReceiveSms, requests, Books, TypeOK
    <2> QED
      BY <1>0, <2>1, <2>2 DEF Resolved
  <1>7. ASSUME NEW r \in Request, SignaldVerifies(r) PROVE Resolved(q)'
    <2> HIDE DEF Request, Id, AllKinds
    <2>1. Key(q)' = Key(q) /\ done \subseteq done'
      BY <1>7 DEF SignaldVerifies, requests, signald, Key
    <2>2. state'[q] = "resolved" => state[q] = "resolved"
      BY <1>7 DEF SignaldVerifies, requests, Books, TypeOK
    <2> QED
      BY <1>0, <2>1, <2>2 DEF Resolved
  <1>8. ASSUME NEW r \in Request, NEW a \in Answer, HandleNothing(r, a)
        PROVE  Resolved(q)'
    <2> HIDE DEF Request, Id, AllKinds
    <2>1. Key(q)' = Key(q) /\ done \subseteq done'
      BY <1>8 DEF HandleNothing, Receive, requests, signald, Key
    <2>2. state'[q] = "resolved" => state[q] = "resolved"
      BY <1>8 DEF HandleNothing, Receive, requests, Books, TypeOK
    <2> QED
      BY <1>0, <2>1, <2>2 DEF Resolved
  <1>9. ASSUME NEW r \in Request, HandleAnswer(r) PROVE Resolved(q)'
    <2>1. PICK c \in Request : Finds(r, c)
      BY <1>9, Callback DEF HandleAnswer, Receive, Answer
    <2>2. c = r /\ Key(r) = r
      BY <1>9, <2>1 DEF HandleAnswer, Finds, Key, IdOf
    <2>3. Key(r) \in done
      BY <1>9, <2>2 DEF HandleAnswer, Receive, Books, Truthful, Honest, Key, IdOf
    <2> HIDE DEF Request, Id, AllKinds
    <2>4. Key(q)' = Key(q) /\ done' = done
      BY <1>9 DEF HandleAnswer, Receive, Key
    <2> QED
      BY <1>0, <1>9, <2>1, <2>2, <2>3, <2>4
         DEF HandleAnswer, Receive, Settle, Finds, Resolved, Books, TypeOK
  <1>10. ASSUME NEW r \in Request, HandleHealthcheck(r) PROVE Resolved(q)'
    <2>1. PICK c \in Request : Finds(r, c)
      BY <1>10, Callback DEF HandleHealthcheck, Receive, Answer
    <2>2. c = r /\ Key(r) = r
      BY <1>10, <2>1 DEF HandleHealthcheck, Finds, Key, IdOf
    <2>3. Key(r) \in done
      BY <1>10, <2>2 DEF HandleHealthcheck, Receive, Books, Truthful, Honest, Key, IdOf
    <2> HIDE DEF Request, Id, AllKinds
    <2>4. Key(q)' = Key(q) /\ done' = done
      BY <1>10 DEF HandleHealthcheck, Receive, Key
    <2> QED
      BY <1>0, <1>10, <2>1, <2>2, <2>3, <2>4
         DEF HandleHealthcheck, Receive, Settle, Finds, Resolved, Books, TypeOK
  <1>11. ASSUME NEW r \in Request, HandleVerification(r) PROVE Resolved(q)'
    <2>1. PICK c \in Request : Finds(r, c)
      BY <1>11, Callback DEF HandleVerification, Receive, Answer
    <2>2. Key(c) = Key(r)
      BY <1>11, <2>1 DEF HandleVerification, Finds, Key, IdOf
    <2>3. <<r, "success">> \in inbox => Key(r) \in done
      BY <1>11, <2>2 DEF HandleVerification, Receive, Books, Truthful, Honest, Key, IdOf
    <2> HIDE DEF Request, Id, AllKinds
    <2>4. Key(q)' = Key(q) /\ done' = done
      BY <1>11 DEF HandleVerification, Receive, Key
    <2> QED
      BY <1>0, <1>11, <2>1, <2>2, <2>3, <2>4
         DEF HandleVerification, Receive, Settle, Finds, Resolved, Books, TypeOK
  <1>12. ASSUME NEW r \in Request, HandleSendResults(r) PROVE Resolved(q)'
    <2> HIDE DEF Request, Id, AllKinds
    <2>1. Key(q)' = Key(q) /\ done \subseteq done'
      BY <1>12 DEF HandleSendResults, Receive, Delete, requests, signald, Key
    <2>2. state'[q] = "resolved" => state[q] = "resolved"
      BY <1>12 DEF HandleSendResults, Receive, Delete, requests, Books, TypeOK
    <2> QED
      BY <1>0, <2>1, <2>2 DEF Resolved
  <1>13. ASSUME NEW r \in Request, Deauthorize(r) PROVE Resolved(q)'
    <2> HIDE DEF Request, Id, AllKinds
    <2>1. Key(q)' = Key(q) /\ done \subseteq done'
      BY <1>13 DEF Deauthorize, requests, signald, Key
    <2>2. state'[q] = "resolved" => state[q] = "resolved"
      BY <1>13 DEF Deauthorize, requests, Books, TypeOK
    <2> QED
      BY <1>0, <2>1, <2>2 DEF Resolved
  <1>14. ASSUME NEW r \in Request, TrustAndResend(r) PROVE Resolved(q)'
    <2>1. PICK n \in Request : Makes(n, "TRUST", number[r])
      BY <1>14, Making DEF TrustAndResend
    <2> HIDE DEF Request, Id, AllKinds
    <2>2. state'[n] # "resolved" /\ done' = done
      BY <1>14, <2>1 DEF Makes, Books, TypeOK, TrustAndResend, signald
    <2>3. q # n => state'[q] = state[q] /\ Key(q)' = Key(q)
      BY <2>1 DEF Makes, Books, TypeOK, Key
    <2> QED
      BY <1>0, <2>2, <2>3 DEF Resolved
  <1>15. ASSUME NEW r \in Request, Resend(r) PROVE Resolved(q)'
    <2>1. PICK n \in Request : Makes(n, "SEND", number[r])
      BY <1>15, Making DEF Resend
    <2> HIDE DEF Request, Id, AllKinds
    <2>2. state'[n] # "resolved" /\ done' = done
      BY <1>15, <2>1 DEF Makes, Books, TypeOK, Resend, signald
    <2>3. q # n => state'[q] = state[q] /\ Key(q)' = Key(q)
      BY <2>1 DEF Makes, Books, TypeOK, Key
    <2> QED
      BY <1>0, <2>2, <2>3 DEF Resolved
  <1>16. ASSUME NEW r \in Request, TimeOut(r) PROVE Resolved(q)'
    <2> HIDE DEF Request, Id, AllKinds
    <2>1. Key(q)' = Key(q) /\ done \subseteq done'
      BY <1>16 DEF TimeOut, Fires, Settle, requests, signald, Key
    <2>2. state'[q] = "resolved" => state[q] = "resolved"
      BY <1>16 DEF TimeOut, Fires, Settle, requests, Books, TypeOK
    <2> QED
      BY <1>0, <2>1, <2>2 DEF Resolved
  <1>17. CASE UNCHANGED vars
    BY <1>0, <1>17 DEF vars, requests, signald, Resolved, Key
  <1> QED
    BY <1>1, <1>2, <1>3, <1>4, <1>5, <1>6, <1>7, <1>8,
       <1>9, <1>10, <1>11, <1>12, <1>13, <1>14, <1>15, <1>16, <1>17 DEF Next, Step, Handle

Trusted(r) ==
  trustedBy[r] # NoRequest =>
    /\ kind[trustedBy[r]] = "TRUST" /\ number[trustedBy[r]] = number[r]
    /\ trustedBy[r] \in done

\* A message held back is sent once its trust request is resolved.
LEMMA ResentNext ==
  Books /\ ResolvedDone /\ ResentAfterTrust /\ [Next]_vars => ResentAfterTrust'
  <1> SUFFICES ASSUME Books, ResolvedDone, ResentAfterTrust, [Next]_vars,
                      NEW q \in Request
               PROVE  Trusted(q)'
    BY DEF ResentAfterTrust, Trusted
  <1>0. Trusted(q)
    BY DEF ResentAfterTrust, Trusted
  <1>1. ASSUME NEW k \in AllKinds, NEW p \in Phone, Issue(k, p) PROVE Trusted(q)'
    <2>1. PICK n \in Request : Makes(n, k, p)
      BY <1>1, Making DEF Issue
    <2>2. Untouched(n)
      BY <2>1, BoundAssumption DEF Makes, Books, TypeOK, Fresh
    <2> HIDE DEF Request, Id, AllKinds, NoRequest
    <2>3. ASSUME NEW t \in Request, t # n
          PROVE  kind'[t] = kind[t] /\ number'[t] = number[t]
      BY <2>1, <2>3 DEF Makes, Books, TypeOK
    <2>4. done' = done
      BY <1>1 DEF Issue, signald
    <2>5. trustedBy' = trustedBy
      BY <1>1 DEF Issue, safetyNumbers
    <2> QED
      BY <1>0, <2>2, <2>3, <2>4, <2>5 DEF Trusted, Untouched, Books, TypeOK
  <1>2. ASSUME NEW p \in Phone, TrustAndNotify(p) PROVE Trusted(q)'
    <2>1. PICK n \in Request : Makes(n, "TRUST", p)
      BY <1>2, Making DEF TrustAndNotify
    <2>2. Untouched(n)
      BY <2>1, BoundAssumption DEF Makes, Books, TypeOK, Fresh
    <2> HIDE DEF Request, Id, AllKinds, NoRequest
    <2>3. ASSUME NEW t \in Request, t # n
          PROVE  kind'[t] = kind[t] /\ number'[t] = number[t]
      BY <2>1, <2>3 DEF Makes, Books, TypeOK
    <2>4. done' = done
      BY <1>2 DEF TrustAndNotify, signald
    <2>5. trustedBy' = trustedBy
      BY <1>2 DEF TrustAndNotify, safetyNumbers
    <2> QED
      BY <1>0, <2>2, <2>3, <2>4, <2>5 DEF Trusted, Untouched, Books, TypeOK
  <1>3. ASSUME NEW r \in Request, WriteSucceeds(r) PROVE Trusted(q)'
    <2> HIDE DEF Request, Id, AllKinds, NoRequest
    <2>1. UNCHANGED <<kind, number, trustedBy>> /\ done \subseteq done'
      BY <1>3 DEF WriteSucceeds, Register, IdOf, requests, signald, safetyNumbers
    <2> QED
      BY <1>0, <2>1 DEF Trusted
  <1>4. ASSUME NEW r \in Request, WriteFails(r) PROVE Trusted(q)'
    <2> HIDE DEF Request, Id, AllKinds, NoRequest
    <2>1. UNCHANGED <<kind, number, trustedBy>> /\ done \subseteq done'
      BY <1>4 DEF WriteFails, requests, signald, safetyNumbers
    <2> QED
      BY <1>0, <2>1 DEF Trusted
  <1>5. ASSUME NEW r \in Request, SignaldAnswers(r) PROVE Trusted(q)'
    <2> HIDE DEF Request, Id, AllKinds, NoRequest
    <2>1. UNCHANGED <<kind, number, trustedBy>> /\ done \subseteq done'
      BY <1>5 DEF SignaldAnswers, requests, signald, safetyNumbers
    <2> QED
      BY <1>0, <2>1 DEF Trusted
  <1>6. ASSUME NEW r \in Request, ReceiveSms(r) PROVE Trusted(q)'
    <2> HIDE DEF Request, Id, AllKinds, NoRequest
    <2>1. UNCHANGED <<kind, number, trustedBy>> /\ done \subseteq done'
      BY <1>6 DEF ReceiveSms, requests, signald, safetyNumbers
    <2> QED
      BY <1>0, <2>1 DEF Trusted
  <1>7. ASSUME NEW r \in Request, SignaldVerifies(r) PROVE Trusted(q)'
    <2> HIDE DEF Request, Id, AllKinds, NoRequest
    <2>1. UNCHANGED <<kind, number, trustedBy>> /\ done \subseteq done'
      BY <1>7 DEF SignaldVerifies, requests, signald, safetyNumbers
    <2> QED
      BY <1>0, <2>1 DEF Trusted
  <1>8. ASSUME NEW r \in Request, NEW a \in Answer, HandleNothing(r, a)
        PROVE  Trusted(q)'
    <2> HIDE DEF Request, Id, AllKinds, NoRequest
    <2>1. UNCHANGED <<kind, number, trustedBy>> /\ done \subseteq done'
      BY <1>8 DEF HandleNothing, Receive, requests, signald, safetyNumbers
    <2> QED
      BY <1>0, <2>1 DEF Trusted
  <1>9. ASSUME NEW r \in Request, HandleAnswer(r) PROVE Trusted(q)'
    <2> HIDE DEF Request, Id, AllKinds, NoRequest
    <2>1. UNCHANGED <<kind, number, trustedBy>> /\ done \subseteq done'
      BY <1>9 DEF HandleAnswer, Receive, Settle, requests, signald, safetyNumbers
    <2> QED
      BY <1>0, <2>1 DEF Trusted
  <1>10. ASSUME NEW r \in Request, HandleHealthcheck(r) PROVE Trusted(q)'
    <2> HIDE DEF Request, Id, AllKinds, NoRequest
    <2>1. UNCHANGED <<kind, number, trustedBy>> /\ done \subseteq done'
      BY <1>10
         DEF HandleHealthcheck, Receive, Delete, Settle, requests, signald,
             safetyNumbers
    <2> QED
      BY <1>0, <2>1 DEF Trusted
  <1>11. ASSUME NEW r \in Request, HandleVerification(r) PROVE Trusted(q)'
    <2> HIDE DEF Request, Id, AllKinds, NoRequest
    <2>1. UNCHANGED <<kind, number, trustedBy>> /\ done \subseteq done'
      BY <1>11 DEF HandleVerification, Receive, Settle, requests, signald, safetyNumbers
    <2> QED
      BY <1>0, <2>1 DEF Trusted
  <1>12. ASSUME NEW r \in Request, HandleSendResults(r) PROVE Trusted(q)'
    <2> HIDE DEF Request, Id, AllKinds, NoRequest
    <2>1. UNCHANGED <<kind, number, trustedBy>> /\ done \subseteq done'
      BY <1>12 DEF HandleSendResults, Receive, Delete, requests, signald, safetyNumbers
    <2> QED
      BY <1>0, <2>1 DEF Trusted
  <1>13. ASSUME NEW r \in Request, Deauthorize(r) PROVE Trusted(q)'
    <2> HIDE DEF Request, Id, AllKinds, NoRequest
    <2>1. UNCHANGED <<kind, number, trustedBy>> /\ done \subseteq done'
      BY <1>13 DEF Deauthorize, requests, signald, safetyNumbers
    <2> QED
      BY <1>0, <2>1 DEF Trusted
  <1>14. ASSUME NEW r \in Request, TrustAndResend(r) PROVE Trusted(q)'
    <2>1. PICK n \in Request : Makes(n, "TRUST", number[r])
      BY <1>14, Making DEF TrustAndResend
    <2>2. Untouched(n)
      BY <2>1, BoundAssumption DEF Makes, Books, TypeOK, Fresh
    <2> HIDE DEF Request, Id, AllKinds, NoRequest
    <2>3. ASSUME NEW t \in Request, t # n
          PROVE  kind'[t] = kind[t] /\ number'[t] = number[t]
      BY <2>1, <2>3 DEF Makes, Books, TypeOK
    <2>4. done' = done
      BY <1>14 DEF TrustAndResend, signald
    <2>5. trustedBy' = trustedBy
      BY <1>14 DEF TrustAndResend, safetyNumbers
    <2> QED
      BY <1>0, <2>2, <2>3, <2>4, <2>5 DEF Trusted, Untouched, Books, TypeOK
  <1>15. ASSUME NEW r \in Request, Resend(r) PROVE Trusted(q)'
    <2>1. PICK n \in Request : Makes(n, "SEND", number[r])
      BY <1>15, Making DEF Resend
    <2>2. Untouched(n)
      BY <2>1, BoundAssumption DEF Makes, Books, TypeOK, Fresh
    <2> HIDE DEF Request, Id, AllKinds, NoRequest
    <2>3. ASSUME NEW t \in Request, t # n
          PROVE  kind'[t] = kind[t] /\ number'[t] = number[t]
      BY <2>1, <2>3 DEF Makes, Books, TypeOK
    <2>4. done' = done
      BY <1>15 DEF Resend, signald
    <2>5. CASE q = n
      <3>1. kind[r] = "TRUST" /\ state[r] = "resolved" /\ r # n
        BY <1>15, <2>2 DEF Resend, Books, Truthful, Honest, Untouched
      <3>2. r \in done
        BY <3>1 DEF ResolvedDone, Resolved, Key, IdOf
      <3>3. trustedBy'[n] = r /\ number'[n] = number[r]
        BY <1>15, <2>1 DEF Resend, Makes, Books, TypeOK
      <3> QED
        BY <2>3, <2>4, <2>5, <3>1, <3>2, <3>3 DEF Trusted
    <2>6. CASE q # n
      <3>1. trustedBy'[q] = trustedBy[q]
        BY <1>15, <2>1, <2>6 DEF Resend, Makes, Books, TypeOK
      <3> QED
        BY <1>0, <2>2, <2>3, <2>4, <2>6, <3>1 DEF Trusted, Untouched, Books, TypeOK
    <2> QED
      BY <2>5, <2>6
  <1>16. ASSUME NEW r \in Request, TimeOut(r) PROVE Trusted(q)'
    <2> HIDE DEF Request, Id, AllKinds, NoRequest
    <2>1. UNCHANGED <<kind, number, trustedBy>> /\ done \subseteq done'
      BY <1>16 DEF TimeOut, Fires, Settle, requests, signald, safetyNumbers
    <2> QED
      BY <1>0, <2>1 DEF Trusted
  <1>17. CASE UNCHANGED vars
    BY <1>0, <1>17 DEF vars, requests, signald, safetyNumbers, Trusted
  <1> QED
    BY <1>1, <1>2, <1>3, <1>4, <1>5, <1>6, <1>7, <1>8,
       <1>9, <1>10, <1>11, <1>12, <1>13, <1>14, <1>15, <1>16, <1>17 DEF Next, Step, Handle

\* At the start nothing is resolved and nothing was held back.
LEMMA ResolvedInit == Init => ResolvedDone /\ ResentAfterTrust
  BY DEF Init, ResolvedDone, Resolved, ResentAfterTrust

\* A message that waits for a new safety number is sent after it is trusted.
THEOREM TrustComesFirst == Spec => []ResentAfterTrust
  BY BooksInit, BooksNext, ResolvedInit, ResolvedNext, ResentNext, PTL DEF Spec

-----------------------------------------------------------------------------
(* SignalCallbacks implements Promises. *)

\* A step that only settles one promise maps to a step of Promises.
LEMMA SettleMaps ==
  ASSUME Books, NEW c \in Request, c <= issued, NEW o \in {"resolved", "rejected"},
         Settle(c, o), UNCHANGED <<kind, number, done>>,
         o = "resolved" => Key(c) \in done
  PROVE  [Promised!Next]_(Promised!vars)
  <1>1. WellMade(c)
    BY DEF Books, Made
  <1> HIDE DEF Request, Id, AllKinds
  <1>2. effect' = effect
    BY DEF effect, Key
  <1>3. CASE state[c] = "pending"
    <2>1. kind[c] \in Awaited
      BY <1>1, <1>3 DEF WellMade, AllKinds
    <2>2. outcome[c] = "pending" /\ effect[c] = Key(c)
      BY <1>3, <2>1 DEF outcome, effect
    <2>3. state' = [state EXCEPT ![c] = o] /\ state \in [Request -> {"none", "writing",
                     "pending", "written", "resolved", "rejected"}]
      BY <1>3 DEF Settle, Books, TypeOK
    <2> HIDE DEF Awaited
    <2>4. outcome' = [outcome EXCEPT ![c] = o]
      BY <2>1, <2>3 DEF outcome
    <2>5. Promised!Resolve(c) \/ Promised!Reject(c)
      BY <1>2, <2>2, <2>4 DEF Promised!Resolve, Promised!Reject
    <2> QED
      BY <2>5 DEF Promised!Next
  <1>4. CASE state[c] # "pending"
    <2>1. state' = state
      BY <1>4 DEF Settle, Books, TypeOK
    <2>2. outcome' = outcome
      BY <2>1 DEF outcome
    <2> QED
      BY <1>2, <2>2 DEF Promised!vars
  <1> QED
    BY <1>3, <1>4

\* A step that leaves promises alone maps to a stutter.
LEMMA StutterMaps ==
  ASSUME UNCHANGED <<kind, number, state, done>>
  PROVE  [Promised!Next]_(Promised!vars)
  <1>1. outcome' = outcome /\ effect' = effect
    BY DEF outcome, effect, Key
  <1> QED
    BY <1>1 DEF Promised!vars

\* A new request maps to a call, if its answer is awaited.
LEMMA MakeMaps ==
  ASSUME Books, NEW k \in AllKinds, NEW p, NEW n \in Request, Makes(n, k, p), done' = done
  PROVE  [Promised!Next]_(Promised!vars)
  <1>1. Untouched(n)
    BY BoundAssumption DEF Makes, Books, TypeOK, Fresh
  <1>2. IdOf(k, p, n) \in Id
    BY DEF Makes
  <1> HIDE DEF Request, Id, AllKinds
  <1>3. kind'[n] = k /\ number'[n] = p /\ state'[n] \in {"writing", "pending"}
    BY DEF Makes, Books, TypeOK
  <1>4. ASSUME NEW r \in Request, r # n
        PROVE  kind'[r] = kind[r] /\ number'[r] = number[r] /\ state'[r] = state[r]
    BY <1>4 DEF Makes, Books, TypeOK
  <1>5. outcome[n] = "none" /\ effect[n] = NoPhone
    BY <1>1 DEF outcome, effect, Untouched
  <1>6. CASE k = "SEND"
    <2>1. outcome' = outcome
      BY <1>3, <1>4, <1>5, <1>6 DEF outcome
    <2>2. effect' = effect
      BY <1>3, <1>4, <1>5, <1>6 DEF effect, Key
    <2> QED
      BY <2>1, <2>2 DEF Promised!vars
  <1>7. CASE k # "SEND"
    <2>1. k \in Awaited
      BY <1>7 DEF AllKinds
    <2>2. outcome' = [outcome EXCEPT ![n] = "pending"]
      BY <1>3, <1>4, <2>1 DEF outcome
    <2>3. effect' = [effect EXCEPT ![n] = IdOf(k, p, n)]
      BY <1>3, <1>4, <2>1 DEF effect, Key
    <2>4. Promised!Ask(n, IdOf(k, p, n))
      BY <1>5, <2>2, <2>3 DEF Promised!Ask
    <2> QED
      BY <1>2, <2>4 DEF Promised!Next
  <1> QED
    BY <1>6, <1>7

\* Every step maps to a step of Promises or to a stutter.
LEMMA StepMaps == Books /\ [Next]_vars => [Promised!Next]_(Promised!vars)
  <1> SUFFICES ASSUME Books, [Next]_vars
               PROVE  [Promised!Next]_(Promised!vars)
    OBVIOUS
  <1>1. ASSUME NEW k \in AllKinds, NEW p \in Phone, Issue(k, p)
        PROVE  [Promised!Next]_(Promised!vars)
    <2>1. PICK n \in Request : Makes(n, k, p)
      BY <1>1, Making DEF Issue
    <2>2. done' = done
      BY <1>1 DEF Issue, signald
    <2> QED
      BY <2>1, <2>2, MakeMaps
  <1>2. ASSUME NEW p \in Phone, TrustAndNotify(p) PROVE [Promised!Next]_(Promised!vars)
    <2>1. PICK n \in Request : Makes(n, "TRUST", p)
      BY <1>2, Making DEF TrustAndNotify
    <2>2. done' = done
      BY <1>2 DEF TrustAndNotify, signald
    <2> QED
      BY <2>1, <2>2, MakeMaps
  <1>3. ASSUME NEW r \in Request, WriteSucceeds(r) PROVE [Promised!Next]_(Promised!vars)
    <2> HIDE DEF Request, Id, AllKinds
    <2>1. UNCHANGED <<kind, number, done>>
      BY <1>3 DEF WriteSucceeds
    <2>2. effect' = effect
      BY <2>1 DEF effect, Key
    <2>3. /\ \A q \in Request : q # r => state'[q] = state[q]
          /\ kind[r] \in Awaited =>
               state'[r] = IF state[r] = "writing" THEN "pending" ELSE state[r]
      BY <1>3 DEF WriteSucceeds, Books, TypeOK
    <2>4. outcome' = outcome
      BY <2>1, <2>3 DEF outcome
    <2> QED
      BY <2>1, <2>2, <2>4 DEF Promised!vars
  <1>4. ASSUME NEW r \in Request, WriteFails(r) PROVE [Promised!Next]_(Promised!vars)
    <2>1. WellMade(r)
      BY <1>4, Known DEF WriteFails, Books, Made
    <2> HIDE DEF Request, Id, AllKinds
    <2>2. UNCHANGED <<kind, number, done>>
      BY <1>4 DEF WriteFails, signald
    <2>3. effect' = effect
      BY <2>2 DEF effect, Key
    <2>4. CASE state[r] = "writing" /\ kind[r] \in Awaited
      <3>1. state' = [state EXCEPT ![r] = "rejected"]
        BY <1>4, <2>4 DEF WriteFails
      <3>2. outcome[r] = "pending"
        BY <2>4 DEF outcome
      <3>3. outcome' = [outcome EXCEPT ![r] = "rejected"]
        BY <2>2, <2>4, <3>1 DEF outcome, Books, TypeOK
      <3> QED
        BY <2>2, <2>3, <3>2, <3>3 DEF Promised!Reject, Promised!Next
    <2>5. CASE state[r] # "writing" \/ kind[r] \notin Awaited
      <3>1. outcome' = outcome
        BY <1>4, <2>2, <2>5 DEF WriteFails, outcome, Books, TypeOK
      <3> QED
        BY <2>2, <2>3, <3>1 DEF Promised!vars
    <2> QED
      BY <2>4, <2>5
  <1>5. ASSUME NEW r \in Request, SignaldAnswers(r)
        PROVE  [Promised!Next]_(Promised!vars)
    <2>1. r \in Id
      BY <1>5, Known DEF SignaldAnswers
    <2>2. done' \in {done, done \cup {r}} /\ UNCHANGED <<kind, number, state>>
      BY <1>5 DEF SignaldAnswers, requests
    <2>3. outcome' = outcome /\ effect' = effect
      BY <2>2 DEF outcome, effect, Key
    <2> QED
      BY <2>1, <2>2, <2>3 DEF Promised!Perform, Promised!Next, Promised!vars
  <1>6. ASSUME NEW r \in Request, ReceiveSms(r) PROVE [Promised!Next]_(Promised!vars)
    <2>1. UNCHANGED <<kind, number, state, done>>
      BY <1>6 DEF ReceiveSms, requests, signald
    <2> QED
      BY <2>1, StutterMaps
  <1>7. ASSUME NEW r \in Request, SignaldVerifies(r)
        PROVE  [Promised!Next]_(Promised!vars)
    <2>1. number[r] \in Id
      BY <1>7, Known DEF SignaldVerifies
    <2>2. done' \in {done, done \cup {number[r]}} /\ UNCHANGED <<kind, number, state>>
      BY <1>7 DEF SignaldVerifies, requests
    <2>3. outcome' = outcome /\ effect' = effect
      BY <2>2 DEF outcome, effect, Key
    <2> QED
      BY <2>1, <2>2, <2>3 DEF Promised!Perform, Promised!Next, Promised!vars
  <1>8. ASSUME NEW r \in Request, NEW a \in Answer, HandleNothing(r, a)
        PROVE  [Promised!Next]_(Promised!vars)
    <2>1. UNCHANGED <<kind, number, state, done>>
      BY <1>8 DEF HandleNothing, Receive, requests, signald
    <2> QED
      BY <2>1, StutterMaps
  <1>9. ASSUME NEW r \in Request, HandleAnswer(r) PROVE [Promised!Next]_(Promised!vars)
    <2>1. PICK c \in Request : Finds(r, c)
      BY <1>9, Callback DEF HandleAnswer, Receive, Answer
    <2>2. Key(r) = r
      BY <1>9, <2>1 DEF HandleAnswer, Finds, Key, IdOf
    <2>3. Key(c) \in done
      BY <1>9, <2>1, <2>2
         DEF HandleAnswer, Receive, Books, Truthful, Honest, Key, IdOf, Finds
    <2> HIDE DEF Request, Id, AllKinds
    <2>4. \E o \in {"resolved", "rejected"} :
            Settle(c, o) /\ (o = "resolved" => Key(c) \in done)
      BY <1>9, <2>1, <2>2, <2>3 DEF HandleAnswer, Receive, Finds
    <2>5. UNCHANGED <<kind, number, done>>
      BY <1>9 DEF HandleAnswer, Receive
    <2> QED
      BY <2>1, <2>4, <2>5, SettleMaps DEF Finds
  <1>10. ASSUME NEW r \in Request, HandleHealthcheck(r)
         PROVE  [Promised!Next]_(Promised!vars)
    <2>1. PICK c \in Request : Finds(r, c)
      BY <1>10, Callback DEF HandleHealthcheck, Receive, Answer
    <2>2. Key(r) = r
      BY <1>10, <2>1 DEF HandleHealthcheck, Finds, Key, IdOf
    <2>3. Key(c) \in done
      BY <1>10, <2>1, <2>2
         DEF HandleHealthcheck, Receive, Books, Truthful, Honest, Key, IdOf, Finds
    <2> HIDE DEF Request, Id, AllKinds
    <2>4. \E o \in {"resolved", "rejected"} :
            Settle(c, o) /\ (o = "resolved" => Key(c) \in done)
      BY <1>10, <2>1, <2>2, <2>3 DEF HandleHealthcheck, Receive, Finds
    <2>5. UNCHANGED <<kind, number, done>>
      BY <1>10 DEF HandleHealthcheck, Receive
    <2> QED
      BY <2>1, <2>4, <2>5, SettleMaps DEF Finds
  <1>11. ASSUME NEW r \in Request, HandleVerification(r)
         PROVE  [Promised!Next]_(Promised!vars)
    <2>1. PICK c \in Request : Finds(r, c)
      BY <1>11, Callback DEF HandleVerification, Receive, Answer
    <2>2. Key(c) = Key(r)
      BY <1>11, <2>1 DEF HandleVerification, Finds, Key, IdOf
    <2>3. <<r, "success">> \in inbox => Key(r) \in done
      BY <1>11, <2>1, <2>2
         DEF HandleVerification, Receive, Books, Truthful, Honest, Key, IdOf, Finds
    <2> HIDE DEF Request, Id, AllKinds
    <2>4. \E o \in {"resolved", "rejected"} :
            Settle(c, o) /\ (o = "resolved" => Key(c) \in done)
      BY <1>11, <2>1, <2>2, <2>3 DEF HandleVerification, Receive, Finds
    <2>5. UNCHANGED <<kind, number, done>>
      BY <1>11 DEF HandleVerification, Receive
    <2> QED
      BY <2>1, <2>4, <2>5, SettleMaps DEF Finds
  <1>12. ASSUME NEW r \in Request, HandleSendResults(r)
         PROVE  [Promised!Next]_(Promised!vars)
    <2>1. UNCHANGED <<kind, number, state, done>>
      BY <1>12 DEF HandleSendResults, Receive, Delete, requests, signald
    <2> QED
      BY <2>1, StutterMaps
  <1>13. ASSUME NEW r \in Request, Deauthorize(r) PROVE [Promised!Next]_(Promised!vars)
    <2>1. UNCHANGED <<kind, number, state, done>>
      BY <1>13 DEF Deauthorize, requests, signald
    <2> QED
      BY <2>1, StutterMaps
  <1>14. ASSUME NEW r \in Request, TrustAndResend(r)
         PROVE  [Promised!Next]_(Promised!vars)
    <2>1. PICK n \in Request : Makes(n, "TRUST", number[r])
      BY <1>14, Making DEF TrustAndResend
    <2>2. done' = done
      BY <1>14 DEF TrustAndResend, signald
    <2> QED
      BY <2>1, <2>2, MakeMaps
  <1>15. ASSUME NEW r \in Request, Resend(r) PROVE [Promised!Next]_(Promised!vars)
    <2>1. PICK n \in Request : Makes(n, "SEND", number[r])
      BY <1>15, Making DEF Resend
    <2>2. done' = done
      BY <1>15 DEF Resend, signald
    <2> QED
      BY <2>1, <2>2, MakeMaps
  <1>16. ASSUME NEW r \in Request, TimeOut(r) PROVE [Promised!Next]_(Promised!vars)
    <2>1. r <= issued
      BY <1>16, Known DEF TimeOut, Fires
    <2>2. Settle(r, "rejected") /\ UNCHANGED <<kind, number, done>>
      BY <1>16 DEF TimeOut, Fires, signald
    <2> QED
      BY <2>1, <2>2, SettleMaps
  <1>17. CASE UNCHANGED vars
    <2>1. UNCHANGED <<kind, number, state, done>>
      BY <1>17 DEF vars, requests, signald
    <2> QED
      BY <2>1, StutterMaps
  <1> QED
    BY <1>1, <1>2, <1>3, <1>4, <1>5, <1>6, <1>7, <1>8,
       <1>9, <1>10, <1>11, <1>12, <1>13, <1>14, <1>15, <1>16, <1>17 DEF Next, Step, Handle

\* The initial states map to those of Promises.
LEMMA InitMaps == Init => Promised!Init
  BY DEF Init, Promised!Init, outcome, effect

\* Promises settle once, and are resolved only when signald has done what was
\* asked, whatever is lost, delayed or reordered.
THEOREM CallbacksKeepPromises == Spec => PromisesKept
  BY BooksInit, BooksNext, InitMaps, StepMaps, PTL
     DEF Spec, PromisesKept, Promised!Spec

=============================================================================
