-------------------------- MODULE SignalCallbacks --------------------------
(***************************************************************************)
(* Requests to signald and the callbacks that wait for its answers         *)
(* (src/app/signal/callbacks.js, the requests of src/app/signal/index.js,  *)
(* and src/app/registrar/safetyNumbers.js, which answers an identity       *)
(* failure with a request of its own).                                     *)
(*                                                                         *)
(* A request is written to a socket, and a callback is registered under    *)
(* its type and an id, along with a timer that deletes the callback and    *)
(* rejects the caller's promise.  Answers come back in any order, or never *)
(* (nothing obliges signald to answer, nor an answer to be handled): a     *)
(* response cut in two by the socket is not parsed.  The id is unique to   *)
(* the request except for VERIFY, whose id is the phone number.  Requests  *)
(* are numbered in the order in which they are made.                       *)
(***************************************************************************)
EXTENDS Naturals

CONSTANTS
  Phone,       \* phone numbers: channels' or members'
  NoPhone,     \* stands for "no number" in a request not made yet
  Kinds,       \* the kinds of requests made in this instance
  MaxRequests  \* bound: requests made in a behaviour

Awaited == {"HEALTHCHECK", "IS_ALIVE", "TRUST", "VERIFY"}
AllKinds == Awaited \cup {"SEND"}

Request == 1..MaxRequests
NoRequest == 0

ASSUME KindsAssumption == Kinds \subseteq AllKinds
ASSUME BoundAssumption == MaxRequests \in Nat
ASSUME PhoneAssumption ==
  NoPhone \notin Phone \cup Request /\ Phone \cap (Request \cup {NoRequest}) = {}

VARIABLES
  issued,     \* number of requests made so far
  kind,       \* type of each request
  number,     \* whose fingerprint, health or registration it is about
  state,      \* the promise its caller has
  registry,   \* the callback registered under each id, by its request
  timers,     \* requests whose timer has not fired
  writing,    \* requests whose write has not been acknowledged
  wire,       \* requests on their way to signald
  verifying,  \* registrations whose code was sent to signald
  inbox,      \* answers on their way back
  done,       \* what signald has done: requests, and numbers it verified
  recovering, \* sends that failed for an identity, being looked into
  followUp,   \* trust requests whose caller sends a message afterwards
  trustedBy   \* for such a message, the trust request it waited for

requests == <<issued, kind, number, state>>
callbacks == <<registry, timers>>
signald == <<wire, verifying, inbox, done>>
safetyNumbers == <<recovering, followUp, trustedBy>>
vars == <<requests, callbacks, writing, signald, safetyNumbers>>

Id == Request \cup Phone
Answer == {"ok", "identityFailure", "success", "error"}

TypeOK ==
  /\ issued \in 0..MaxRequests
  /\ kind \in [Request -> AllKinds \cup {"NONE"}]
  /\ number \in [Request -> Phone \cup {NoPhone}]
  /\ state \in [Request -> {"none", "writing", "pending", "written", "resolved", "rejected"}]
  /\ registry \in [Id -> Request \cup {NoRequest}]
  /\ timers \subseteq Request
  /\ writing \subseteq Request
  /\ wire \subseteq Request
  /\ verifying \subseteq Request
  /\ inbox \subseteq Request \X Answer
  /\ done \subseteq Id
  /\ recovering \subseteq Request
  /\ followUp \subseteq Request
  /\ trustedBy \in [Request -> Request \cup {NoRequest}]

Init ==
  /\ issued = 0
  /\ kind = [r \in Request |-> "NONE"]
  /\ number = [r \in Request |-> NoPhone]
  /\ state = [r \in Request |-> "none"]
  /\ registry = [i \in Id |-> NoRequest]
  /\ timers = {} /\ writing = {} /\ wire = {} /\ verifying = {} /\ inbox = {} /\ done = {}
  /\ recovering = {} /\ followUp = {}
  /\ trustedBy = [r \in Request |-> NoRequest]

-----------------------------------------------------------------------------
(* The registry. *)

\* mutant: trust callbacks are kept by the number they are about
IdByNumber(k, p, r) == IF k \in {"TRUST", "VERIFY"} THEN p ELSE r

IdOf(k, p, r) == IF k = "VERIFY" THEN p ELSE r

Key(r) == IdOf(kind[r], number[r], r)

\* mutant: only callbacks that can be rejected get a timer
RegisterRejectable(k, p, r) ==
  /\ registry' = [registry EXCEPT ![IdOf(k, p, r)] = r]
  /\ timers' = IF k = "SEND" THEN timers ELSE timers \cup {r}

\* register
Register(k, p, r) ==
  /\ registry' = [registry EXCEPT ![IdOf(k, p, r)] = r]
  /\ timers' = timers \cup {r}

\* A promise settles once: to settle it again has no effect.
Settle(r, outcome) ==
  state' = [state EXCEPT ![r] = IF state[r] = "pending" THEN outcome ELSE state[r]]

\* Timers of one type are equally long, so those of VERIFY, which may share an
\* id, fire in the order they were set.
Fires(r) ==
  /\ r \in timers
  /\ timers' = timers \ {r}
  /\ kind[r] = "VERIFY" => \A q \in timers : kind[q] = "VERIFY" => r <= q
  /\ UNCHANGED <<issued, kind, number, writing, signald, safetyNumbers>>

\* mutant: the timer clears the registry
TimeOutClearing(r) ==
  /\ Fires(r)
  /\ registry' = [i \in Id |-> NoRequest]
  /\ Settle(r, "rejected")

\* mutant: the timer leaves a request alone that another one has replaced
TimeOutUnlessReplaced(r) ==
  /\ Fires(r)
  /\ registry' = [registry EXCEPT ![Key(r)] = NoRequest]
  /\ IF registry[Key(r)] = r THEN Settle(r, "rejected") ELSE UNCHANGED state

\* the callback of register's util.wait
TimeOut(r) ==
  /\ Fires(r)
  /\ registry' = [registry EXCEPT ![Key(r)] = NoRequest]
  /\ Settle(r, "rejected")

-----------------------------------------------------------------------------
(* Making requests. *)

\* The next request: a healthcheck or a registration does not wait for its
\* write before it registers the callback, the others do.
Make(k, p) ==
  LET r == issued + 1 IN
  /\ k \in Kinds /\ issued < MaxRequests
  /\ issued' = r
  /\ kind' = [kind EXCEPT ![r] = k]
  /\ number' = [number EXCEPT ![r] = p]
  /\ writing' = writing \cup {r}
  /\ IF k \in {"HEALTHCHECK", "VERIFY"}
       THEN Register(k, p, r) /\ state' = [state EXCEPT ![r] = "pending"]
       ELSE UNCHANGED callbacks /\ state' = [state EXCEPT ![r] = "writing"]

\* healthcheck, isAlive, register, sendMessage, and trust as ADD calls it
Issue(k, p) == Make(k, p) /\ UNCHANGED <<signald, safetyNumbers>>

WriteSucceeds(r) ==
  /\ r \in writing
  /\ writing' = writing \ {r}
  /\ wire' = wire \cup {r}
  /\ IF state[r] = "writing"
       THEN /\ Register(kind[r], number[r], r)
            /\ state' = [state EXCEPT ![r] = IF kind[r] = "SEND" THEN "written" ELSE "pending"]
       ELSE UNCHANGED <<callbacks, state>>
  /\ UNCHANGED <<issued, kind, number, verifying, inbox, done, safetyNumbers>>

\* Nobody hears that the write of a healthcheck or a registration failed.
WriteFails(r) ==
  /\ r \in writing
  /\ writing' = writing \ {r}
  /\ state' = [state EXCEPT ![r] = IF state[r] = "writing" THEN "rejected" ELSE state[r]]
  /\ UNCHANGED <<issued, kind, number, callbacks, signald, safetyNumbers>>

-----------------------------------------------------------------------------
(* signald, and the text messages with the codes it asks for. *)

SignaldAnswers(r) ==
  /\ r \in wire /\ kind[r] # "VERIFY"
  /\ wire' = wire \ {r}
  /\ done' = done \cup {r}
  /\ \E a \in IF kind[r] = "SEND" THEN {"ok", "identityFailure"} ELSE {"ok"} :
       inbox' = inbox \cup {<<r, a>>}
  /\ UNCHANGED <<requests, callbacks, writing, verifying, safetyNumbers>>

\* The code for registration r is texted to the number: handleSms, verify
ReceiveSms(r) ==
  /\ r \in wire /\ kind[r] = "VERIFY"
  /\ wire' = wire \ {r}
  /\ verifying' = verifying \cup {r}
  /\ UNCHANGED <<requests, callbacks, writing, inbox, done, safetyNumbers>>

SignaldVerifies(r) ==
  /\ r \in verifying
  /\ verifying' = verifying \ {r}
  /\ \/ done' = done \cup {number[r]} /\ inbox' = inbox \cup {<<r, "success">>}
     \/ inbox' = inbox \cup {<<r, "error">>} /\ UNCHANGED done
  /\ UNCHANGED <<requests, callbacks, writing, wire, safetyNumbers>>

-----------------------------------------------------------------------------
(* Answers: handle.  The callback is that registered under the answer's id. *)

Receive(r, a) ==
  /\ <<r, a>> \in inbox
  /\ inbox' = inbox \ {<<r, a>>}
  /\ UNCHANGED <<issued, kind, number, timers, writing, wire, verifying, done, followUp,
                 trustedBy>>

Delete(id) == registry' = [registry EXCEPT ![id] = NoRequest]

\* No callback is registered for the answer.
HandleNothing(r, a) ==
  /\ Receive(r, a)
  /\ registry[Key(r)] = NoRequest
  /\ UNCHANGED <<state, registry, recovering>>

\* _handleIsAliveResponse, _handleTrustResponse: the callback stays
HandleAnswer(r) ==
  /\ Receive(r, "ok")
  /\ kind[r] \in {"IS_ALIVE", "TRUST"}
  /\ registry[Key(r)] # NoRequest
  /\ Settle(registry[Key(r)], "resolved")
  /\ UNCHANGED <<registry, recovering>>

\* _handleHealthcheckResponse
HandleHealthcheck(r) ==
  /\ Receive(r, "ok")
  /\ kind[r] = "HEALTHCHECK"
  /\ registry[Key(r)] # NoRequest
  /\ Delete(Key(r))
  /\ Settle(registry[Key(r)], "resolved")
  /\ UNCHANGED recovering

\* _handleVerifyResponse: the callback stays, and another code may be tried
HandleVerification(r) ==
  /\ registry[Key(r)] # NoRequest
  /\ \/ Receive(r, "success") /\ Settle(registry[Key(r)], "resolved")
     \/ Receive(r, "error") /\ Settle(registry[Key(r)], "rejected")
  /\ UNCHANGED <<registry, recovering>>

\* mutant: nobody looks whether a callback is left for the answer
HandleSendResultsUnchecked(r) ==
  /\ kind[r] = "SEND"
  /\ \/ Receive(r, "ok") /\ UNCHANGED recovering
     \/ Receive(r, "identityFailure") /\ recovering' = recovering \cup {registry[Key(r)]}
  /\ Delete(Key(r))
  /\ UNCHANGED state

\* _handleSendResponse
HandleSendResults(r) ==
  /\ registry[Key(r)] # NoRequest
  /\ kind[r] = "SEND"
  /\ \/ Receive(r, "ok") /\ UNCHANGED recovering
     \/ Receive(r, "identityFailure") /\ recovering' = recovering \cup {registry[Key(r)]}
  /\ Delete(Key(r))
  /\ UNCHANGED state

-----------------------------------------------------------------------------
(* Changed safety numbers: updateFingerprint and trustAndResend. *)

\* An admin is deauthorized, or a query fails: nothing is sent.
Deauthorize(s) ==
  /\ s \in recovering
  /\ recovering' = recovering \ {s}
  /\ UNCHANGED <<requests, callbacks, writing, signald, followUp, trustedBy>>

\* trustAndResend for the recipient of send s
TrustAndResend(s) ==
  /\ s \in recovering
  /\ recovering' = recovering \ {s}
  /\ Make("TRUST", number[s])
  /\ followUp' = followUp \cup {issued'}
  /\ UNCHANGED <<signald, trustedBy>>

\* handleInboundIdentityFailure: the same for a notice to the member
TrustAndNotify(p) ==
  /\ Make("TRUST", p)
  /\ followUp' = followUp \cup {issued'}
  /\ UNCHANGED <<signald, recovering, trustedBy>>

\* mutant: the message is sent again without waiting for the trust request
ResendAtOnce(t) ==
  /\ t \in followUp
  /\ followUp' = followUp \ {t}
  /\ Make("SEND", number[t])
  /\ trustedBy' = [trustedBy EXCEPT ![issued'] = t]
  /\ UNCHANGED <<signald, recovering>>

\* trust resolved: the message is sent
Resend(t) ==
  /\ t \in followUp /\ state[t] = "resolved"
  /\ followUp' = followUp \ {t}
  /\ Make("SEND", number[t])
  /\ trustedBy' = [trustedBy EXCEPT ![issued'] = t]
  /\ UNCHANGED <<signald, recovering>>

Handle(r) ==
  \/ \E a \in Answer : HandleNothing(r, a)
  \/ HandleAnswer(r) \/ HandleHealthcheck(r) \/ HandleVerification(r) \/ HandleSendResults(r)

Step(r) ==
  \/ WriteSucceeds(r) \/ WriteFails(r)
  \/ SignaldAnswers(r) \/ ReceiveSms(r) \/ SignaldVerifies(r)
  \/ Handle(r)
  \/ Deauthorize(r) \/ TrustAndResend(r) \/ Resend(r)
  \/ TimeOut(r)

Next ==
  \/ \E k \in AllKinds, p \in Phone : Issue(k, p)
  \/ \E p \in Phone : TrustAndNotify(p)
  \/ \E r \in Request : Step(r)

Spec == Init /\ [][Next]_vars

\* Timers fire.  Nothing else is sure to happen.
FairSpec == Spec /\ \A r \in Request : WF_vars(TimeOut(r))

-----------------------------------------------------------------------------
(* Properties. *)

\* While a caller waits for an answer that has an id of its own, the callback
\* that will find the caller is registered: no other request or timer took it.
PendingRegistered ==
  \A r \in Request : state[r] = "pending" /\ kind[r] # "VERIFY" => registry[Key(r)] = r

\* Every callback has a timer that will delete it: the registry does not fill up
\* with requests that are never answered.
EntriesExpire ==
  \A i \in Id : registry[i] # NoRequest => registry[i] \in timers /\ Key(registry[i]) = i

\* A message that waits for its recipient's new safety number is sent only after
\* signald trusted it.
ResentAfterTrust ==
  \A r \in Request : trustedBy[r] # NoRequest =>
    /\ kind[trustedBy[r]] = "TRUST" /\ number[trustedBy[r]] = number[r]
    /\ trustedBy[r] \in done

\* Every promise settles once its request is registered, whatever is lost.
PromisesSettle ==
  \A r \in Request : state[r] = "pending" ~> state[r] \in {"resolved", "rejected"}

\* What a caller is promised: see Promises.  A send is no promise of an answer.
outcome == [r \in Request |->
              IF kind[r] \notin Awaited THEN "none"
              ELSE IF state[r] = "writing" THEN "pending" ELSE state[r]]
effect == [r \in Request |->
             IF kind[r] \notin Awaited THEN NoPhone ELSE Key(r)]

Promised == INSTANCE Promises
              WITH Call <- Request, Effect <- Id, NoEffect <- NoPhone

\* Promises settle once, and resolve only when signald has done what was asked.
PromisesKept == Promised!Spec

=============================================================================
