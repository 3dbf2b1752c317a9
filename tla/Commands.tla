------------------------------ MODULE Commands ------------------------------
(***************************************************************************)
(* What a message's text asks for, and whether its sender may ask for it   *)
(* (src/app/dispatcher/commands/constants.js and parse.js, and the checks  *)
(* that execute.js makes before it runs a command).                        *)
(*                                                                         *)
(* A text is abstracted to the keywords it begins with, whatever their     *)
(* language, and to what follows the longest of them.                      *)
(***************************************************************************)
EXTENDS Naturals, FiniteSets

CONSTANTS
  Person,         \* phone numbers of members and others
  MaxVouchLevel   \* the highest level that VOUCH LEVEL accepts

Language == <<"EN", "ES", "FR", "DE">>   \* in the order they are looked through

TakesNothing ==
  {"ACCEPT", "DECLINE", "DESTROY", "DESTROY_CONFIRM", "HELP", "HOTLINE_ON", "HOTLINE_OFF",
   "INFO", "JOIN", "LEAVE", "REQUEST", "SET_LANGUAGE", "VOUCHING_ON", "VOUCHING_OFF",
   "VOUCHING_ADMIN"}
TakesPhone == {"ADD", "REMOVE"}
TakesPhones == {"INVITE", "CHANNEL"}
TakesMessageId == {"BAN", "REPLY"}
TakesText == {"BROADCAST", "PRIVATE", "RESTART", "NONE"}

Command == TakesNothing \cup TakesPhone \cup TakesPhones \cup TakesMessageId
             \cup TakesText \cup {"VOUCH_LEVEL"}

ValidSubscriberCommands ==
  {"ACCEPT", "DECLINE", "CHANNEL", "HELP", "INFO", "INVITE", "JOIN", "LEAVE", "REQUEST",
   "SET_LANGUAGE"}
SupportOnlyCommands == {"REQUEST", "CHANNEL"}

\* A payload is nothing, some words, phone numbers, or a number.
Payload == [is: {"nothing", "words", "phones", "number"}, phones: SUBSET Person, number: Nat]
Nothing == [is |-> "nothing", phones |-> {}, number |-> 0]

Keyword == [command: Command \ {"NONE"}, language: {Language[i] : i \in DOMAIN Language},
            length: Nat \ {0}]

-----------------------------------------------------------------------------
(* parse.js                                                                *)

Earlier(k, l) ==
  \E i, j \in DOMAIN Language : Language[i] = k.language /\ Language[j] = l.language /\ i < j

\* Of the keywords a text begins with the longest counts; of equally long ones
\* that of the earliest language.
PickLongestMatch(hits) ==
  CHOOSE k \in hits : \A l \in hits :
    k.length > l.length \/ (k.length = l.length /\ (k = l \/ Earlier(k, l)))

CommandOf(text) == IF text.hits = {} THEN "NONE" ELSE PickLongestMatch(text.hits).command

PayloadError(command, payload) ==
  CASE command \in TakesNothing /\ payload.is # "nothing" -> "NON_EMPTY_PAYLOAD"
    [] command \in TakesPhone
         /\ ~(payload.is = "phones" /\ Cardinality(payload.phones) = 1) -> "INVALID_PAYLOAD"
    [] command \in TakesPhones /\ payload.is # "phones" -> "INVALID_PAYLOAD"
    [] command = "VOUCH_LEVEL"
         /\ ~(payload.is = "number" /\ payload.number \in 1..MaxVouchLevel) -> "INVALID_PAYLOAD"
    [] command \in TakesMessageId /\ payload.is # "number" -> "INVALID_PAYLOAD"
    [] OTHER -> "none"

ParseExecutable(text) ==
  [command |-> CommandOf(text), payload |-> text.payload,
   error |-> PayloadError(CommandOf(text), text.payload)]

-----------------------------------------------------------------------------
(* execute.js: interveneIfBadMessage                                       *)

\* What becomes of a message: a refusal, the hotline's handling, or its command.
Verdict(exec, senderType, onSupport) ==
  LET elsewhere == exec.command \in SupportOnlyCommands /\ ~onSupport IN
  IF senderType = "ADMIN"
  THEN IF exec.command = "NONE" \/ elsewhere \/ exec.error # "none" THEN "refuse" ELSE "run"
  ELSE IF \/ exec.error = "NON_EMPTY_PAYLOAD"
          \/ exec.command \notin ValidSubscriberCommands
          \/ elsewhere
       THEN "hotline"
       ELSE IF exec.error # "none" THEN "refuse" ELSE "run"
=============================================================================
