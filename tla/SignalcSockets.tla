--------------------------- MODULE SignalcSockets ---------------------------
(***************************************************************************)
(* signalc's server: connections of the app, a receiver for each, and an   *)
(* actor that owns the writers (logic/SocketServer.kt, SocketSender.kt and *)
(* the lifecycle of SocketReceiver.kt).                                    *)
(*                                                                         *)
(* Who needs the actor waits in `mailbox` until it takes the message, then *)
(* for its result.  The actor ends with the first exception it meets: with *)
(* an answer when it has no writer, or a writer for a closed socket.  From *)
(* then on nobody hears from this process, and whoever waits at the        *)
(* mailbox gets an exception.                                              *)
(***************************************************************************)
EXTENDS Naturals, Sequences, SequencesExt

CONSTANTS
  Conn,  \* connections
  Line,  \* what the app writes to them: requests
  None

ASSUME NoneAssumption == None \notin Conn \cup Line

VARIABLES
  client,       \* the app's end of a connection
  wire,         \* requests it wrote that are not read yet
  connections,  \* connections of SocketServer
  open,         \* those whose socket is not closed here
  setup,        \* the coroutine that connects receiver and sender
  receiver,     \* the coroutine that reads a connection
  readers,      \* connections of SocketReceiver
  closing,      \* SocketServer.close
  writers,      \* connections of the WriterPool
  mailbox, actor,
  request,
  stop,         \* SocketServer.stop: [pc, at]
  early         \* history: connections that ended before their writer was added

server == <<connections, open, setup, closing>>
readings == <<receiver, readers>>
pool == <<writers, mailbox, actor>>
socketVars == <<client, wire, server, readings, pool, request, stop, early>>

Message == [op: {"add", "remove", "send", "clear"}, of: Conn \cup Line \cup {None}]

SocketsTypeOK ==
  /\ client \in [Conn -> {"none", "open", "closed"}]
  /\ wire \in [Conn -> SUBSET Line]
  /\ open \subseteq Conn /\ connections \subseteq Conn
  /\ readers \subseteq Conn /\ writers \subseteq Conn /\ early \subseteq Conn
  /\ setup \in [Conn -> {"none", "accepted", "receiving", "adding", "done", "ended"}]
  /\ receiver \in [Conn -> {"none", "starting", "reading", "closing", "ended"}]
  /\ closing \in [Conn -> {"no", "begun", "removing", "removed", "ended"}]
  /\ mailbox \in Seq(Message) /\ actor \in {"alive", "dead"}
  /\ request \in [Line -> {"new", "written", "read", "answering", "answered", "lost"}]
  /\ stop \in [pc: {"no", "receivers", "clear", "clearing", "connections", "stopped"},
               at: Conn \cup {None}]

SocketsInit ==
  /\ client = [c \in Conn |-> "none"] /\ wire = [c \in Conn |-> {}]
  /\ connections = {} /\ open = {}
  /\ setup = [c \in Conn |-> "none"] /\ receiver = [c \in Conn |-> "none"]
  /\ readers = {} /\ closing = [c \in Conn |-> "no"]
  /\ writers = {} /\ mailbox = << >> /\ actor = "alive"
  /\ request = [r \in Line |-> "new"]
  /\ stop = [pc |-> "no", at |-> None] /\ early = {}

Goes(f, x, y) == f' = [f EXCEPT ![x] = y]
Stopped == stop.pc = "stopped"

-----------------------------------------------------------------------------
(* The app.                                                                *)

Connect(c) ==
  /\ client[c] = "none" /\ Goes(client, c, "open")
  /\ UNCHANGED <<wire, server, readings, pool, request, stop, early>>

WriteLine(r, c) ==
  /\ client[c] = "open" /\ request[r] = "new"
  /\ wire' = [wire EXCEPT ![c] = @ \cup {r}] /\ Goes(request, r, "written")
  /\ UNCHANGED <<client, server, readings, pool, stop, early>>

Disconnect(c) ==
  /\ client[c] = "open" /\ Goes(client, c, "closed")
  /\ UNCHANGED <<wire, server, readings, pool, request, stop, early>>

-----------------------------------------------------------------------------
(* SocketServer.run: each connection's receiver is connected, then its     *)
(* sender.                                                                 *)

Accept(c) ==
  /\ stop.pc = "no" /\ client[c] # "none" /\ setup[c] = "none"
  /\ connections' = connections \cup {c} /\ open' = open \cup {c}
  /\ Goes(setup, c, "accepted")
  /\ UNCHANGED <<client, wire, closing, readings, pool, request, stop, early>>

ConnectReceiver(c) ==
  /\ setup[c] = "accepted"
  /\ Goes(setup, c, "receiving") /\ Goes(receiver, c, "starting")
  /\ UNCHANGED <<client, wire, connections, open, closing, readers, pool, request, stop, early>>

\* Whoever sends to the actor: its message waits, or an exception ends it.
Post(op, x) ==
  /\ actor = "alive"
  /\ mailbox' = Append(mailbox, [op |-> op, of |-> x])
  /\ UNCHANGED <<writers, actor>>

ConnectSender(c) ==
  /\ setup[c] = "receiving"
  /\ IF actor = "alive"
     THEN Post("add", c) /\ Goes(setup, c, "adding")
     ELSE Goes(setup, c, "ended") /\ UNCHANGED pool
  /\ UNCHANGED <<client, wire, connections, open, closing, readings, request, stop, early>>

-----------------------------------------------------------------------------
(* SocketReceiver.                                                         *)

StartReader(c) ==
  /\ receiver[c] = "starting"
  /\ IF c \in open
     THEN Goes(receiver, c, "reading") /\ readers' = readers \cup {c}
     ELSE Goes(receiver, c, "ended") /\ UNCHANGED readers
  /\ UNCHANGED <<client, wire, server, pool, request, stop, early>>

\* One that was waiting for a line when its entry went reads that line.
ReadLine(c) ==
  /\ receiver[c] = "reading" /\ c \in open
  /\ \E r \in wire[c] : wire' = [wire EXCEPT ![c] = @ \ {r}] /\ Goes(request, r, "read")
  /\ IF c \in readers
     THEN UNCHANGED <<receiver, open>>
     ELSE Goes(receiver, c, "ended") /\ open' = open \ {c}
  /\ UNCHANGED <<client, connections, setup, closing, readers, pool, stop, early>>

\* mutant: the receiver ends without telling the server
ReadEndAlone(c) ==
  /\ receiver[c] = "reading" /\ c \in readers \cap open
  /\ client[c] = "closed" /\ wire[c] = {}
  /\ Goes(receiver, c, "ended") /\ readers' = readers \ {c} /\ open' = open \ {c}
  /\ UNCHANGED <<client, wire, connections, setup, closing, pool, request, stop, early>>

ReadEnd(c) ==
  /\ receiver[c] = "reading" /\ c \in readers \cap open
  /\ client[c] = "closed" /\ wire[c] = {}
  /\ Goes(receiver, c, "closing") /\ readers' = readers \ {c} /\ Goes(closing, c, "begun")
  /\ UNCHANGED <<client, wire, connections, open, setup, pool, request, stop, early>>

\* The socket was closed under it, or it finds its entry gone: `use` closes.
EndReader(c) ==
  /\ \/ receiver[c] = "reading" /\ c \notin readers \cap open
     \/ receiver[c] = "closing" /\ closing[c] = "ended"
  /\ Goes(receiver, c, "ended") /\ open' = open \ {c}
  /\ UNCHANGED <<client, wire, connections, setup, closing, readers, pool, request, stop, early>>

\* A handler answers with what it did, or with the exception it met.
Answer(r) ==
  /\ request[r] = "read"
  /\ IF actor = "alive"
     THEN Post("send", r) /\ Goes(request, r, "answering")
     ELSE Goes(request, r, "lost") /\ UNCHANGED pool
  /\ UNCHANGED <<client, wire, server, readings, stop, early>>

-----------------------------------------------------------------------------
(* SocketServer.close, asked by a receiver.                                *)

CloseSender(c) ==
  /\ closing[c] = "begun"
  /\ IF actor = "alive"
     THEN Post("remove", c) /\ Goes(closing, c, "removing")
     ELSE Goes(closing, c, "ended") /\ UNCHANGED pool
  /\ UNCHANGED <<client, wire, connections, open, setup, readings, request, stop, early>>

\* The receiver's entry is gone since it asked.
CloseConnection(c) ==
  /\ closing[c] = "removed"
  /\ connections' = connections \ {c} /\ open' = open \ {c} /\ Goes(closing, c, "ended")
  /\ UNCHANGED <<client, wire, setup, readings, pool, request, stop, early>>

-----------------------------------------------------------------------------
(* WriterPool: one message at a time, each until its result is there.      *)

Takes(op) == actor = "alive" /\ mailbox # << >> /\ Head(mailbox).op = op
Took == mailbox' = Tail(mailbox)

\* Whoever is left at the mailbox gets an exception.  The message that was
\* being handled is never answered: its sender waits for ever.
Die ==
  LET thrown(op) == {m.of : m \in {n \in Range(Tail(mailbox)) : n.op = op}} IN
  /\ actor' = "dead" /\ mailbox' = << >> /\ UNCHANGED writers
  /\ setup' = [c \in Conn |-> IF c \in thrown("add") THEN "ended" ELSE setup[c]]
  /\ closing' = [c \in Conn |-> IF c \in thrown("remove") THEN "ended" ELSE closing[c]]
  /\ request' = [r \in Line |-> IF r \in thrown("send") THEN "lost" ELSE request[r]]
  /\ stop' = IF thrown("clear") = {} THEN stop ELSE [stop EXCEPT !.pc = "stopped"]
  /\ UNCHANGED <<connections, open>>

TakeAdd ==
  /\ Takes("add")
  /\ LET c == Head(mailbox).of IN
     IF c \notin open THEN Die
     ELSE /\ writers' = writers \cup {c} /\ Goes(setup, c, "done")
          /\ Took /\ UNCHANGED <<connections, open, closing, actor, request, stop>>
  /\ UNCHANGED <<client, wire, readings, early>>

TakeRemove ==
  /\ Takes("remove")
  /\ LET c == Head(mailbox).of IN
     /\ writers' = writers \ {c}
     /\ open' = IF c \in writers THEN open \ {c} ELSE open
     /\ early' = IF c \in writers THEN early ELSE early \cup {c}
     /\ Goes(closing, c, "removed")
  /\ Took /\ UNCHANGED <<client, wire, connections, setup, readings, actor, request, stop>>

\* mutant: an answer for a broken connection is put back
TakeSendAgain ==
  /\ Takes("send")
  /\ LET r == Head(mailbox).of IN
     IF writers = {} THEN Die
     ELSE /\ \E w \in writers :
               IF w \in open /\ client[w] = "open"
               THEN Goes(request, r, "answered") /\ Took
               ELSE mailbox' = Append(Tail(mailbox), Head(mailbox)) /\ UNCHANGED request
          /\ UNCHANGED <<server, writers, actor, stop>>
  /\ UNCHANGED <<client, wire, readings, early>>

\* Any writer will do.  Nobody hears of a write that fails.
TakeSend ==
  /\ Takes("send")
  /\ LET r == Head(mailbox).of IN
     IF writers = {} THEN Die
     ELSE /\ \E w \in writers :
               Goes(request, r, IF w \in open /\ client[w] = "open" THEN "answered" ELSE "lost")
          /\ Took /\ UNCHANGED <<server, writers, actor, stop>>
  /\ UNCHANGED <<client, wire, readings, early>>

TakeClear ==
  /\ Takes("clear")
  /\ open' = open \ writers /\ writers' = {}
  /\ stop' = [stop EXCEPT !.pc = "connections"]
  /\ Took
  /\ UNCHANGED <<client, wire, connections, setup, closing, readings, actor, request, early>>

-----------------------------------------------------------------------------
(* SocketServer.stop.                                                      *)

\* Coroutines that connect are children of the one that listens: they end, with
\* or without their message at the mailbox.
Cancelled(c) == setup[c] \in {"accepted", "receiving", "adding"}

Stop ==
  /\ stop.pc = "no" /\ stop' = [pc |-> "receivers", at |-> None]
  /\ setup' = [c \in Conn |-> IF Cancelled(c) THEN "ended" ELSE setup[c]]
  /\ \/ UNCHANGED mailbox
     \/ mailbox' = SelectSeq(mailbox, LAMBDA m : m.op # "add")
  /\ UNCHANGED <<client, wire, connections, open, closing, readings, writers, actor,
                 request, early>>

StopReceiver(c) ==
  /\ stop = [pc |-> "receivers", at |-> None] /\ c \in readers
  /\ readers' = readers \ {c} /\ Goes(closing, c, "begun")
  /\ stop' = [stop EXCEPT !.at = c]
  /\ UNCHANGED <<client, wire, connections, open, setup, receiver, pool, request, early>>

\* close(c) returned, or threw.
StopReceiverEnds ==
  /\ stop.pc = "receivers" /\ stop.at # None
  /\ closing[stop.at] = "ended"
  /\ stop' = [pc |-> IF stop.at \in connections THEN "stopped" ELSE "receivers", at |-> None]
  /\ UNCHANGED <<client, wire, server, readings, pool, request, early>>

StopSender ==
  /\ stop = [pc |-> "receivers", at |-> None] /\ readers = {}
  /\ IF actor = "alive"
     THEN Post("clear", None) /\ stop' = [stop EXCEPT !.pc = "clearing"]
     ELSE stop' = [stop EXCEPT !.pc = "stopped"] /\ UNCHANGED pool
  /\ UNCHANGED <<client, wire, server, readings, request, early>>

CloseAllConnections ==
  /\ stop.pc = "connections"
  /\ connections' = {} /\ open' = {} /\ stop' = [stop EXCEPT !.pc = "stopped"]
  /\ UNCHANGED <<client, wire, setup, closing, readings, pool, request, early>>

-----------------------------------------------------------------------------

App == \E c \in Conn : Connect(c) \/ Disconnect(c) \/ \E r \in Line : WriteLine(r, c)
Listen == \E c \in Conn : Accept(c)
Set(c) == ConnectReceiver(c) \/ ConnectSender(c)
Receive(c) == StartReader(c) \/ ReadLine(c) \/ ReadEnd(c) \/ EndReader(c)
Close(c) == CloseSender(c) \/ CloseConnection(c)
Pool == TakeAdd \/ TakeRemove \/ TakeSend \/ TakeClear
Stopping ==
  \/ \E c \in Conn : StopReceiver(c)
  \/ StopReceiverEnds \/ StopSender \/ CloseAllConnections

\* The process ends when its server has stopped.
SocketsNext ==
  /\ ~Stopped
  /\ \/ App \/ Listen \/ Stop \/ Stopping \/ Pool
     \/ \E c \in Conn : Set(c) \/ Receive(c) \/ Close(c)
     \/ \E r \in Line : Answer(r)

SocketsSpec == SocketsInit /\ [][SocketsNext]_socketVars

\* Coroutines get a thread; the app does as it likes.
SocketsFairSpec ==
  /\ SocketsSpec
  /\ WF_socketVars(~Stopped /\ Listen) /\ WF_socketVars(~Stopped /\ Pool)
  /\ WF_socketVars(~Stopped /\ Stopping)
  /\ \A c \in Conn :
       /\ WF_socketVars(~Stopped /\ Set(c))
       /\ WF_socketVars(~Stopped /\ Receive(c))
       /\ WF_socketVars(~Stopped /\ Close(c))
  /\ \A r \in Line : WF_socketVars(~Stopped /\ Answer(r))

-----------------------------------------------------------------------------
(* Properties.                                                             *)

\* Nothing is on its way for a connection.
Settled(c) ==
  /\ setup[c] \in {"done", "ended"} /\ receiver[c] \in {"reading", "ended"}
  /\ closing[c] \in {"no", "ended"}

\* While the actor lives and the server runs, server, receiver and writer pool
\* agree on what connections there are, whatever order their ends are noticed in;
\* but a connection that ended before its writer was added keeps its writer
\* (SocketServer.kt 51-69, SocketSender.kt 86-114).
MapsAgree ==
  actor = "alive" /\ stop.pc = "no" =>
    \A c \in Conn \ early : Settled(c) => ((c \in connections) = (c \in writers))
                                       /\ ((c \in connections) = (c \in readers))

\* A request is answered, or lost with a connection that the app closed, and a
\* connection that the app closed is forgotten, unless the actor died or the
\* process ended (SocketReceiver.kt 41-90, SocketServer.kt 63-79).
Settles ==
  /\ \A r \in Line :
       request[r] = "written" ~> request[r] \in {"answered", "lost"} \/ actor = "dead" \/ Stopped
  /\ \A c \in Conn :
       client[c] = "closed" ~> c \notin connections \/ actor = "dead" \/ Stopped
=============================================================================
