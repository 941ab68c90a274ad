------------------------------ MODULE Connection -------------------------------
(***************************************************************************)
(* The connection to the exchange (libs/websocket/src/websocket.service.ts). *)
(* A socket is opened at the start, by the one reconnect timer, and by     *)
(* whoever publishes while there is none; the newest is the one in         *)
(* wsConnection, on which the wallet registers under its public key.       *)
(* Older sockets are not closed, and the timer is set again whenever any   *)
(* of them closes.                                                         *)
(***************************************************************************)
EXTENDS PublicKey, Integers, FiniteSets

CONSTANTS
  Sockets,   \* sockets that are not closed have different names
  MaxDials   \* bound: sockets opened to publish, from one start to the next

ASSUME ConnectionAssumption ==
  /\ None \notin Keys /\ None \notin Sockets
  /\ IsFiniteSet(Sockets) /\ Cardinality(Sockets) > MaxDials
  /\ MaxDials \in Nat

VARIABLES
  phase,       \* of the process
  urlKnown,    \* serverUrl is set
  socket,      \* readyState of every socket
  clientId,    \* the client it was opened for
  registered,  \* the client last registered on it
  current,     \* wsConnection
  timer,       \* a reconnect is scheduled, in at most 3 seconds
  asked,       \* the exchange was there to send messages, which may be answered late
  dials        \* sockets opened to publish

connVars ==
  <<phase, urlKnown, socket, clientId, registered, current, timer, asked, dials>>
connectionVars == <<publicKey, connVars>>

ConnInit ==
  /\ phase = "starting"
  /\ urlKnown = FALSE
  /\ socket = [s \in Sockets |-> "closed"]
  /\ clientId = [s \in Sockets |-> None]
  /\ registered = [s \in Sockets |-> None]
  /\ current = None
  /\ timer = FALSE
  /\ asked = FALSE
  /\ dials = 0

IsOpen(s) == s # None /\ socket[s] = "open"
IsConnecting(s) == s # None /\ socket[s] = "connecting"
Connected == IsOpen(current)
Live == {s \in Sockets : socket[s] # "closed"}

-------------------------------------------------------------------------------
(* connectToServer: a locked wallet or a missing address rejects before    *)
(* there is a socket.  Who waits for it schedules the next attempt, or     *)
(* passes the error on to the publisher.                                   *)
WrongCanConnect(known) == known            \* wrong: connects without a public key
CanConnect(known) == publicKey # None /\ known

WrongReschedules == FALSE                  \* wrong: only the first attempt is repeated
Reschedules == TRUE

NewSocket ==
  \E s \in Sockets \ Live :
    /\ socket' = [socket EXCEPT ![s] = "connecting"]
    /\ clientId' = [clientId EXCEPT ![s] = publicKey]
    /\ registered' = [registered EXCEPT ![s] = None]
    /\ current' = s

NoSocket == UNCHANGED <<socket, clientId, registered, current>>

(* onModuleInit: the address is read once, for the life of the process.    *)
Start ==
  /\ phase = "starting"
  /\ phase' = "running"
  /\ \E known \in BOOLEAN :
       /\ urlKnown' = known
       /\ IF CanConnect(known)
          THEN NewSocket /\ UNCHANGED timer
          ELSE NoSocket /\ timer' = TRUE
  /\ UNCHANGED <<publicKey, asked, dials>>

WrongFiresOn == TRUE                       \* wrong: an interval, which goes on
FiresOn == FALSE

TimerFires ==
  /\ phase = "running"
  /\ timer
  /\ IF CanConnect(urlKnown)
     THEN NewSocket /\ timer' = FiresOn
     ELSE NoSocket /\ timer' = Reschedules
  /\ UNCHANGED <<publicKey, phase, urlKnown, asked, dials>>

(* publishDirectMessage answers a message of the exchange, and connects    *)
(* first unless the current socket is open.                                *)
Publish ==
  /\ phase = "running"
  /\ asked
  /\ ~Connected
  /\ CanConnect(urlKnown)
  /\ dials < MaxDials
  /\ dials' = dials + 1
  /\ NewSocket
  /\ UNCHANGED <<publicKey, phase, urlKnown, timer, asked>>

(* The open handler registers on wsConnection, whichever socket opened.  A *)
(* newer socket that is still connecting throws, nobody catches it, and    *)
(* the process ends; one that is closed drops the message.                 *)
WrongRegisterOn(s, id) ==                  \* wrong: the first connection only
  registered' = [registered EXCEPT ![s] = IF asked THEN @ ELSE id]
RegisterOn(s, id) ==
  registered' = [registered EXCEPT ![s] = IF socket'[s] = "open" THEN id ELSE @]

Open(s) ==
  /\ phase = "running"
  /\ socket[s] = "connecting"
  /\ socket' = [socket EXCEPT ![s] = "open"]
  /\ IF current # s /\ IsConnecting(current)
     THEN phase' = "ended" /\ UNCHANGED <<registered, asked>>
     ELSE /\ RegisterOn(current, clientId[s])
          /\ asked' = TRUE
          /\ UNCHANGED phase
  /\ UNCHANGED <<publicKey, urlKnown, clientId, current, timer, dials>>

(* The exchange refuses, or a socket closes: either sets the timer anew,   *)
(* whether the socket is the current one or not.                           *)
WrongOnClose(s) == timer \/ s # current    \* wrong: forgets the current socket
OnClose(s) == TRUE

Close(s) ==
  /\ phase = "running"
  /\ socket[s] # "closed"
  /\ socket' = [socket EXCEPT ![s] = "closed"]
  /\ clientId' = [clientId EXCEPT ![s] = None]
  /\ registered' = [registered EXCEPT ![s] = None]
  /\ timer' = OnClose(s)
  /\ UNCHANGED <<publicKey, phase, urlKnown, current, asked, dials>>

(* The process ends, for whatever reason, and is started again.            *)
Reboot ==
  /\ phase' = "starting"
  /\ urlKnown' = FALSE
  /\ socket' = [s \in Sockets |-> "closed"]
  /\ clientId' = [s \in Sockets |-> None]
  /\ registered' = [s \in Sockets |-> None]
  /\ current' = None
  /\ timer' = FALSE
  /\ asked' = FALSE
  /\ dials' = 0
  /\ publicKey' = None

ConnectionStep ==
  \/ Start \/ TimerFires \/ Publish
  \/ \E s \in Sockets : Open(s) \/ Close(s)

(* The rest of the program, seen from here: the wallet changes its key.    *)
KeyChanges == publicKey' \in Keys \cup {None} /\ UNCHANGED connVars

ConnectionNext == ConnectionStep \/ KeyChanges \/ Reboot

ConnectionSpec ==
  publicKey = None /\ ConnInit /\ [][ConnectionNext]_connectionVars

(* Timers fire and attempts end; of the attempts of the current socket,    *)
(* which are made again and again, some succeed: the exchange is up every  *)
(* now and then.                                                           *)
Fairness ==
  /\ WF_connectionVars(Start)
  /\ WF_connectionVars(TimerFires)
  /\ \A s \in Sockets :
       /\ WF_connectionVars(socket[s] = "connecting" /\ (Open(s) \/ Close(s)))
       /\ SF_connectionVars(current = s /\ Open(s))

-------------------------------------------------------------------------------
(* Every variable holds what the code can put there; each socket was       *)
(* opened for a client (websocket.service.ts:49-64).                       *)
ConnTypeOK ==
  /\ phase \in {"starting", "running", "ended"}
  /\ socket \in [Sockets -> {"closed", "connecting", "open"}]
  /\ clientId \in [Sockets -> Keys \cup {None}]
  /\ registered \in [Sockets -> Keys \cup {None}]
  /\ current \in Sockets \cup {None}
  /\ urlKnown \in BOOLEAN /\ timer \in BOOLEAN /\ asked \in BOOLEAN
  /\ dials \in 0..MaxDials
  /\ \A s \in Sockets : socket[s] # "closed" <=> clientId[s] # None

(* A running wallet that is not connected has another attempt ahead:       *)
(* whichever sockets fail or close, in whatever order, and whoever opened  *)
(* them, the timer is set or the current socket is being opened            *)
(* (websocket.service.ts:38-44, 78-86, 101-113).                           *)
NeverStranded == phase = "running" => Connected \/ IsConnecting(current) \/ timer

(* An open connection is a registered one, so that the exchange reaches    *)
(* whoever can publish.  As long as no publisher had to connect it is      *)
(* registered for the client that it was opened for, and no registration   *)
(* is sent on a socket that is connecting, which would end the process;    *)
(* once sockets overlap it may be registered for the client of an older    *)
(* one, or end it (websocket.service.ts:54-64, 171-190).                   *)
ConnectedIsRegistered ==
  /\ phase = "running" /\ Connected => registered[current] # None
  /\ dials = 0 =>
       /\ phase # "ended"
       /\ Connected => registered[current] = clientId[current]

(* Only publishing makes connections overlap: timers that are set again,   *)
(* late failures and closes of replaced sockets never add one              *)
(* (websocket.service.ts:82-86, 102-105).                                  *)
OverlapIsPublishing ==
  Cardinality(Live) + (IF timer THEN 1 ELSE 0) =< 1 + dials

(* A wallet that stays unlocked gets its connection back, unless the       *)
(* address was never read or the process ends                              *)
(* (websocket.service.ts:96-114).                                          *)
Reconnects ==
  (phase = "running" /\ urlKnown /\ publicKey # None) ~>
    (Connected \/ publicKey = None \/ phase # "running")
===============================================================================
