----------------------------- MODULE Session_proofs -----------------------------
(***************************************************************************)
(* The connection is never given up and never multiplies, for any number   *)
(* of sockets, keys and attempts, and whatever the wallet does with its    *)
(* key meanwhile; and in one process the wallet still behaves as           *)
(* WalletKeys says, and its connection as Connection says: what is proved  *)
(* of each holds of both.                                                  *)
(***************************************************************************)
EXTENDS Session, WalletKeys_proofs, FiniteSetTheorems

-------------------------------------------------------------------------------
(* The connection.                                                         *)

KeyInv == publicKey \in Keys \cup {None}

Switches == urlKnown \in BOOLEAN /\ timer \in BOOLEAN /\ asked \in BOOLEAN

(* A process that starts has no socket yet.                                *)
StartInv ==
  phase = "starting" => Live = {} /\ timer = FALSE /\ dials = 0

(* Without a publisher there is one socket at most, the current one.       *)
OneSocket == dials = 0 => Live \subseteq {current}

ConnInv ==
  /\ KeyInv /\ ConnTypeOK /\ StartInv /\ OneSocket
  /\ NeverStranded /\ ConnectedIsRegistered /\ OverlapIsPublishing

USE DEF CanConnect, Reschedules, FiresOn, RegisterOn, OnClose

-------------------------------------------------------------------------------
(* How many sockets there are.                                             *)
LEMMA LiveIsFinite == IsFiniteSet(Live) /\ Cardinality(Live) \in Nat
<1>1. IsFiniteSet(Live)
  BY ConnectionAssumption, FS_Subset DEF Live
<1> QED
  BY <1>1, FS_CardinalityType

LEMMA NoneLive == Live = {} <=> Cardinality(Live) = 0
BY LiveIsFinite, FS_EmptySet

LEMMA OneMore ==
  ASSUME ConnTypeOK, NEW s \in Sockets \ Live, NEW x \in {"connecting", "open"},
         socket' = [socket EXCEPT ![s] = x]
  PROVE  Cardinality(Live') = Cardinality(Live) + 1
<1>1. Live' = Live \cup {s}
  BY DEF Live, ConnTypeOK
<1> QED
  BY <1>1, LiveIsFinite, FS_AddElement

LEMMA OneLess ==
  ASSUME ConnTypeOK, NEW s \in Sockets, s \in Live, socket' = [socket EXCEPT ![s] = "closed"]
  PROVE  Cardinality(Live') = Cardinality(Live) - 1
<1>1. Live' = Live \ {s}
  BY DEF Live, ConnTypeOK
<1> QED
  BY <1>1, LiveIsFinite, FS_RemoveElement

(* What a new socket changes: it is the current one, and is connecting.    *)
LEMMA NewSocketIsCurrent ==
  ASSUME ConnInv, NewSocket, publicKey \in Keys
  PROVE  /\ socket' \in [Sockets -> {"closed", "connecting", "open"}]
         /\ clientId' \in [Sockets -> Keys \cup {None}]
         /\ registered' \in [Sockets -> Keys \cup {None}]
         /\ current' \in Sockets
         /\ socket'[current'] = "connecting"
         /\ Cardinality(Live') = Cardinality(Live) + 1
         /\ Live' = Live \cup {current'}
         /\ \A s \in Sockets : socket'[s] # "closed" <=> clientId'[s] # None
<1>1. PICK s \in Sockets \ Live :
        /\ socket' = [socket EXCEPT ![s] = "connecting"]
        /\ clientId' = [clientId EXCEPT ![s] = publicKey]
        /\ registered' = [registered EXCEPT ![s] = None]
        /\ current' = s
  BY DEF NewSocket
<1>2. Cardinality(Live') = Cardinality(Live) + 1
  BY <1>1, OneMore DEF ConnInv
<1>3. Live' = Live \cup {current'}
  BY <1>1 DEF Live, ConnInv, ConnTypeOK
<1> QED
  BY <1>1, <1>2, <1>3, ConnectionAssumption DEF ConnInv, ConnTypeOK

-------------------------------------------------------------------------------
LEMMA InitConnection == publicKey = None /\ ConnInit => ConnInv
<1> SUFFICES ASSUME publicKey = None, ConnInit
             PROVE  ConnInv
  OBVIOUS
<1>1. Live = {}
  BY DEF Live, ConnInit
<1>2. Cardinality(Live) = 0
  BY <1>1, NoneLive
<1>3. Switches
  BY DEF ConnInit, Switches
<1>4. ConnTypeOK
  BY <1>3, ConnectionAssumption DEF ConnInit, ConnTypeOK, Switches
<1>5. OverlapIsPublishing
  BY <1>2 DEF ConnInit, OverlapIsPublishing
<1> QED
  BY <1>1, <1>4, <1>5
  DEF ConnInit, ConnInv, KeyInv, StartInv, OneSocket, NeverStranded, ConnectedIsRegistered,
      Connected, IsOpen

(* The three who connect, and what they have in common: there is a new     *)
(* socket, and no more than one attempt was ahead; or there is none, and   *)
(* the timer is set.                                                       *)
LEMMA Dials ==
  ASSUME ConnInv, Start \/ TimerFires \/ Publish
  PROVE  /\ phase' = "running" /\ publicKey' = publicKey /\ dials' \in 0..MaxDials
         /\ Switches'
         /\ \/ NewSocket /\ publicKey \in Keys
               /\ Cardinality(Live) + 1 + (IF timer' THEN 1 ELSE 0) =< 1 + dials'
            \/ NoSocket /\ timer' = TRUE /\ Cardinality(Live) + 1 =< 1 + dials'
<1>1. dials \in Nat /\ dials \in 0..MaxDials /\ timer \in BOOLEAN
  BY ConnectionAssumption DEF ConnInv, ConnTypeOK
<1>2. Cardinality(Live) + (IF timer THEN 1 ELSE 0) =< 1 + dials
  BY DEF ConnInv, OverlapIsPublishing
<1>3. Switches
  BY DEF ConnInv, ConnTypeOK, Switches
<1>4. publicKey # None => publicKey \in Keys
  BY DEF ConnInv, KeyInv
<1>5. CASE Start
  <2>1. timer = FALSE /\ dials = 0 /\ Cardinality(Live) = 0
    BY <1>5, NoneLive DEF Start, ConnInv, StartInv
  <2>2. Switches'
    BY <1>5, <1>3 DEF Start, Switches
  <2> QED
    BY <1>1, <1>4, <1>5, <2>1, <2>2 DEF Start
<1>6. CASE TimerFires
  <2>1. timer = TRUE
    BY <1>6, <1>1 DEF TimerFires
  <2>2. Switches'
    BY <1>6, <1>3 DEF TimerFires, Switches
  <2> QED
    BY <1>1, <1>2, <1>4, <1>6, <2>1, <2>2, LiveIsFinite DEF TimerFires
<1>7. CASE Publish
  <2>1. Switches'
    BY <1>7, <1>3 DEF Publish, Switches
  <2> QED
    BY <1>1, <1>2, <1>4, <1>7, <2>1, LiveIsFinite, ConnectionAssumption DEF Publish
<1> QED
  BY <1>5, <1>6, <1>7

LEMMA DialsKeepConnection ==
  ASSUME ConnInv, Start \/ TimerFires \/ Publish
  PROVE  ConnInv'
<1>1. CASE NewSocket /\ publicKey \in Keys
           /\ Cardinality(Live) + 1 + (IF timer' THEN 1 ELSE 0) =< 1 + dials'
  <2>1. IsConnecting(current)' /\ ~IsOpen(current)'
    BY <1>1, NewSocketIsCurrent, ConnectionAssumption DEF IsConnecting, IsOpen
  <2>2. OverlapIsPublishing'
    BY <1>1, NewSocketIsCurrent DEF OverlapIsPublishing
  <2>3. ConnTypeOK'
    BY <1>1, NewSocketIsCurrent, Dials DEF ConnTypeOK, Switches
  <2>4. OneSocket'
    <3>1. dials' = 0 => Live = {}
      BY <1>1, NoneLive, LiveIsFinite, Dials
    <3> QED
      BY <1>1, <3>1, NewSocketIsCurrent DEF OneSocket
  <2> QED
    BY <1>1, <2>1, <2>2, <2>3, <2>4, Dials
    DEF ConnInv, KeyInv, StartInv, NeverStranded, ConnectedIsRegistered, Connected
<1>2. CASE NoSocket /\ timer' = TRUE /\ Cardinality(Live) + 1 =< 1 + dials'
  <2>1. Live' = Live
    BY <1>2 DEF Live, NoSocket
  <2>2. OverlapIsPublishing'
    BY <1>2, <2>1 DEF OverlapIsPublishing
  <2>3. ConnTypeOK'
    BY <1>2, Dials DEF ConnInv, ConnTypeOK, Switches, NoSocket
  <2>4. dials' = 0 => Live' = {}
    BY <1>2, <2>1, NoneLive, LiveIsFinite, Dials
  <2>5. dials' = 0 => ~Connected'
    BY <2>3, <2>4 DEF Live, ConnTypeOK, Connected, IsOpen
  <2>6. (phase = "running" /\ Connected => registered[current] # None)'
    BY <1>2 DEF NoSocket, Start, TimerFires, Publish, ConnInv, StartInv, Live, ConnTypeOK,
                ConnectedIsRegistered, Connected, IsOpen
  <2>7. ConnectedIsRegistered'
    BY <2>5, <2>6, Dials DEF ConnectedIsRegistered
  <2> QED
    BY <1>2, <2>2, <2>3, <2>4, <2>7, Dials
    DEF ConnInv, KeyInv, StartInv, OneSocket, NeverStranded
<1> QED
  BY <1>1, <1>2, Dials

LEMMA OpenKeepsConnection ==
  ASSUME ConnInv, NEW s \in Sockets, Open(s)
  PROVE  ConnInv'
<1>1. Live' = Live
  BY DEF Open, Live, ConnInv, ConnTypeOK
<1>2. Cardinality(Live') + (IF timer' THEN 1 ELSE 0) =< 1 + dials'
  BY <1>1 DEF Open, ConnInv, OverlapIsPublishing
<1>3. clientId[s] # None /\ clientId[s] \in Keys \cup {None}
  BY DEF Open, ConnInv, ConnTypeOK
<1>4. registered' \in [Sockets -> Keys \cup {None}]
  BY <1>3 DEF Open, ConnInv, ConnTypeOK
<1>5. ConnTypeOK'
  BY <1>3, <1>4 DEF Open, ConnInv, ConnTypeOK
<1>6. NeverStranded'
  BY DEF Open, ConnInv, ConnTypeOK, NeverStranded, Connected, IsOpen, IsConnecting
<1>7. dials = 0 => s = current
  BY DEF Open, ConnInv, OneSocket, Live
<1>8. (phase = "running" /\ Connected => registered[current] # None)'
  BY <1>3 DEF Open, ConnInv, ConnTypeOK, ConnectedIsRegistered, Connected, IsOpen, IsConnecting
<1>9. dials' = 0 => phase' # "ended" /\ registered'[current'] = clientId'[current']
  BY <1>7 DEF Open, ConnInv, ConnTypeOK, IsConnecting
<1>10. ConnectedIsRegistered'
  BY <1>8, <1>9 DEF ConnectedIsRegistered
<1>11. OneSocket'
  BY <1>1 DEF Open, ConnInv, OneSocket
<1> QED
  BY <1>1, <1>2, <1>5, <1>6, <1>10, <1>11
  DEF Open, ConnInv, KeyInv, StartInv, OverlapIsPublishing

LEMMA CloseKeepsConnection ==
  ASSUME ConnInv, NEW s \in Sockets, Close(s)
  PROVE  ConnInv'
<1>1. Cardinality(Live') = Cardinality(Live) - 1
  BY OneLess DEF Close, Live, ConnInv
<1>2. Cardinality(Live') + 1 =< 1 + dials'
  BY <1>1, LiveIsFinite DEF Close, ConnInv, ConnTypeOK, OverlapIsPublishing
<1>3. ConnTypeOK'
  BY DEF Close, ConnInv, ConnTypeOK
<1>4. OneSocket'
  BY DEF Close, ConnInv, ConnTypeOK, OneSocket, Live
<1> QED
  BY <1>2, <1>3, <1>4
  DEF Close, ConnInv, ConnTypeOK, KeyInv, StartInv, NeverStranded, ConnectedIsRegistered,
      OverlapIsPublishing, Connected, IsOpen

LEMMA RebootKeepsConnection ==
  ASSUME ConnInv, Reboot
  PROVE  ConnInv'
<1>1. Live' = {}
  BY DEF Live, Reboot
<1>2. Cardinality(Live') = 0
  BY <1>1, FS_EmptySet
<1>3. Switches'
  BY DEF Reboot, Switches
<1>4. ConnTypeOK'
  BY <1>3, ConnectionAssumption DEF Reboot, ConnTypeOK, Switches
<1>5. OverlapIsPublishing'
  BY <1>2 DEF Reboot, OverlapIsPublishing
<1> QED
  BY <1>1, <1>4, <1>5
  DEF Reboot, ConnInv, KeyInv, StartInv, OneSocket, NeverStranded, ConnectedIsRegistered,
      Connected, IsOpen

LEMMA OthersKeepConnection ==
  ASSUME ConnInv, KeyChanges \/ UNCHANGED connectionVars
  PROVE  ConnInv'
<1>1. KeyInv' /\ UNCHANGED connVars
  BY DEF KeyChanges, connectionVars, ConnInv, KeyInv
<1>2. ConnTypeOK'
  BY <1>1 DEF connVars, ConnInv, ConnTypeOK
<1>3. (StartInv /\ OneSocket /\ OverlapIsPublishing)'
  BY <1>1 DEF connVars, ConnInv, StartInv, OneSocket, OverlapIsPublishing, Live
<1>4. (NeverStranded /\ ConnectedIsRegistered)'
  BY <1>1 DEF connVars, ConnInv, NeverStranded, ConnectedIsRegistered, Connected, IsOpen,
              IsConnecting
<1> QED
  BY <1>1, <1>2, <1>3, <1>4 DEF ConnInv

LEMMA ConnectionInvariant == ConnectionSpec => []ConnInv
<1>1. ConnInv /\ [ConnectionNext]_connectionVars => ConnInv'
  BY DialsKeepConnection, OpenKeepsConnection, CloseKeepsConnection, RebootKeepsConnection,
     OthersKeepConnection
  DEF ConnectionNext, ConnectionStep
<1> QED
  BY <1>1, InitConnection, PTL DEF ConnectionSpec

-------------------------------------------------------------------------------
(* The variables of the connection keep their types, and a socket of a     *)
(* running process has a client (websocket.service.ts:49-64).              *)
THEOREM ConnectionTypeCorrect == ConnectionSpec => []ConnTypeOK
BY ConnectionInvariant, PTL DEF ConnInv

(* A running wallet is connected, connecting on its current socket, or has *)
(* the timer set, whatever sockets fail, close and are replaced            *)
(* (websocket.service.ts:38-44, 78-86, 101-113).                           *)
THEOREM NeverGivenUp == ConnectionSpec => []NeverStranded
BY ConnectionInvariant, PTL DEF ConnInv

(* An open current socket is a registered one, for the client it was       *)
(* opened for while no publisher had to connect, and until then no         *)
(* registration ends the process (websocket.service.ts:54-64, 171-190).    *)
THEOREM OpenMeansRegistered == ConnectionSpec => []ConnectedIsRegistered
BY ConnectionInvariant, PTL DEF ConnInv

(* Only publishing makes connections overlap                               *)
(* (websocket.service.ts:82-86, 102-105).                                  *)
THEOREM TimersDoNotMultiply == ConnectionSpec => []OverlapIsPublishing
BY ConnectionInvariant, PTL DEF ConnInv

-------------------------------------------------------------------------------
(* The process: wallet and connection together.                            *)

(* The wallet sees the connection as steps that change nothing of its own. *)
LEMMA WalletSteps == [SessionNext]_sessionVars => [Next]_vars
<1> SUFFICES ASSUME [SessionNext]_sessionVars
             PROVE  [Next]_vars
  OBVIOUS
<1>1. CASE Answer
  BY <1>1 DEF Answer, Next
<1>2. CASE Communicate
  <2>1. UNCHANGED <<walletVars, publicKey>>
    BY <1>2 DEF Communicate, ConnectionStep, Start, TimerFires, Publish, Open, Close
  <2> QED
    BY <2>1 DEF walletVars, vars, memory
<1>3. CASE StartAgain
  BY <1>3 DEF StartAgain, Next
<1>4. CASE UNCHANGED sessionVars
  BY <1>4 DEF sessionVars
<1> QED
  BY <1>1, <1>2, <1>3, <1>4 DEF SessionNext

(* The wallet changes its public key to a key, or forgets it.              *)
LEMMA KeyStaysKey ==
  ASSUME KeyInv, WalletStep \/ Restart
  PROVE  KeyInv'
<1>1. CASE \E c \in Calls : Unlock(c)
  <2>1. PICK c \in Calls : Unlock(c)
    BY <1>1
  <2>2. CASE Opens(request[c].password) /\ InitWallet
    <3>1. Decrypted(row.stored).key \in Keys
      BY <2>2 DEF Opens, Decrypted
    <3> QED
      BY <2>2, <3>1 DEF InitWallet, KeyInv
  <2>3. CASE UNCHANGED memory
    BY <2>3 DEF memory, KeyInv
  <2> QED
    BY <2>1, <2>2, <2>3 DEF Unlock
<1>2. CASE UNCHANGED memory \/ Reset
  BY <1>2 DEF memory, Reset, KeyInv
<1>3. CASE \E c \in Calls : SaveRow(c)
  BY <1>2, <1>3 DEF SaveRow
<1> QED
  BY <1>1, <1>2, <1>3
  DEF WalletStep, CallStep, Receive, Validate, Setup, ReadRow, CallFails, Logout, Restart

(* The connection sees the wallet as one that changes its public key.      *)
LEMMA ConnectionSteps ==
  ASSUME KeyInv, [SessionNext]_sessionVars
  PROVE  [ConnectionNext]_connectionVars /\ KeyInv'
<1>1. CASE Answer
  BY <1>1, KeyStaysKey DEF Answer, ConnectionNext, KeyChanges, KeyInv
<1>2. CASE Communicate
  BY <1>2 DEF Communicate, ConnectionNext, ConnectionStep, Start, TimerFires, Publish, Open,
              Close, KeyInv
<1>3. CASE StartAgain
  BY <1>3, KeyStaysKey DEF StartAgain, ConnectionNext
<1>4. CASE UNCHANGED sessionVars
  BY <1>4 DEF sessionVars, vars, memory, connectionVars, KeyInv
<1> QED
  BY <1>1, <1>2, <1>3, <1>4 DEF SessionNext

-------------------------------------------------------------------------------
(* The session implements the wallet on its own.                           *)
THEOREM SessionImplementsWallet == SessionSpec => Spec
<1>1. SessionInit => Init
  BY DEF SessionInit
<1> QED
  BY <1>1, WalletSteps, PTL DEF SessionSpec, Spec

(* The session implements a connection whose wallet may do anything with   *)
(* its key (websocket.service.ts:49, wallet.service.ts:145-150).           *)
THEOREM SessionImplementsConnection == SessionSpec => ConnectionSpec
<1>1. SessionInit => publicKey = None /\ ConnInit /\ KeyInv
  BY DEF SessionInit, Init, KeyInv
<1> QED
  BY <1>1, ConnectionSteps, PTL DEF SessionSpec, ConnectionSpec

(* So a wallet that is locked, unlocked, given other keys and started      *)
(* again never loses its connection for good, and is registered whenever   *)
(* it has one (websocket.service.ts:38-64, 78-113).                        *)
THEOREM SessionNeverGivesUp == SessionSpec => [](NeverStranded /\ ConnectedIsRegistered)
BY SessionImplementsConnection, NeverGivenUp, OpenMeansRegistered, PTL

(* And a key is never encrypted twice (settings.service.ts:99-134).        *)
THEOREM SessionEncryptsOnce == SessionSpec => []EncryptedOnce
BY SessionImplementsWallet, NeverEncryptedTwice, PTL

(* While requests come one at a time, the process that serves them beside  *)
(* its connection holds no key but the stored one                          *)
(* (settings.service.ts:37-49, 129-138).                                   *)
THEOREM SessionHoldsStoredKey ==
  ASSUME AtOnce =< 1
  PROVE  SessionSpec => []SignsWithStoredKey
BY SessionImplementsWallet, MemoryHoldsStoredKey, PTL
===============================================================================
