------------------------------ MODULE WalletKeys -------------------------------
(***************************************************************************)
(* The private key: encrypted in the settings row, and split in memory     *)
(* while the wallet is unlocked (libs/wallet/src/wallet.service.ts,        *)
(* apps/hotwallet/src/settings/).  The operator unlocks, updates the       *)
(* settings, sets the password and logs out; a request gives way at each   *)
(* call of the database, and memory is gone when the process stops.        *)
(***************************************************************************)
EXTENDS PublicKey, Integers, FiniteSets, Sequences, SequencesExt

CONSTANTS
  BadKeys,     \* those that can be split and are no private key all the same
  Passwords,
  Kept,        \* the 'xxx' that stands for the stored key
  Calls,       \* requests of the operator (bound: each is made at most once)
  Requests,    \* what a request may ask for
  AtOnce,      \* bound: requests handled at the same time
  MaxFailures  \* bound: calls of the database that fail, and restarts

(* A request without a key has None; the empty string clears the key.      *)
Request ==
  [op : {"unlock"}, password : Passwords, key : {None}, old : {None}]
    \cup [op : {"update"}, password : Passwords, key : Keys \cup {Kept, ""}, old : {None}]
    \cup [op : {"password"}, password : Passwords, key : Keys \cup {None},
          old : Passwords \cup {None}]

ASSUME KeysAssumption ==
  /\ BadKeys \subseteq Keys
  /\ {None, Kept, ""} \cap Keys = {}
  /\ None \notin Passwords /\ Kept # None /\ Kept # "" /\ None # ""
  /\ IsFiniteSet(Calls)
  /\ Requests \subseteq Request
  /\ AtOnce \in Nat
  /\ MaxFailures \in Nat

VARIABLES
  row,        \* the settings row: the stored text and whether there is a password
  shards,     \* _shardKeys and _keyShards: one entry for each time a key was split
  pc,         \* where each request is
  request,    \* what it asks for
  text,       \* the encrypted key it is going to store
  existing,   \* the row it has read and is going to save
  failures    \* calls of the database that failed, and restarts

callVars == <<pc, request, text, existing>>
memory == <<shards, publicKey>>
vars == <<row, memory, callVars, failures>>

(* A text is a key under the passwords it was encrypted with, one after    *)
(* the other; decrypt takes the last one off (encryption.service.ts).      *)
Plain(k) == [key |-> k, locks |-> <<>>]
NoText == Plain(None)
Encrypted(t, p) == [key |-> t.key, locks |-> Append(t.locks, p)]
CanDecrypt(t, p) == t.locks # <<>> /\ Last(t.locks) = p
Decrypted(t) == [key |-> t.key, locks |-> Front(t.locks)]
IsEncrypted(t) == t.locks # <<>>

NoRow == [stored |-> NoText, hasPassword |-> FALSE]
NoRequest == [op |-> "none", password |-> None, key |-> None, old |-> None]

Init ==
  /\ row = NoRow
  /\ shards = <<>>
  /\ publicKey = None
  /\ pc = [c \in Calls |-> "idle"]
  /\ request = [c \in Calls |-> NoRequest]
  /\ text = [c \in Calls |-> NoText]
  /\ existing = [c \in Calls |-> NoRow]
  /\ failures = 0

InProgress == {c \in Calls : pc[c] \notin {"idle", "done"}}

Goto(c, label) == pc' = [pc EXCEPT ![c] = label]

(* The request is answered, and its variables are gone.                    *)
Returns(c) ==
  /\ Goto(c, "done")
  /\ request' = [request EXCEPT ![c] = NoRequest]
  /\ text' = [text EXCEPT ![c] = NoText]
  /\ existing' = [existing EXCEPT ![c] = NoRow]

Fail == failures < MaxFailures /\ failures' = failures + 1

-------------------------------------------------------------------------------
(* What is in memory.                                                      *)

WrongReset == UNCHANGED memory                        \* wrong: the old key stays
Reset == shards' = <<>> /\ publicKey' = None

(* init, once it has read the row: a wrong password stops it before it     *)
(* touches memory, a bad key after the key was split.                      *)
Opens(p) == row.stored.key \in Keys /\ CanDecrypt(row.stored, p)
WrongUsable(t) == TRUE                             \* wrong: not checked
Usable(t) == ~IsEncrypted(t) /\ t.key \notin BadKeys

InitWallet ==
  LET t == Decrypted(row.stored)
  IN /\ shards' = Append(shards, t.key)
     /\ publicKey' = IF Usable(t) THEN t.key ELSE publicKey

(* withSigner combines every shard there is; those of two splits give no   *)
(* key of the wallet, even if the key they were split from is the same.    *)
Signer == IF Len(shards) = 1 THEN shards[1] ELSE None

-------------------------------------------------------------------------------
(* The requests (settings.controller.ts).                                  *)

FirstStep == [unlock |-> "validate", update |-> "validate", password |-> "setup"]

Receive(c) ==
  /\ pc[c] = "idle"
  /\ Cardinality(InProgress) < AtOnce
  /\ \E r \in Requests :
       /\ request' = [request EXCEPT ![c] = r]
       /\ Goto(c, FirstStep[r.op])
  /\ UNCHANGED <<row, memory, text, existing, failures>>

(* validatePassword refuses when there is nothing to validate against.     *)
Validate(c) ==
  /\ pc[c] = "validate"
  /\ IF row.stored.key \in {None, ""} \/ ~row.hasPassword
     THEN Returns(c)
     ELSE Goto(c, "unlock") /\ UNCHANGED <<request, text, existing>>
  /\ UNCHANGED <<row, memory, failures>>

(* It unlocks the wallet to see whether the password is right, and so does *)
(* an update; setupPassword ends with it.                                  *)
Unlock(c) ==
  /\ pc[c] = "unlock"
  /\ IF Opens(request[c].password) THEN InitWallet ELSE UNCHANGED memory
  /\ IF request[c].op = "update" /\ Opens(request[c].password) /\ Usable(Decrypted(row.stored))
     THEN Goto(c, "read") /\ UNCHANGED <<request, text, existing>>
     ELSE Returns(c)
  /\ UNCHANGED <<row, failures>>

(* setupPassword takes the key of the request, or the stored one, for      *)
(* which it needs the old password unless it is stored as it is.           *)
MayKeep(r) == row.stored.key \in Keys /\ (IsEncrypted(row.stored) => CanDecrypt(row.stored, r.old))

WrongKeptText == row.stored                        \* wrong: what is encrypted, again
KeptText == IF IsEncrypted(row.stored) THEN Decrypted(row.stored) ELSE row.stored

Setup(c) ==
  /\ pc[c] = "setup"
  /\ LET r == request[c]
     IN IF r.key = None /\ ~MayKeep(r)
        THEN Returns(c)
        ELSE /\ text' = [text EXCEPT ![c] =
                   Encrypted(IF r.key = None THEN KeptText ELSE Plain(r.key), r.password)]
             /\ Goto(c, "read")
             /\ UNCHANGED <<request, existing>>
  /\ UNCHANGED <<row, memory, failures>>

(* DatabaseSettingsService.updateSettings: the row is read, changed and    *)
(* saved as a whole.  An update stores a new key as it is: nobody passes   *)
(* the password on (settings.controller.ts:55).                            *)
ReadRow(c) ==
  /\ pc[c] = "read"
  /\ existing' = [existing EXCEPT ![c] = row]
  /\ Goto(c, "save")
  /\ UNCHANGED <<row, memory, request, text, failures>>

NewText(c) ==
  IF request[c].op = "password" THEN text[c]
  ELSE IF request[c].key = Kept THEN existing[c].stored
  ELSE Plain(request[c].key)

(* A changed key clears memory.  The init that follows an update fails for *)
(* want of a password and changes nothing (settings.service.ts:48-56).     *)
SaveRow(c) ==
  /\ pc[c] = "save"
  /\ row' = [stored      |-> NewText(c),
             hasPassword |-> request[c].op = "password" \/ existing[c].hasPassword]
  /\ IF request[c].op = "password" \/ request[c].key \in Keys THEN Reset ELSE UNCHANGED memory
  /\ IF request[c].op = "password"
     THEN Goto(c, "unlock") /\ UNCHANGED <<request, text, existing>>
     ELSE Returns(c)
  /\ UNCHANGED failures

(* A call of the database rejects: what was done before stays done.        *)
CallFails(c) ==
  /\ c \in InProgress
  /\ Fail
  /\ Returns(c)
  /\ UNCHANGED <<row, memory>>

-------------------------------------------------------------------------------
Logout ==
  /\ Reset
  /\ UNCHANGED <<row, callVars, failures>>

(* The process stops and starts again, locked.                             *)
Restart ==
  /\ Fail
  /\ Reset
  /\ pc' = [c \in Calls |-> IF pc[c] = "idle" THEN "idle" ELSE "done"]
  /\ request' = [c \in Calls |-> NoRequest]
  /\ text' = [c \in Calls |-> NoText]
  /\ existing' = [c \in Calls |-> NoRow]
  /\ UNCHANGED row

CallStep(c) ==
  \/ Validate(c) \/ Unlock(c) \/ Setup(c) \/ ReadRow(c) \/ SaveRow(c) \/ CallFails(c)

WalletStep == (\E c \in Calls : Receive(c) \/ CallStep(c)) \/ Logout

Next == WalletStep \/ Restart

Spec == Init /\ [][Next]_vars

-------------------------------------------------------------------------------
Texts == [key : Keys \cup {None, ""}, locks : Seq(Passwords)]
Rows == [stored : Texts, hasPassword : BOOLEAN]

(* Every variable holds what the code can put there; a key whose public    *)
(* key is known was split, and is a private key (wallet.service.ts:59-76). *)
WalletTypeOK ==
  /\ row \in Rows
  /\ shards \in Seq(Keys)
  /\ publicKey \in {None} \cup (Range(shards) \ BadKeys)
  /\ request \in [Calls -> Request \cup {NoRequest}]
  /\ text \in [Calls -> Texts]
  /\ existing \in [Calls -> Rows]
  /\ \A c \in Calls :
       /\ pc[c] \in {"idle", "validate", "unlock", "setup", "read", "save", "done"}
       /\ pc[c] = "validate" => request[c].op \in {"unlock", "update"}
       /\ pc[c] \in {"read", "save"} => request[c].op \in {"update", "password"}
  /\ failures \in 0..MaxFailures

(* While requests come one at a time, the wallet signs with the stored key *)
(* or, if the operator has cleared it, with the last one: no restart,      *)
(* failure or logout between two steps of a request leaves an old key in   *)
(* memory (settings.service.ts:37-49, 129-138).                            *)
InMemory == Range(shards) \cup ({publicKey} \ {None})
SignsWithStoredKey == \A k \in InMemory : row.stored.key \in {k, None, ""}

(* A wallet that says it is "initialized with a valid signer" can sign     *)
(* (wallet.service.ts:163-167).                                            *)
InitializedMeansSigner == publicKey # None => Signer = publicKey

(* A stored key is in the clear or under one password: setting a password  *)
(* again never encrypts what is encrypted (settings.service.ts:109-120).   *)
EncryptedOnce == Len(row.stored.locks) =< 1
===============================================================================
