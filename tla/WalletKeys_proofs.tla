--------------------------- MODULE WalletKeys_proofs ----------------------------
(***************************************************************************)
(* That a key is never encrypted twice, for any number of requests, which  *)
(* may overlap, fail anywhere and be cut off by a restart.                 *)
(***************************************************************************)
EXTENDS WalletKeys, SequenceTheorems, FiniteSetTheorems, TLAPS

(* What is stored, what a request has read and what it is going to store   *)
(* is in the clear or under one password.                                  *)
OneLock(t) == t.locks \in Seq(Passwords \cup {None}) /\ Len(t.locks) =< 1

OneLockInv ==
  /\ OneLock(row.stored)
  /\ DOMAIN text = Calls /\ DOMAIN existing = Calls /\ DOMAIN request = Calls
  /\ \A c \in Calls :
       /\ OneLock(text[c])
       /\ OneLock(existing[c].stored)
       /\ request[c].password \in Passwords \cup {None}

LEMMA PlainHasNone == \A k : OneLock(Plain(k))
BY DEF OneLock, Plain

(* Encrypting what is in the clear gives one lock.                         *)
LEMMA EncryptedHasOne ==
  ASSUME NEW t, t.locks = <<>>, NEW p \in Passwords \cup {None}
  PROVE  OneLock(Encrypted(t, p))
BY DEF OneLock, Encrypted

(* The stored key is in the clear before it is encrypted.                  *)
LEMMA KeptIsClear ==
  ASSUME OneLock(row.stored)
  PROVE  KeptText.locks = <<>>
<1>1. CASE row.stored.locks = <<>>
  BY <1>1 DEF KeptText, IsEncrypted
<1>2. CASE row.stored.locks # <<>>
  <2> DEFINE s == row.stored.locks
  <2>1. s \in Seq(Passwords \cup {None}) /\ Len(s) \in Nat /\ Len(s) =< 1
    BY DEF OneLock
  <2>2. Len(s) # 0
    BY <1>2, <2>1, EmptySeq
  <2>3. Len(s) = 1
    <3> DEFINE n == Len(s)
    <3>1. n \in Nat /\ n =< 1 /\ n # 0
      BY <2>1, <2>2
    <3> HIDE DEF n
    <3>2. n = 1
      BY <3>1
    <3> QED
      BY <3>2 DEF n
  <2>4. SubSeq(s, 1, 0) = <<>>
    BY <2>1
  <2> QED
    BY <1>2, <2>3, <2>4 DEF KeptText, IsEncrypted, Decrypted, Front
<1> QED
  BY <1>1, <1>2

LEMMA InitOneLock == Init => OneLockInv
BY PlainHasNone DEF Init, OneLockInv, NoRow, NoText, NoRequest

(* Whoever returns keeps nothing.                                          *)
LEMMA ReturnsKeepsOneLock ==
  ASSUME OneLockInv, NEW c \in Calls, Returns(c), OneLock(row'.stored)
  PROVE  OneLockInv'
BY PlainHasNone DEF Returns, OneLockInv, NoRequest, NoText, NoRow

LEMMA CallsKeepOneLock ==
  ASSUME OneLockInv, NEW c \in Calls, Receive(c) \/ CallStep(c)
  PROVE  OneLockInv'
<1>1. CASE Receive(c)
  <2>1. PICK r \in Requests : request' = [request EXCEPT ![c] = r]
    BY <1>1 DEF Receive
  <2>2. r.password \in Passwords
    BY KeysAssumption DEF Request
  <2> QED
    BY <1>1, <2>1, <2>2 DEF Receive, OneLockInv
<1>2. CASE Validate(c)
  BY <1>2, ReturnsKeepsOneLock DEF Validate, OneLockInv
<1>3. CASE Unlock(c)
  BY <1>3, ReturnsKeepsOneLock DEF Unlock, OneLockInv
<1>4. CASE Setup(c)
  <2>1. CASE Returns(c)
    BY <1>4, <2>1, ReturnsKeepsOneLock DEF Setup, OneLockInv
  <2>2. CASE ~Returns(c)
    <3> DEFINE clear == IF request[c].key = None THEN KeptText ELSE Plain(request[c].key)
    <3>1. clear.locks = <<>>
      BY KeptIsClear DEF OneLockInv, Plain
    <3>2. OneLock(Encrypted(clear, request[c].password))
      BY <3>1, EncryptedHasOne DEF OneLockInv
    <3>3. text' = [text EXCEPT ![c] = Encrypted(clear, request[c].password)]
            /\ UNCHANGED <<row, request, existing>>
      BY <1>4, <2>2 DEF Setup
    <3> QED
      BY <3>2, <3>3 DEF OneLockInv
  <2> QED
    BY <2>1, <2>2
<1>5. CASE ReadRow(c)
  BY <1>5 DEF ReadRow, OneLockInv
<1>6. CASE SaveRow(c)
  <2>1. OneLock(NewText(c))
    BY PlainHasNone DEF NewText, OneLockInv
  <2>2. OneLock(row'.stored)
    BY <1>6, <2>1 DEF SaveRow
  <2> QED
    BY <1>6, <2>2, ReturnsKeepsOneLock DEF SaveRow, OneLockInv
<1>7. CASE CallFails(c)
  BY <1>7, ReturnsKeepsOneLock DEF CallFails, OneLockInv
<1> QED
  BY <1>1, <1>2, <1>3, <1>4, <1>5, <1>6, <1>7 DEF CallStep

LEMMA RestartKeepsOneLock ==
  ASSUME OneLockInv, Restart
  PROVE  OneLockInv'
BY PlainHasNone DEF Restart, OneLockInv, NoRequest, NoText, NoRow

(* A key is never encrypted twice, however requests overlap and wherever   *)
(* they fail (settings.service.ts:99-134).                                 *)
THEOREM NeverEncryptedTwice == Spec => []EncryptedOnce
<1>1. OneLockInv /\ [Next]_vars => OneLockInv'
  <2> SUFFICES ASSUME OneLockInv, [Next]_vars
               PROVE  OneLockInv'
    OBVIOUS
  <2>1. CASE \E c \in Calls : Receive(c) \/ CallStep(c)
    BY <2>1, CallsKeepOneLock
  <2>2. CASE Logout
    BY <2>2 DEF Logout, callVars, OneLockInv
  <2>3. CASE Restart
    BY <2>3, RestartKeepsOneLock
  <2>4. CASE UNCHANGED vars
    BY <2>4 DEF vars, callVars, OneLockInv
  <2> QED
    BY <2>1, <2>2, <2>3, <2>4 DEF Next, WalletStep
<1>2. OneLockInv => EncryptedOnce
  BY DEF OneLockInv, OneLock, EncryptedOnce
<1> QED
  BY <1>1, <1>2, InitOneLock, PTL DEF Spec

-------------------------------------------------------------------------------
(* While requests come one at a time: what is in memory is the stored key, *)
(* and a request that is going to save what it has read has read what is   *)
(* stored.                                                                 *)
IsStored(k) == row.stored.key \in {k, None, ""}

Alone == \A c, d \in InProgress : c = d

AskedInv ==
  /\ DOMAIN pc = Calls /\ DOMAIN request = Calls /\ DOMAIN existing = Calls
  /\ \A c \in Calls :
       /\ request[c].op = "update" => request[c].key \in Keys \cup {Kept, ""}
       /\ pc[c] = "setup" => request[c].op = "password"
       /\ pc[c] \in {"read", "save"} => request[c].op \in {"update", "password"}

SignInv ==
  /\ AskedInv
  /\ Alone
  /\ \A c \in Calls : pc[c] = "save" => existing[c] = row
  /\ shards \in Seq(Keys)
  /\ \A i \in DOMAIN shards : IsStored(shards[i])
  /\ publicKey # None => IsStored(publicKey)

LEMMA InitSign == Init => SignInv
<1> SUFFICES ASSUME Init
             PROVE  SignInv
  OBVIOUS
<1>1. AskedInv
  BY DEF Init, AskedInv, NoRequest
<1>2. Alone /\ \A c \in Calls : pc[c] # "save"
  BY DEF Init, Alone, InProgress
<1>3. shards = <<>> /\ publicKey = None
  BY DEF Init
<1> QED
  BY <1>1, <1>2, <1>3 DEF SignInv

(* A step of the only request in progress keeps it the only one.           *)
LEMMA StaysAlone ==
  ASSUME Alone, NEW c \in InProgress, NEW label, DOMAIN pc = Calls, Goto(c, label)
  PROVE  Alone' /\ \A d \in Calls : d # c => pc'[d] = pc[d] /\ pc'[d] \in {"idle", "done"}
BY DEF Alone, InProgress, Goto

LEMMA ReturnsKeepsAsked ==
  ASSUME AskedInv, NEW c \in Calls, Returns(c)
  PROVE  AskedInv'
BY DEF Returns, Goto, AskedInv, NoRequest

LEMMA ReceiveKeepsSign ==
  ASSUME SignInv, AtOnce =< 1, NEW c \in Calls, Receive(c)
  PROVE  SignInv'
<1>1. PICK r \in Requests : request' = [request EXCEPT ![c] = r] /\ Goto(c, FirstStep[r.op])
  BY DEF Receive
<1>2. UNCHANGED <<row, shards, publicKey, existing>> /\ Cardinality(InProgress) < AtOnce
  BY DEF Receive, memory
<1>3. r.op \in {"unlock", "update", "password"}
        /\ (r.op = "update" => r.key \in Keys \cup {Kept, ""})
  BY KeysAssumption DEF Request
<1>4. FirstStep[r.op] = IF r.op = "password" THEN "setup" ELSE "validate"
  <2>1. FirstStep["unlock"] = "validate" /\ FirstStep["update"] = "validate"
          /\ FirstStep["password"] = "setup"
    BY DEF FirstStep
  <2> QED
    BY <1>3, <2>1
<1>5. AskedInv'
  BY <1>1, <1>2, <1>3, <1>4 DEF SignInv, AskedInv, Goto
<1>6. InProgress = {}
  <2>1. IsFiniteSet(InProgress)
    BY FS_Subset, KeysAssumption DEF InProgress
  <2>2. Cardinality(InProgress) \in Nat
    BY <2>1, FS_CardinalityType
  <2>3. Cardinality(InProgress) = 0
    <3> DEFINE n == Cardinality(InProgress)
    <3>1. n \in Nat /\ n < AtOnce /\ AtOnce \in Nat
      BY <1>2, <2>2, KeysAssumption
    <3> HIDE DEF n
    <3>2. n = 0
      BY <3>1
    <3> QED
      BY <3>2 DEF n
  <2> QED
    BY <2>1, <2>3, FS_EmptySet
<1>7. Alone'
  BY <1>1, <1>6 DEF Alone, InProgress, Goto, SignInv, AskedInv
<1> QED
  BY <1>1, <1>2, <1>4, <1>5, <1>7 DEF SignInv, AskedInv, Goto, IsStored

LEMMA UnlockKeepsSign ==
  ASSUME SignInv, NEW c \in Calls, Unlock(c)
  PROVE  SignInv'
<1>1. c \in InProgress /\ row' = row /\ DOMAIN pc = Calls
  BY DEF Unlock, InProgress, SignInv, AskedInv
<1>2. \/ Returns(c)
      \/ Goto(c, "read") /\ request[c].op = "update" /\ UNCHANGED <<request, existing>>
  BY DEF Unlock
<1>3. AskedInv'
  BY <1>2, ReturnsKeepsAsked DEF SignInv, AskedInv, Goto
<1>4. Alone' /\ \A d \in Calls : pc'[d] = "save" => FALSE
  BY <1>1, <1>2, StaysAlone DEF SignInv, Returns, Goto
<1>5. CASE UNCHANGED memory
  BY <1>1, <1>3, <1>4, <1>5 DEF SignInv, memory, IsStored
<1>6. CASE Opens(request[c].password) /\ InitWallet
  <2> DEFINE k == row.stored.key
  <2>1. k \in Keys /\ shards' = Append(shards, k) /\ publicKey' \in {k, publicKey}
    BY <1>6 DEF Opens, InitWallet, Decrypted
  <2>2. shards' \in Seq(Keys) /\ \A i \in DOMAIN shards' : shards'[i] \in {k} \/
          (i \in DOMAIN shards /\ shards'[i] = shards[i])
    BY <2>1 DEF SignInv
  <2> QED
    BY <1>1, <1>3, <1>4, <2>1, <2>2 DEF SignInv, IsStored
<1> QED
  BY <1>5, <1>6 DEF Unlock

LEMMA SaveKeepsSign ==
  ASSUME SignInv, NEW c \in Calls, SaveRow(c)
  PROVE  SignInv'
<1>1. c \in InProgress /\ DOMAIN pc = Calls /\ pc[c] = "save"
        /\ request[c].op \in {"update", "password"}
  BY DEF SaveRow, InProgress, SignInv, AskedInv
<1>2. Returns(c) \/ (Goto(c, "unlock") /\ UNCHANGED <<request, existing>>)
  <2>1. CASE request[c].op = "password"
    BY <2>1 DEF SaveRow
  <2>2. CASE ~(request[c].op = "password")
    BY <2>2, Zenon DEF SaveRow
  <2> QED
    BY <2>1, <2>2
<1>3. AskedInv'
  BY <1>2, ReturnsKeepsAsked DEF SignInv, AskedInv, Goto
<1>4. Alone' /\ \A d \in Calls : pc'[d] = "save" => FALSE
  BY <1>1, <1>2, StaysAlone DEF SignInv, Returns, Goto
<1>5. CASE Reset
  <2>1. shards' = <<>> /\ publicKey' = None
    BY <1>5 DEF Reset
  <2> QED
    BY <1>3, <1>4, <2>1 DEF SignInv
<1>6. CASE UNCHANGED memory /\ request[c].op = "update" /\ request[c].key \notin Keys
  <2>1. request[c].key \in {Kept, ""}
    BY <1>6 DEF SignInv, AskedInv
  <2>2. row'.stored = NewText(c)
    BY DEF SaveRow
  <2>3. NewText(c) = IF request[c].key = Kept THEN row.stored ELSE Plain(request[c].key)
    BY <1>1, <1>6 DEF NewText, SignInv
  <2>4. row'.stored.key \in {row.stored.key, ""}
    <3>1. CASE request[c].key = Kept
      BY <2>2, <2>3, <3>1
    <3>2. CASE request[c].key # Kept
      <4>1. request[c].key = "" /\ row'.stored = Plain(request[c].key)
        BY <2>1, <2>2, <2>3, <3>2
      <4>2. Plain(request[c].key).key = request[c].key
        BY DEF Plain
      <4> QED
        BY <4>1, <4>2
    <3> QED
      BY <3>1, <3>2
  <2> QED
    BY <1>3, <1>4, <1>6, <2>4 DEF SignInv, memory, IsStored
<1> QED
  BY <1>1, <1>5, <1>6 DEF SaveRow

LEMMA CallsKeepSign ==
  ASSUME SignInv, NEW c \in Calls, CallStep(c)
  PROVE  SignInv'
<1>1. CASE Unlock(c)
  BY <1>1, UnlockKeepsSign
<1>2. CASE SaveRow(c)
  BY <1>2, SaveKeepsSign
<1>3. CASE ReadRow(c)
  <2>1. /\ pc[c] = "read" /\ pc' = [pc EXCEPT ![c] = "save"]
        /\ existing' = [existing EXCEPT ![c] = row]
        /\ UNCHANGED <<row, shards, publicKey, request>>
    BY <1>3 DEF ReadRow, Goto, memory
  <2>2. Alone'
    BY <2>1 DEF Alone, InProgress, SignInv, AskedInv
  <2>3. AskedInv'
    BY <2>1 DEF SignInv, AskedInv
  <2> QED
    BY <2>1, <2>2, <2>3 DEF SignInv, AskedInv, IsStored
<1>4. CASE Validate(c) \/ Setup(c) \/ CallFails(c)
  <2>1. c \in InProgress /\ DOMAIN pc = Calls /\ UNCHANGED <<row, shards, publicKey>>
    BY <1>4 DEF Validate, Setup, CallFails, InProgress, SignInv, AskedInv, memory
  <2>2. \/ Returns(c)
        \/ Goto(c, "unlock") /\ UNCHANGED <<request, existing>>
        \/ pc[c] = "setup" /\ Goto(c, "read") /\ UNCHANGED <<request, existing>>
    BY <1>4 DEF Validate, Setup, CallFails
  <2>3. AskedInv'
    BY <2>2, ReturnsKeepsAsked DEF SignInv, AskedInv, Goto
  <2>4. Alone' /\ \A d \in Calls : pc'[d] = "save" => FALSE
    BY <2>1, <2>2, StaysAlone DEF SignInv, Returns, Goto
  <2> QED
    BY <2>1, <2>3, <2>4 DEF SignInv, IsStored
<1> QED
  BY <1>1, <1>2, <1>3, <1>4 DEF CallStep

LEMMA ResetKeepsSign ==
  ASSUME SignInv, Logout \/ Restart
  PROVE  SignInv'
<1>1. shards' = <<>> /\ publicKey' = None /\ row' = row
  BY DEF Logout, Restart, Reset
<1>2. CASE Logout
  <2>1. UNCHANGED <<row, pc, request, existing>>
    BY <1>2 DEF Logout, callVars
  <2>2. AskedInv' /\ Alone'
    BY <2>1 DEF SignInv, AskedInv, Alone, InProgress
  <2> QED
    BY <1>1, <2>1, <2>2 DEF SignInv
<1>3. CASE Restart
  <2>1. /\ pc' = [c \in Calls |-> IF pc[c] = "idle" THEN "idle" ELSE "done"]
        /\ request' = [c \in Calls |-> NoRequest] /\ existing' = [c \in Calls |-> NoRow]
    BY <1>3 DEF Restart
  <2>2. AskedInv'
    BY <2>1 DEF AskedInv, NoRequest
  <2>3. Alone' /\ \A c \in Calls : pc'[c] # "save"
    BY <2>1 DEF Alone, InProgress
  <2> QED
    BY <1>1, <2>2, <2>3 DEF SignInv
<1> QED
  BY <1>2, <1>3

(* While the operator makes one request at a time, no key stays in memory  *)
(* that is not the stored one, for any number of requests, keys and        *)
(* passwords, wherever a call fails and whenever the process starts again  *)
(* (settings.service.ts:37-49, 129-138).                                   *)
THEOREM MemoryHoldsStoredKey ==
  ASSUME AtOnce =< 1
  PROVE  Spec => []SignsWithStoredKey
<1>1. SignInv /\ [Next]_vars => SignInv'
  <2> SUFFICES ASSUME SignInv, [Next]_vars
               PROVE  SignInv'
    OBVIOUS
  <2>1. CASE \E c \in Calls : Receive(c) \/ CallStep(c)
    BY <2>1, ReceiveKeepsSign, CallsKeepSign
  <2>2. CASE Logout \/ Restart
    BY <2>2, ResetKeepsSign
  <2>3. CASE UNCHANGED vars
    BY <2>3 DEF vars, memory, callVars, SignInv, AskedInv, Alone, InProgress, IsStored
  <2> QED
    BY <2>1, <2>2, <2>3 DEF Next, WalletStep
<1>2. SignInv => SignsWithStoredKey
  BY DEF SignInv, SignsWithStoredKey, InMemory, IsStored, Range
<1> QED
  BY <1>1, <1>2, InitSign, PTL DEF Spec
-------------------------------------------------------------------------------
(* What every variable holds.  A request whose password is going to be set *)
(* asks for that, which is why the text it makes is under a password.      *)
Labels == {"idle", "validate", "unlock", "setup", "read", "save", "done"}

WalletInv ==
  /\ WalletTypeOK
  /\ pc \in [Calls -> Labels]
  /\ \A c \in Calls : pc[c] = "setup" => request[c].op = "password"

(* Encryption and decryption make texts of texts.                          *)
LEMMA PlainIsText == \A k \in Keys \cup {None, ""} : Plain(k) \in Texts
<1> SUFFICES ASSUME NEW k \in Keys \cup {None, ""}
             PROVE  Plain(k) \in Texts
  OBVIOUS
<1>1. <<>> \in Seq(Passwords)
  BY EmptySeq
<1> QED
  BY <1>1 DEF Plain, Texts

LEMMA EncryptedIsText ==
  ASSUME NEW t \in Texts, NEW p \in Passwords
  PROVE  Encrypted(t, p) \in Texts
<1>1. t.locks \in Seq(Passwords) /\ t.key \in Keys \cup {None, ""}
  BY DEF Texts
<1>2. Append(t.locks, p) \in Seq(Passwords)
  BY <1>1, AppendProperties
<1> QED
  BY <1>1, <1>2 DEF Encrypted, Texts

LEMMA DecryptedIsText ==
  ASSUME NEW t \in Texts, t.locks # <<>>
  PROVE  Decrypted(t) \in Texts
<1> DEFINE s == t.locks
           n == Len(s)
<1>1. s \in Seq(Passwords) /\ t.key \in Keys \cup {None, ""}
  BY DEF Texts
<1>2. n \in Nat /\ n # 0
  BY <1>1, EmptySeq
<1>3. Front(s) \in Seq(Passwords)
  <2>1. \A i \in 1..(n - 1) : s[i] \in Passwords
    <3>1. \A i \in 1..n : s[i] \in Passwords
      BY <1>1, ElementOfSeq
    <3> HIDE DEF n
    <3> QED
      BY <1>2, <3>1
  <2> QED
    <3>1. n - 1 \in Int
      BY <1>2
    <3> QED
      BY <2>1, <3>1, SubSeqProperties DEF Front
<1> QED
  BY <1>1, <1>3 DEF Decrypted, Texts

LEMMA NothingIsTyped == NoText \in Texts /\ NoRow \in Rows
BY PlainIsText DEF NoText, NoRow, Rows

(* What a request may carry, by what it asks for.                          *)
LEMMA RequestIsTyped ==
  \A r \in Request :
    /\ r.op \in {"unlock", "update", "password"}
    /\ r.password \in Passwords
    /\ r.op = "update" => r.key \in Keys \cup {Kept, ""}
    /\ r.op = "password" => r.key \in Keys \cup {None}
BY DEF Request

LEMMA InitTyped == Init => WalletInv
<1> SUFFICES ASSUME Init
             PROVE  WalletInv
  OBVIOUS
<1>1. row \in Rows /\ text \in [Calls -> Texts] /\ existing \in [Calls -> Rows]
  BY NothingIsTyped DEF Init
<1>2. shards \in Seq(Keys) /\ publicKey = None /\ failures \in 0..MaxFailures
  <2>1. 0 \in 0..MaxFailures
    <3>1. MaxFailures \in Nat
      BY KeysAssumption, Zenon
    <3> QED
      BY <3>1
  <2>2. <<>> \in Seq(Keys)
    BY EmptySeq
  <2> QED
    BY <2>1, <2>2 DEF Init
<1>3. request \in [Calls -> Request \cup {NoRequest}] /\ pc = [c \in Calls |-> "idle"]
  BY DEF Init
<1>4. \A c \in Calls : pc[c] = "idle"
  BY <1>3
<1>5. pc \in [Calls -> Labels]
  BY <1>3 DEF Labels
<1> QED
  BY <1>1, <1>2, <1>3, <1>4, <1>5 DEF WalletInv, WalletTypeOK, Labels

(* The rest of a step that is about one request only.                      *)
CallsTyped ==
  /\ request \in [Calls -> Request \cup {NoRequest}]
  /\ text \in [Calls -> Texts]
  /\ existing \in [Calls -> Rows]
  /\ pc \in [Calls -> Labels]
  /\ \A c \in Calls :
       /\ pc[c] = "validate" => request[c].op \in {"unlock", "update"}
       /\ pc[c] \in {"read", "save"} => request[c].op \in {"update", "password"}
       /\ pc[c] = "setup" => request[c].op = "password"

MemoryTyped == shards \in Seq(Keys) /\ publicKey \in {None} \cup (Range(shards) \ BadKeys)

LEMMA WalletInvParts ==
  WalletInv <=> row \in Rows /\ MemoryTyped /\ CallsTyped /\ failures \in 0..MaxFailures
BY DEF WalletInv, WalletTypeOK, MemoryTyped, CallsTyped, Labels

LEMMA ReturnsTyped ==
  ASSUME CallsTyped, NEW c \in Calls, Returns(c)
  PROVE  CallsTyped'
<1>1. /\ pc' = [pc EXCEPT ![c] = "done"] /\ request' = [request EXCEPT ![c] = NoRequest]
      /\ text' = [text EXCEPT ![c] = NoText] /\ existing' = [existing EXCEPT ![c] = NoRow]
  BY DEF Returns, Goto
<1>2. request' \in [Calls -> Request \cup {NoRequest}]
  BY <1>1 DEF CallsTyped
<1>3. text' \in [Calls -> Texts] /\ existing' \in [Calls -> Rows]
  BY <1>1, NothingIsTyped DEF CallsTyped
<1>4. pc' \in [Calls -> Labels]
  BY <1>1 DEF CallsTyped, Labels
<1>5. \A d \in Calls : pc'[d] = "done" \/ (pc'[d] = pc[d] /\ request'[d] = request[d])
  BY <1>1 DEF CallsTyped
<1> QED
  BY <1>2, <1>3, <1>4, <1>5 DEF CallsTyped

(* Going on keeps the requests typed when the new label suits the request. *)
LEMMA GotoTyped ==
  ASSUME CallsTyped, NEW c \in Calls, NEW label \in {"unlock", "read", "save"},
         label # "unlock" => request[c].op \in {"update", "password"},
         Goto(c, label), UNCHANGED request,
         text' \in [Calls -> Texts], existing' \in [Calls -> Rows]
  PROVE  CallsTyped'
<1>1. pc' \in [Calls -> Labels]
  BY DEF CallsTyped, Goto, Labels
<1>2. request' \in [Calls -> Request \cup {NoRequest}]
  BY DEF CallsTyped
<1>3. \A d \in Calls : request'[d] = request[d] /\ (d # c => pc'[d] = pc[d]) /\ pc'[c] = label
  BY DEF CallsTyped, Goto
<1> QED
  BY <1>1, <1>2, <1>3 DEF CallsTyped

(* A reset leaves nothing, and a split adds a key that may be known.       *)
LEMMA ResetTyped ==
  ASSUME Reset
  PROVE  MemoryTyped'
BY DEF Reset, MemoryTyped

LEMMA InitWalletTyped ==
  ASSUME MemoryTyped, row \in Rows, NEW p, Opens(p), InitWallet
  PROVE  MemoryTyped'
<1> DEFINE k == row.stored.key
<1>1. k \in Keys /\ shards' = Append(shards, k)
  BY DEF Opens, InitWallet, Decrypted
<1>2. publicKey' = publicKey \/ (publicKey' = k /\ k \notin BadKeys)
  BY DEF InitWallet, Usable, Decrypted
<1>3. shards' \in Seq(Keys) /\ Len(shards) \in Nat /\ Len(shards') = Len(shards) + 1
  BY <1>1 DEF MemoryTyped
<1>4. Range(shards') = Range(shards) \cup {k}
  BY <1>1, AppendProperties DEF MemoryTyped, Range
<1> QED
  BY <1>2, <1>3, <1>4 DEF MemoryTyped

(* What a request takes from what is stored, or brings.                    *)
LEMMA SetupTyped ==
  ASSUME row \in Rows, CallsTyped, NEW c \in Calls, Setup(c)
  PROVE  CallsTyped'
<1> DEFINE r == request[c]
           clear == IF r.key = None THEN KeptText ELSE Plain(r.key)
<1>1. r.op = "password"
  BY DEF Setup, CallsTyped
<1>2. r \in Request
  BY <1>1 DEF CallsTyped, NoRequest
<1>3. r.password \in Passwords /\ r.key \in Keys \cup {None}
  BY <1>1, <1>2, RequestIsTyped
<1>4. row.stored \in Texts
  BY DEF Rows
<1>5. clear \in Texts
  BY <1>3, <1>4, PlainIsText, DecryptedIsText DEF KeptText, IsEncrypted
<1>6. CASE Returns(c)
  BY <1>6, ReturnsTyped
<1>7. CASE ~Returns(c)
  <2>1. /\ text' = [text EXCEPT ![c] = Encrypted(clear, r.password)]
        /\ Goto(c, "read") /\ UNCHANGED <<request, existing>>
    BY <1>7 DEF Setup
  <2>2. text' \in [Calls -> Texts] /\ existing' \in [Calls -> Rows]
    BY <1>3, <1>5, <2>1, EncryptedIsText DEF CallsTyped
  <2> QED
    BY <1>1, <2>1, <2>2, GotoTyped
<1> QED
  BY <1>6, <1>7

LEMMA SaveRowTyped ==
  ASSUME WalletInv, NEW c \in Calls, SaveRow(c)
  PROVE  WalletInv'
<1> DEFINE r == request[c]
<1>1. row \in Rows /\ MemoryTyped /\ CallsTyped /\ failures \in 0..MaxFailures
  BY WalletInvParts
<1>2. r.op \in {"update", "password"}
  BY <1>1 DEF SaveRow, CallsTyped
<1>3. r \in Request
  BY <1>1, <1>2 DEF CallsTyped, NoRequest
<1>4. existing[c] \in Rows /\ text[c] \in Texts
  BY <1>1 DEF CallsTyped
<1>5. NewText(c) \in Texts
  <2>1. existing[c].stored \in Texts
    BY <1>4 DEF Rows
  <2>2. r.op = "update" => r.key \in Keys \cup {Kept, ""}
    BY <1>3, RequestIsTyped
  <2> QED
    BY <1>2, <1>4, <2>1, <2>2, PlainIsText DEF NewText
<1>6. row' \in Rows
  <2>1. existing[c].hasPassword \in BOOLEAN
    BY <1>4 DEF Rows
  <2>2. (r.op = "password" \/ existing[c].hasPassword) \in BOOLEAN
    BY Zenon
  <2>3. row' = [stored |-> NewText(c), hasPassword |-> r.op = "password" \/ existing[c].hasPassword]
    BY DEF SaveRow
  <2> QED
    BY <1>5, <2>2, <2>3, Zenon DEF Rows
<1>7. MemoryTyped'
  <2>1. Reset \/ UNCHANGED memory
    BY Zenon DEF SaveRow
  <2>2. CASE UNCHANGED memory
    BY <1>1, <2>2 DEF memory, MemoryTyped
  <2> QED
    BY <2>1, <2>2, ResetTyped
<1>8. CallsTyped'
  <2>1. CASE Returns(c)
    BY <1>1, <2>1, ReturnsTyped
  <2>2. CASE Goto(c, "unlock") /\ UNCHANGED <<request, text, existing>>
    <3>1. text' \in [Calls -> Texts] /\ existing' \in [Calls -> Rows]
      BY <1>1, <2>2 DEF CallsTyped
    <3> QED
      BY <1>1, <2>2, <3>1, GotoTyped
  <2> QED
    BY <2>1, <2>2, Zenon DEF SaveRow
<1>9. failures' \in 0..MaxFailures
  BY <1>1 DEF SaveRow
<1> QED
  BY <1>6, <1>7, <1>8, <1>9 DEF WalletInv, WalletTypeOK, MemoryTyped, CallsTyped, Labels

LEMMA FailsTyped ==
  ASSUME failures \in 0..MaxFailures, Fail
  PROVE  failures' \in 0..MaxFailures
<1>1. MaxFailures \in Nat
  BY KeysAssumption, Zenon
<1> QED
  BY <1>1 DEF Fail

LEMMA CallsKeepTyped ==
  ASSUME WalletInv, NEW c \in Calls, Receive(c) \/ CallStep(c)
  PROVE  WalletInv'
<1>1. row \in Rows /\ MemoryTyped /\ CallsTyped /\ failures \in 0..MaxFailures
  BY WalletInvParts
<1>2. SUFFICES ASSUME ~SaveRow(c)
               PROVE  row' = row /\ MemoryTyped' /\ CallsTyped' /\ failures' \in 0..MaxFailures
  BY <1>1, SaveRowTyped DEF WalletInv, WalletTypeOK, MemoryTyped, CallsTyped, Labels
<1>3. CASE Receive(c)
  <2>1. PICK r \in Requests : request' = [request EXCEPT ![c] = r] /\ Goto(c, FirstStep[r.op])
    BY <1>3 DEF Receive
  <2>2. UNCHANGED <<row, memory, text, existing, failures>>
    BY <1>3 DEF Receive
  <2>3. r \in Request /\ r.op \in {"unlock", "update", "password"}
    BY KeysAssumption, RequestIsTyped
  <2>4. MemoryTyped'
    BY <1>1, <2>2 DEF memory, MemoryTyped
  <2>5. request' \in [Calls -> Request \cup {NoRequest}] /\ request'[c] = r
    BY <1>1, <2>1, <2>3 DEF CallsTyped
  <2>6. pc' = [pc EXCEPT ![c] = FirstStep[r.op]]
    BY <2>1 DEF Goto
  <2>7. FirstStep[r.op] = (IF r.op = "password" THEN "setup" ELSE "validate")
    BY <2>3 DEF FirstStep
  <2>8. pc' \in [Calls -> Labels]
    BY <1>1, <2>6, <2>7 DEF CallsTyped, Labels
  <2>9. \A d \in Calls : d # c => pc'[d] = pc[d] /\ request'[d] = request[d]
    BY <1>1, <2>1, <2>6 DEF CallsTyped
  <2>10. pc'[c] = FirstStep[r.op]
    BY <1>1, <2>6 DEF CallsTyped
  <2>11. CallsTyped'
    BY <1>1, <2>2, <2>3, <2>5, <2>7, <2>8, <2>9, <2>10 DEF CallsTyped
  <2> QED
    BY <1>1, <2>2, <2>4, <2>11
<1>4. CASE Validate(c)
  <2>1. UNCHANGED <<row, memory, failures>>
    BY <1>4 DEF Validate
  <2>2. MemoryTyped'
    BY <1>1, <2>1 DEF memory, MemoryTyped
  <2>3. Returns(c) \/ (Goto(c, "unlock") /\ UNCHANGED <<request, text, existing>>)
    BY <1>4, Zenon DEF Validate
  <2>4. CallsTyped'
    <3>1. CASE Goto(c, "unlock") /\ UNCHANGED <<request, text, existing>>
      <4>1. text' \in [Calls -> Texts] /\ existing' \in [Calls -> Rows]
        BY <1>1, <3>1 DEF CallsTyped
      <4> QED
        BY <1>1, <3>1, <4>1, GotoTyped
    <3> QED
      BY <1>1, <2>3, <3>1, ReturnsTyped
  <2> QED
    BY <1>1, <2>1, <2>2, <2>4
<1>5. CASE Unlock(c)
  <2>1. UNCHANGED <<row, failures>>
    BY <1>5 DEF Unlock
  <2>2. MemoryTyped'
    <3>1. (Opens(request[c].password) /\ InitWallet) \/ UNCHANGED memory
      BY <1>5, Zenon DEF Unlock
    <3>2. CASE UNCHANGED memory
      BY <1>1, <3>2 DEF memory, MemoryTyped
    <3> QED
      BY <1>1, <3>1, <3>2, InitWalletTyped
  <2>3. \/ Returns(c)
        \/ (Goto(c, "read") /\ request[c].op = "update" /\ UNCHANGED <<request, text, existing>>)
    BY <1>5, Zenon DEF Unlock
  <2>4. CallsTyped'
    <3>1. CASE Goto(c, "read") /\ request[c].op = "update" /\ UNCHANGED <<request, text, existing>>
      <4>1. text' \in [Calls -> Texts] /\ existing' \in [Calls -> Rows]
        BY <1>1, <3>1 DEF CallsTyped
      <4> QED
        BY <1>1, <3>1, <4>1, GotoTyped
    <3> QED
      BY <1>1, <2>3, <3>1, ReturnsTyped
  <2> QED
    BY <1>1, <2>1, <2>2, <2>4
<1>6. CASE Setup(c)
  <2>1. UNCHANGED <<row, memory, failures>>
    BY <1>6 DEF Setup
  <2>2. MemoryTyped'
    BY <1>1, <2>1 DEF memory, MemoryTyped
  <2> QED
    BY <1>1, <1>6, <2>1, <2>2, SetupTyped
<1>7. CASE ReadRow(c)
  <2>1. /\ existing' = [existing EXCEPT ![c] = row] /\ Goto(c, "save")
        /\ UNCHANGED <<row, memory, request, text, failures>> /\ pc[c] = "read"
    BY <1>7 DEF ReadRow
  <2>2. MemoryTyped'
    BY <1>1, <2>1 DEF memory, MemoryTyped
  <2>3. text' \in [Calls -> Texts] /\ existing' \in [Calls -> Rows]
    BY <1>1, <2>1 DEF CallsTyped
  <2>4. request[c].op \in {"update", "password"}
    BY <1>1, <2>1 DEF CallsTyped
  <2> QED
    BY <1>1, <2>1, <2>2, <2>3, <2>4, GotoTyped
<1>8. CASE CallFails(c)
  <2>1. Fail /\ Returns(c) /\ UNCHANGED <<row, memory>>
    BY <1>8 DEF CallFails
  <2>2. MemoryTyped'
    BY <1>1, <2>1 DEF memory, MemoryTyped
  <2> QED
    BY <1>1, <2>1, <2>2, ReturnsTyped, FailsTyped
<1> QED
  BY <1>2, <1>3, <1>4, <1>5, <1>6, <1>7, <1>8 DEF CallStep

(* Every variable of the wallet holds what the code can put there, and a   *)
(* known public key is that of a key that was split                        *)
(* (wallet.service.ts:59-76, settings.service.ts:99-138).                  *)
THEOREM WalletTypeCorrect == Spec => []WalletTypeOK
<1>1. WalletInv /\ [Next]_vars => WalletInv'
  <2> SUFFICES ASSUME WalletInv, [Next]_vars
               PROVE  WalletInv'
    OBVIOUS
  <2>1. row \in Rows /\ MemoryTyped /\ CallsTyped /\ failures \in 0..MaxFailures
    BY WalletInvParts
  <2>2. CASE \E c \in Calls : Receive(c) \/ CallStep(c)
    BY <2>2, CallsKeepTyped
  <2>3. CASE Logout
    <3>1. MemoryTyped' /\ UNCHANGED <<row, callVars, failures>>
      BY <2>3, ResetTyped DEF Logout
    <3> QED
      BY <2>1, <3>1 DEF callVars, WalletInv, WalletTypeOK, MemoryTyped, CallsTyped, Labels
  <2>4. CASE Restart
    <3>1. MemoryTyped' /\ row' = row /\ failures' \in 0..MaxFailures
      BY <2>1, <2>4, ResetTyped, FailsTyped DEF Restart
    <3>2. /\ request' \in [Calls -> Request \cup {NoRequest}]
          /\ text' \in [Calls -> Texts] /\ existing' \in [Calls -> Rows]
      BY <2>4, NothingIsTyped DEF Restart
    <3>3. pc' = [c \in Calls |-> IF pc[c] = "idle" THEN "idle" ELSE "done"]
      BY <2>4 DEF Restart
    <3>4. pc' \in [Calls -> Labels] /\ \A c \in Calls : pc'[c] \in {"idle", "done"}
      BY <3>3 DEF Labels
    <3>5. CallsTyped'
      BY <3>2, <3>4 DEF CallsTyped
    <3> QED
      BY <2>1, <3>1, <3>5 DEF WalletInv, WalletTypeOK, MemoryTyped, CallsTyped, Labels
  <2>5. CASE UNCHANGED vars
    BY <2>1, <2>5 DEF vars, callVars, memory, WalletInv, WalletTypeOK, MemoryTyped, CallsTyped,
                      Labels
  <2> QED
    BY <2>2, <2>3, <2>4, <2>5 DEF Next, WalletStep
<1>2. WalletInv => WalletTypeOK
  BY DEF WalletInv
<1> QED
  BY <1>1, <1>2, InitTyped, PTL DEF Spec
===============================================================================
