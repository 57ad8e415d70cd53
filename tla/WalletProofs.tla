----------------------------- MODULE WalletProofs -----------------------------
(***********************************************************************************)
(* Keys.  The proof that keys are safe with one caller whose unlock timers and     *)
(* changes of the passphrase do not meet, for any keys, seeds, passphrases,        *)
(* backups and number of expired timers, and with crashes and failing writes at    *)
(* any point.  (With a second caller, or with a timer that expires between the two *)
(* halves of ChangePassphrase, the code does lose keys.)  The invariant says what  *)
(* the memory, the file and the call under way each hold of the keys handed out so *)
(* far: an encrypted wallet has them in its sealed set, an open one in memory, and *)
(* a file about to be written has them and the keys of its call.                   *)
(*                                                                                 *)
(* Sends.  The proof that sends neither lose nor invent money, chain only on their *)
(* own unconfirmed transactions and estimate enough, for any senders, coins,       *)
(* requests, fee rate and number of transactions.  The invariant relates the       *)
(* ledger, which is the confirmed coins and the pool, to what a call under way     *)
(* still knows of them: a coin read at any time before is now the same or gone.    *)
(*                                                                                 *)
(* The journal.  The proof that every send is listed once and can be sent again.   *)
(***********************************************************************************)
EXTENDS Wallet, Spending, Sums, TLAPS

OneCaller == \A c, d \in Caller : c = d
TimedOrChange == \A p \in Profiles : ~(p.timed /\ p.change)

Wallets ==
    [keys : SUBSET Key, addresses : SUBSET Key, encrypted : BOOLEAN, locked : BOOLEAN,
     cipher : Ciphers, pass : Pass \cup {None}, seed : Seed \cup {None}, next : 0 .. MaxIndex + 1]

CallSteps == {"idle", "derive", "insert", "seed", "restore", "persist", "snap", "store", "change", "write"}

CallType ==
    [step : CallSteps, keys : SUBSET Key, file : Files \cup {None},
     arg : Pass \cup Seed \cup Backups \cup {None}]

Shut(x) == x.encrypted /\ x.locked

(* The memory, when the keys h were handed out and o may open the file. *)
MemoryOK(x, h, o) ==
    /\ x \in Wallets
    /\ x.encrypted => h \subseteq x.cipher.keys /\ x.cipher.pass \in o
    /\ ~Shut(x) => h \subseteq x.keys
    /\ x.encrypted /\ ~x.locked => x.pass = x.cipher.pass
    /\ ~x.encrypted => x.keys \subseteq x.addresses

FileOK(f, h, o) ==
    /\ f \in Files
    /\ h \subseteq Recoverable(f)
    /\ Recoverable(f) \subseteq f.addresses
    /\ f.encrypted => f.cipher.pass \in o

(* A call under way, over the memory x. *)
CallOK(k, x, h) ==
    /\ k \in CallType
    /\ k.arg \in Pass => k.step \in {"change", "store", "write"}
    /\ k.step = "seed" => k.arg \in Seed /\ k.keys = {}
    /\ k.step = "restore" => k.arg \in Backups /\ k.keys = k.arg.keys
    /\ k.step = "persist" /\ ~Shut(x) => k.keys \subseteq x.keys
    /\ k.step = "snap" => ~x.encrypted /\ k.keys \subseteq x.keys
    /\ k.step = "change" => x.encrypted /\ ~x.locked /\ k.keys = {} /\ k.arg \in Pass
    /\ k.step \in {"store", "write"} /\ ~Shut(x) => k.keys \subseteq x.keys
    /\ k.step = "store" => /\ x.encrypted /\ k.keys \subseteq x.cipher.keys
                           /\ x.cipher.keys \subseteq x.addresses
                           /\ k.arg \in Pass => x.cipher.pass = k.arg
    /\ k.step = "write" => /\ k.file \in Files /\ k.file.encrypted = x.encrypted
                           /\ h \cup k.keys \subseteq Recoverable(k.file)
                           /\ Recoverable(k.file) \subseteq k.file.addresses
                           /\ x.encrypted => k.file.cipher = x.cipher
                           /\ k.arg \in Pass => x.encrypted /\ x.cipher.pass = k.arg

TimersOK ==
    /\ profile \in Profiles
    /\ armed \in BOOLEAN /\ fired \in 0 .. MaxFired
    /\ armed \/ fired > 0 => w.encrypted /\ profile.timed
    /\ \A c \in Caller : call[c].step = "change" => profile.change

WalletInv ==
    /\ handed \subseteq Key /\ opens \subseteq Pass
    /\ MemoryOK(w, handed, opens) /\ FileOK(disk, handed, opens)
    /\ ~w.encrypted => ~disk.encrypted
    /\ call \in [Caller -> CallType]
    /\ \A c \in Caller : CallOK(call[c], w, handed)
    /\ TimersOK

LEMMA WalletInvSound == WalletInv => KeysSafe /\ WalletTypeOK
<1> SUFFICES ASSUME WalletInv PROVE KeysSafe /\ WalletTypeOK
  OBVIOUS
<1>1. KeysSafe
  BY DEF WalletInv, FileOK, KeysSafe, HandedOutRecoverable, FileListsItsKeys, PassphraseOpens
<1>2. \A c \in Caller : call[c].keys \subseteq Key
  BY DEF WalletInv, CallType
<1>3. WalletTypeOK
  BY <1>2 DEF WalletInv, MemoryOK, FileOK, TimersOK, Wallets, WalletTypeOK
<1> QED  BY <1>1, <1>3
-----------------------------------------------------------------------------
(* What the operations on the memory do *)

LEMMA RefreshKeeps ==
    ASSUME NEW x \in Wallets, NEW r, r = refreshMetadata(x)
    PROVE  /\ r \in Wallets
           /\ r.keys = x.keys /\ r.encrypted = x.encrypted /\ r.locked = x.locked /\ r.cipher = x.cipher
           /\ r.pass = x.pass /\ r.seed = x.seed /\ r.next = x.next
           /\ x.keys \subseteq r.addresses
<1> DEFINE part(K) == IF x.keys \cap K # {} \/ ~x.encrypted THEN x.keys \cap K ELSE x.addresses \cap K
           a == part(Hybrid) \cup part(Key \ Hybrid)
<1>1. a \subseteq Key /\ x.keys \subseteq a
  BY DEF Wallets
<1>2. r = [x EXCEPT !.addresses = a]
  BY DEF refreshMetadata
<1> HIDE DEF a
<1> QED  BY <1>1, <1>2 DEF Wallets

LEMMA LockedIs ==
    ASSUME NEW x \in Wallets, NEW r, r = Locked(x)
    PROVE  /\ r \in Wallets /\ r.locked /\ r.keys = {} /\ r.addresses = x.addresses
           /\ r.encrypted = x.encrypted /\ r.cipher = x.cipher
  BY DEF Locked, Wallets

LEMMA SealIs ==
    ASSUME NEW x \in Wallets, NEW p \in Pass \cup {None}
    PROVE  Seal(x, p) \in Ciphers /\ Seal(x, p).keys = x.keys /\ Seal(x, p).pass = p
  BY DEF Seal, Ciphers, Wallets

LEMMA UnlockedIs ==
    ASSUME NEW x \in Wallets, NEW p \in Pass \cup {None}, NEW r, r = Unlocked(x, p)
    PROVE  /\ r \in Wallets /\ ~r.locked /\ r.keys = x.cipher.keys /\ r.pass = p
           /\ r.encrypted = x.encrypted /\ r.cipher = x.cipher
<1> DEFINE y == [x EXCEPT !.keys = x.cipher.keys, !.seed = x.cipher.seed,
                          !.next = x.cipher.next, !.locked = FALSE, !.pass = p]
<1>1. x.cipher \in Ciphers
  BY DEF Wallets
<1>2. x.cipher.keys \in SUBSET Key /\ x.cipher.seed \in Seed \cup {None} /\ x.cipher.next \in 0 .. MaxIndex + 1
  BY <1>1 DEF Ciphers
<1>3. y \in Wallets /\ ~y.locked /\ y.keys = x.cipher.keys /\ y.pass = p
      /\ y.encrypted = x.encrypted /\ y.cipher = x.cipher
  BY <1>2 DEF Wallets
<1>4. r = refreshMetadata(y)
  BY DEF Unlocked
<1> HIDE DEF y
<1> QED  BY <1>3, <1>4, RefreshKeeps

LEMMA PlainFileIs ==
    ASSUME NEW x \in Wallets, NEW f, f = PlainFile(x)
    PROVE  /\ f \in Files /\ ~f.encrypted /\ Recoverable(f) = x.keys /\ f.addresses = x.addresses
<1>1. NoCipher \in Ciphers
  BY WalletAssumption DEF NoCipher, Ciphers
<1> QED  BY <1>1 DEF PlainFile, Files, Wallets, Recoverable

LEMMA SealedFileIs ==
    ASSUME NEW x \in Wallets, x.encrypted, NEW f, f = SealedFile(x)
    PROVE  /\ f \in Files /\ f.encrypted /\ Recoverable(f) = x.cipher.keys /\ f.addresses = x.addresses
           /\ f.cipher = x.cipher
  BY DEF SealedFile, Files, Wallets, Recoverable

(* Open after a restart finds what was handed out. *)
LEMMA OpenIs ==
    ASSUME NEW f, NEW h, NEW o, FileOK(f, h, o), NEW r, r = Open(f)
    PROVE  MemoryOK(r, h, o) /\ r.encrypted = f.encrypted
<1> DEFINE x == [keys |-> f.keys, addresses |-> f.addresses, encrypted |-> f.encrypted,
                 locked |-> f.encrypted, cipher |-> f.cipher, pass |-> None,
                 seed |-> f.seed, next |-> f.next]
<1>1. x \in Wallets
  BY DEF FileOK, Files, Wallets
<1>2. /\ x.keys = f.keys /\ x.encrypted = f.encrypted /\ x.locked = f.encrypted /\ x.cipher = f.cipher
  OBVIOUS
<1>3. r = IF f.encrypted THEN x ELSE refreshMetadata(x)
  BY DEF Open
<1> HIDE DEF x
<1>4. CASE f.encrypted
  BY <1>1, <1>2, <1>3, <1>4 DEF FileOK, MemoryOK, Recoverable, Shut
<1>5. CASE ~f.encrypted
  BY <1>1, <1>2, <1>3, <1>5, RefreshKeeps DEF FileOK, MemoryOK, Recoverable, Shut
<1> QED  BY <1>4, <1>5 DEF FileOK, Files

LEMMA IdleOK ==
    ASSUME NEW x, NEW h
    PROVE  Idle \in CallType /\ CallOK(Idle, x, h) /\ Idle.step = "idle"
  BY WalletAssumption DEF Idle, CallType, CallSteps, CallOK
-----------------------------------------------------------------------------------
(* The steps of a call *)

(* The only call under way becomes k. *)
LEMMA CallerMoves ==
    ASSUME OneCaller, WalletInv, NEW c \in Caller, NEW k, call' = [call EXCEPT ![c] = k],
           CallOK(k, w', handed')
    PROVE  /\ call' \in [Caller -> CallType] /\ call'[c] = k
           /\ \A d \in Caller : CallOK(call'[d], w', handed')
           /\ \A d \in Caller : d = c
  BY DEF OneCaller, WalletInv, CallOK

(* The call moves on and only the memory changes with it. *)
LEMMA MemoryMoves ==
    ASSUME OneCaller, WalletInv, NEW c \in Caller, NEW k, call' = [call EXCEPT ![c] = k],
           MemoryOK(w', handed, opens), CallOK(k, w', handed), k.step # "change",
           w'.encrypted = w.encrypted, UNCHANGED <<profile, disk, armed, fired, handed, opens>>
    PROVE  WalletInv'
<1>1. /\ call' \in [Caller -> CallType] /\ \A d \in Caller : CallOK(call'[d], w', handed')
      /\ \A d \in Caller : call'[d] = k
  BY CallerMoves
<1>2. TimersOK'
  BY <1>1 DEF WalletInv, TimersOK
<1> QED  BY <1>1, <1>2 DEF WalletInv

(* The same without a change of the memory. *)
LEMMA OnlyCallMoves ==
    ASSUME OneCaller, WalletInv, NEW c \in Caller, NEW k, call' = [call EXCEPT ![c] = k],
           CallOK(k, w, handed), k.step # "change",
           UNCHANGED <<profile, w, disk, armed, fired, handed, opens>>
    PROVE  WalletInv'
  BY MemoryMoves DEF WalletInv

LEMMA StepBegin ==
    ASSUME OneCaller, WalletInv, NEW c \in Caller,
           \/ NewAddress(c) \/ NewHybridAddress(c) \/ ImportPrivKey(c) \/ SetHDSeed(c) \/ RestorePlainBackup(c)
    PROVE  WalletInv'
<1>1. UNCHANGED <<profile, w, disk, armed, fired, handed, opens>>
  BY DEF NewAddress, NewHybridAddress, ImportPrivKey, SetHDSeed, RestorePlainBackup
<1>2. ASSUME NEW st \in {"derive", "insert"}, NEW K \in SUBSET Key, Begin(c, st, K, None)
      PROVE  WalletInv'
  <2> DEFINE k == [Idle EXCEPT !.step = st, !.keys = K, !.arg = None]
  <2>1. call' = [call EXCEPT ![c] = k]
    BY <1>2 DEF Begin
  <2>2. k = [Idle EXCEPT !.step = st, !.keys = K, !.arg = None]
    OBVIOUS
  <2> HIDE DEF k
  <2>3. k \in CallType /\ k.step = st /\ k.keys = K /\ k.arg = None
    BY <2>2 DEF Idle, CallType, CallSteps
  <2>4. CallOK(k, w, handed)
    BY <2>3, WalletAssumption DEF CallOK
  <2> QED  BY <1>1, <2>1, <2>3, <2>4, OnlyCallMoves
<1>3. ASSUME NEW s \in Seed, Begin(c, "seed", {}, s)
      PROVE  WalletInv'
  <2> DEFINE k == [Idle EXCEPT !.step = "seed", !.keys = {}, !.arg = s]
  <2>1. call' = [call EXCEPT ![c] = k]
    BY <1>3 DEF Begin
  <2>2. k = [Idle EXCEPT !.step = "seed", !.keys = {}, !.arg = s]
    OBVIOUS
  <2> HIDE DEF k
  <2>3. k \in CallType /\ k.step = "seed" /\ k.keys = {} /\ k.arg = s
    BY <2>2 DEF Idle, CallType, CallSteps
  <2>4. CallOK(k, w, handed)
    BY <2>3, WalletAssumption DEF CallOK
  <2> QED  BY <1>1, <2>1, <2>3, <2>4, OnlyCallMoves
<1>4. ASSUME NEW b \in Backups, Begin(c, "restore", b.keys, b)
      PROVE  WalletInv'
  <2> DEFINE k == [Idle EXCEPT !.step = "restore", !.keys = b.keys, !.arg = b]
  <2>0. b.keys \in SUBSET Key
    BY WalletAssumption
  <2>1. call' = [call EXCEPT ![c] = k]
    BY <1>4 DEF Begin
  <2>2. k = [Idle EXCEPT !.step = "restore", !.keys = b.keys, !.arg = b]
    OBVIOUS
  <2> HIDE DEF k
  <2>3. k \in CallType /\ k.step = "restore" /\ k.keys = b.keys /\ k.arg = b
    BY <2>0, <2>2 DEF Idle, CallType, CallSteps
  <2>4. CallOK(k, w, handed)
    BY <2>3, WalletAssumption DEF CallOK
  <2> QED  BY <1>1, <2>1, <2>3, <2>4, OnlyCallMoves
<1>5. \A x \in Hybrid \cup Imported : {x} \in SUBSET Key
  BY DEF Key
<1>6. \/ \E st \in {"derive", "insert"}, K \in SUBSET Key : Begin(c, st, K, None)
      \/ \E s \in Seed : Begin(c, "seed", {}, s)
      \/ \E b \in Backups : Begin(c, "restore", b.keys, b)
  BY <1>5 DEF NewAddress, NewHybridAddress, ImportPrivKey, SetHDSeed, RestorePlainBackup, Unused
<1> QED  BY <1>2, <1>3, <1>4, <1>6

(* Where the call stands, as a record of its own. *)
LEMMA CallIs ==
    ASSUME WalletInv, NEW c \in Caller
    PROVE  /\ call[c] \in CallType /\ CallOK(call[c], w, handed) /\ w \in Wallets
           /\ MemoryOK(w, handed, opens) /\ handed \subseteq Key
  BY DEF WalletInv, MemoryOK

LEMMA GoesIs ==
    ASSUME WalletInv, NEW c \in Caller, NEW st \in CallSteps, NEW k, k = [call[c] EXCEPT !.step = st]
    PROVE  k \in CallType /\ k.step = st /\ k.keys = call[c].keys /\ k.arg = call[c].arg /\ k.file = call[c].file
  BY CallIs DEF CallType

LEMMA StepDerive ==
    ASSUME OneCaller, WalletInv, NEW c \in Caller, Derive(c)
    PROVE  WalletInv'
<1>1. PICK k \in Derived \cup Unused(Random) :
         /\ IF w.seed # None
            THEN /\ k = <<w.seed, w.next>>
                 /\ w' = [w EXCEPT !.next = w.next + 1]
            ELSE k \in Random /\ UNCHANGED w
         /\ call' = [call EXCEPT ![c].step = "insert", ![c].keys = {k}]
  BY DEF Derive
<1>2. call[c].step = "derive" /\ UNCHANGED <<profile, disk, armed, fired, handed, opens>>
  BY DEF Derive, In
<1>3. w \in Wallets /\ call[c] \in CallType /\ CallOK(call[c], w, handed) /\ MemoryOK(w, handed, opens)
  BY CallIs
<1>4. /\ w' \in Wallets /\ w'.keys = w.keys /\ w'.addresses = w.addresses /\ w'.encrypted = w.encrypted
      /\ w'.locked = w.locked /\ w'.cipher = w.cipher /\ w'.pass = w.pass
  <2>1. CASE w.seed = None
    BY <1>1, <1>3, <2>1
  <2>2. CASE w.seed # None
    <3> DEFINE n == w.next + 1
    <3>1. w.next \in Nat
      BY <1>3, WalletAssumption DEF Wallets
    <3>2. k = <<w.seed, w.next>> /\ w' = [w EXCEPT !.next = n]
      BY <1>1, <2>2
    <3>3. w.seed \in Seed /\ w.next \in 0 .. MaxIndex + 1
      BY <1>3, <2>2 DEF Wallets
    <3>4. k \in Derived
      <4>1. k \in Seed \X (0 .. MaxIndex + 1)
        BY <3>2, <3>3
      <4>2. k \notin Random
        BY <4>1, WalletAssumption
      <4> QED  BY <1>1, <4>2 DEF Unused
    <3>5. w.next <= MaxIndex
      BY <3>2, <3>4, WalletAssumption DEF Derived
    <3>6. n \in 0 .. MaxIndex + 1
      BY <3>1, <3>5, WalletAssumption
    <3> HIDE DEF n
    <3> QED  BY <1>3, <3>2, <3>6 DEF Wallets
  <2> QED  BY <2>1, <2>2
<1> DEFINE new == [call[c] EXCEPT !.step = "insert", !.keys = {k}]
<1>5. k \in Key
  BY DEF Unused, Key
<1>6. new \in CallType /\ new.step = "insert" /\ new.arg = call[c].arg
  BY <1>3, <1>5 DEF CallType, CallSteps
<1>7. call' = [call EXCEPT ![c] = new]
  BY <1>1
<1> HIDE DEF new
<1>8. CallOK(new, w', handed)
  BY <1>2, <1>3, <1>6 DEF CallOK
<1>9. MemoryOK(w', handed, opens)
  BY <1>3, <1>4 DEF MemoryOK, Shut
<1> QED  BY <1>2, <1>4, <1>6, <1>7, <1>8, <1>9, MemoryMoves

LEMMA StepInsert ==
    ASSUME OneCaller, WalletInv, NEW c \in Caller, Insert(c)
    PROVE  WalletInv'
<1>1. /\ call[c].step = "insert" /\ UNCHANGED <<profile, disk, armed, fired, handed, opens>>
      /\ w' = refreshMetadata([w EXCEPT !.keys = w.keys \cup call[c].keys,
                                        !.addresses = w.addresses \cup call[c].keys])
      /\ call' = [call EXCEPT ![c].step = "persist"]
  BY DEF Insert, In, Goes
<1>2. w \in Wallets /\ call[c] \in CallType /\ CallOK(call[c], w, handed) /\ MemoryOK(w, handed, opens)
  BY CallIs
<1> DEFINE x == [w EXCEPT !.keys = w.keys \cup call[c].keys, !.addresses = w.addresses \cup call[c].keys]
           k == [call[c] EXCEPT !.step = "persist"]
<1>3. x \in Wallets /\ x.keys = w.keys \cup call[c].keys /\ x.encrypted = w.encrypted /\ x.locked = w.locked
      /\ x.cipher = w.cipher /\ x.pass = w.pass
  BY <1>2 DEF Wallets, CallType
<1>4. w' = refreshMetadata(x)
  BY <1>1
<1>5. k \in CallType /\ k.step = "persist" /\ k.keys = call[c].keys /\ k.arg = call[c].arg
  BY <1>2 DEF CallType, CallSteps
<1>6. call' = [call EXCEPT ![c] = k]
  BY <1>1
<1> HIDE DEF x, k
<1>7. /\ w' \in Wallets /\ w'.keys = w.keys \cup k.keys /\ w'.encrypted = w.encrypted /\ w'.locked = w.locked
      /\ w'.cipher = w.cipher /\ w'.pass = w.pass /\ w'.keys \subseteq w'.addresses
  BY <1>3, <1>4, <1>5, RefreshKeeps
<1>8. MemoryOK(w', handed, opens)
  BY <1>2, <1>7 DEF MemoryOK, Shut
<1>9. CallOK(k, w', handed)
  BY <1>1, <1>2, <1>5, <1>7 DEF CallOK
<1> QED  BY <1>1, <1>5, <1>6, <1>7, <1>8, <1>9, MemoryMoves

(* The memory after a change of the seed and its index alone, or of more keys. *)
LEMMA MoreKeysOK ==
    ASSUME NEW x \in Wallets, NEW h, NEW o, MemoryOK(x, h, o), NEW r \in Wallets,
           x.keys \subseteq r.keys, r.keys \subseteq r.addresses, r.encrypted = x.encrypted,
           r.locked = x.locked, r.cipher = x.cipher, r.pass = x.pass
    PROVE  MemoryOK(r, h, o)
  BY DEF MemoryOK, Shut

LEMMA StepApplySeed ==
    ASSUME OneCaller, WalletInv, NEW c \in Caller, ApplySeed(c)
    PROVE  WalletInv'
<1>1. /\ call[c].step = "seed" /\ UNCHANGED <<profile, disk, armed, fired, handed, opens>>
      /\ w' = refreshMetadata([w EXCEPT !.seed = call[c].arg, !.next = 0])
      /\ call' = [call EXCEPT ![c].step = "persist"]
  BY DEF ApplySeed, In, Goes
<1>2. w \in Wallets /\ call[c] \in CallType /\ CallOK(call[c], w, handed) /\ MemoryOK(w, handed, opens)
  BY CallIs
<1>3. call[c].arg \in Seed
  BY <1>1, <1>2 DEF CallOK
<1>4. 0 \in 0 .. MaxIndex + 1
  BY WalletAssumption
<1> DEFINE x == [w EXCEPT !.seed = call[c].arg, !.next = 0]
           k == [call[c] EXCEPT !.step = "persist"]
<1>5. x \in Wallets /\ x.keys = w.keys /\ x.encrypted = w.encrypted /\ x.locked = w.locked
      /\ x.cipher = w.cipher /\ x.pass = w.pass
  BY <1>2, <1>3, <1>4 DEF Wallets
<1>6. w' = refreshMetadata(x)
  BY <1>1
<1>7. k \in CallType /\ k.step = "persist" /\ k.keys = call[c].keys /\ k.arg = call[c].arg
  BY <1>2 DEF CallType, CallSteps
<1>8. call' = [call EXCEPT ![c] = k]
  BY <1>1
<1> HIDE DEF x, k
<1>9. /\ w' \in Wallets /\ w'.keys = w.keys /\ w'.encrypted = w.encrypted /\ w'.locked = w.locked
      /\ w'.cipher = w.cipher /\ w'.pass = w.pass /\ w'.keys \subseteq w'.addresses
  BY <1>5, <1>6, RefreshKeeps
<1>10. MemoryOK(w', handed, opens)
  BY <1>2, <1>9, MoreKeysOK
<1>11. k.keys = {}
  BY <1>1, <1>2, <1>7 DEF CallOK
<1>12. CallOK(k, w', handed)
  BY <1>1, <1>2, <1>7, <1>9, <1>11 DEF CallOK
<1> QED  BY <1>1, <1>7, <1>8, <1>9, <1>10, <1>12, MemoryMoves

LEMMA StepRestore ==
    ASSUME OneCaller, WalletInv, NEW c \in Caller, Restore(c)
    PROVE  WalletInv'
<1> DEFINE b == call[c].arg
           s == IF w.seed = None THEN b.seed ELSE w.seed
           n == IF b.next > w.next THEN b.next ELSE w.next
           x == [w EXCEPT !.keys = w.keys \cup b.keys, !.addresses = w.addresses \cup b.keys,
                          !.seed = s, !.next = n]
           k == [call[c] EXCEPT !.step = "persist"]
<1>1. /\ call[c].step = "restore" /\ UNCHANGED <<profile, disk, armed, fired, handed, opens>>
      /\ w' = refreshMetadata(x) /\ call' = [call EXCEPT ![c] = k]
  BY DEF Restore, In, Goes
<1>2. w \in Wallets /\ call[c] \in CallType /\ CallOK(call[c], w, handed) /\ MemoryOK(w, handed, opens)
  BY CallIs
<1>3. b \in Backups /\ call[c].keys = b.keys
  BY <1>1, <1>2 DEF CallOK
<1>4. b.keys \in SUBSET Key /\ b.seed \in Seed \cup {None} /\ b.next \in 0 .. MaxIndex + 1
  BY <1>3, WalletAssumption
<1>5. s \in Seed \cup {None} /\ n \in 0 .. MaxIndex + 1
  BY <1>2, <1>4 DEF Wallets
<1> HIDE DEF s, n
<1>6. x \in Wallets /\ x.keys = w.keys \cup b.keys /\ x.encrypted = w.encrypted /\ x.locked = w.locked
      /\ x.cipher = w.cipher /\ x.pass = w.pass
  BY <1>2, <1>4, <1>5 DEF Wallets
<1>7. k \in CallType /\ k.step = "persist" /\ k.keys = call[c].keys /\ k.arg = call[c].arg
  BY <1>2 DEF CallType, CallSteps
<1> HIDE DEF x, k
<1>8. /\ w' \in Wallets /\ w'.keys = w.keys \cup k.keys /\ w'.encrypted = w.encrypted /\ w'.locked = w.locked
      /\ w'.cipher = w.cipher /\ w'.pass = w.pass /\ w'.keys \subseteq w'.addresses
  BY <1>1, <1>3, <1>6, <1>7, RefreshKeeps
<1>9. MemoryOK(w', handed, opens)
  BY <1>2, <1>8, MoreKeysOK
<1>10. CallOK(k, w', handed)
  BY <1>1, <1>2, <1>7, <1>8 DEF CallOK
<1> QED  BY <1>1, <1>7, <1>8, <1>9, <1>10, MemoryMoves

LEMMA StepReturns ==
    ASSUME OneCaller, WalletInv, NEW c \in Caller, Returns(c),
           UNCHANGED <<profile, w, disk, armed, fired, handed, opens>>
    PROVE  WalletInv'
<1>1. CallOK(Idle, w, handed) /\ Idle.step # "change"
  BY IdleOK
<1> QED  BY <1>1, OnlyCallMoves DEF Returns

LEMMA StepPersist ==
    ASSUME OneCaller, WalletInv, NEW c \in Caller, Persist(c)
    PROVE  WalletInv'
<1>1. call[c].step = "persist" /\ UNCHANGED <<profile, disk, armed, fired, handed, opens>>
  BY DEF Persist, In
<1>2. w \in Wallets /\ call[c] \in CallType /\ CallOK(call[c], w, handed) /\ MemoryOK(w, handed, opens)
  BY CallIs
<1>3. call[c].arg \notin Pass
  BY <1>1, <1>2 DEF CallOK
<1>4. CASE w.encrypted /\ w.locked
  BY <1>1, <1>4, StepReturns DEF Persist
<1>5. CASE w.encrypted /\ ~w.locked
  <2> DEFINE y == refreshMetadata(w)
             k == [call[c] EXCEPT !.step = "store"]
  <2>1. w' = [y EXCEPT !.cipher = Seal(y, y.pass)] /\ call' = [call EXCEPT ![c] = k]
    BY <1>5 DEF Persist, Goes
  <2>2. y \in Wallets /\ y.pass = w.pass
    BY <1>2, RefreshKeeps
  <2>3. w.pass \in Pass \cup {None} /\ w.pass = w.cipher.pass
    BY <1>2, <1>5 DEF Wallets, MemoryOK
  <2>4. k \in CallType /\ k.step = "store" /\ k.keys = call[c].keys /\ k.arg = call[c].arg
    BY <1>2 DEF CallType, CallSteps
  <2> DEFINE s == Seal(y, w.pass)
  <2>5. w' = [y EXCEPT !.cipher = s, !.pass = w.pass]
    BY <2>1, <2>2 DEF Wallets
  <2>6. y.keys = w.keys /\ y.encrypted = w.encrypted /\ y.locked = w.locked /\ w.keys \subseteq y.addresses
    BY <1>2, RefreshKeeps
  <2>7. s \in Ciphers /\ s.keys = y.keys /\ s.pass = w.pass
    BY <2>2, <2>3, SealIs
  <2> HIDE DEF y, k, s
  <2>8. /\ w' \in Wallets /\ w'.cipher.keys = w.keys /\ w'.cipher.pass = w.pass /\ w'.keys = w.keys
        /\ w'.encrypted = w.encrypted /\ w'.locked = w.locked /\ w'.pass = w.pass
        /\ w'.cipher.keys \subseteq w'.addresses /\ w'.keys \subseteq w'.addresses
    BY <2>2, <2>3, <2>5, <2>6, <2>7 DEF Wallets
  <2>9. MemoryOK(w', handed, opens)
    BY <1>2, <1>5, <2>3, <2>8 DEF MemoryOK, Shut
  <2>10. CallOK(k, w', handed)
    BY <1>1, <1>2, <1>3, <1>5, <2>4, <2>8 DEF CallOK, Shut
  <2> QED  BY <1>1, <2>1, <2>4, <2>8, <2>9, <2>10, MemoryMoves
<1>6. CASE ~w.encrypted
  <2> DEFINE k == [call[c] EXCEPT !.step = "snap"]
  <2>1. UNCHANGED w /\ call' = [call EXCEPT ![c] = k]
    BY <1>6 DEF Persist, Goes
  <2>2. k \in CallType /\ k.step = "snap" /\ k.keys = call[c].keys /\ k.arg = call[c].arg
    BY <1>2 DEF CallType, CallSteps
  <2> HIDE DEF k
  <2>3. CallOK(k, w, handed)
    BY <1>1, <1>2, <1>3, <1>6, <2>2 DEF CallOK, Shut
  <2> QED  BY <1>1, <2>1, <2>2, <2>3, OnlyCallMoves
<1> QED  BY <1>4, <1>5, <1>6

LEMMA StepSnapshot ==
    ASSUME OneCaller, WalletInv, NEW c \in Caller, Snapshot(c)
    PROVE  WalletInv'
<1>1. UNCHANGED <<profile, w, disk, armed, fired, handed, opens>>
  BY DEF Snapshot
<1>2. w \in Wallets /\ call[c] \in CallType /\ CallOK(call[c], w, handed) /\ MemoryOK(w, handed, opens)
  BY CallIs
<1>3. ASSUME NEW f \in Files, f.encrypted = w.encrypted, handed \cup call[c].keys \subseteq Recoverable(f),
             Recoverable(f) \subseteq f.addresses, w.encrypted => f.cipher = w.cipher,
             call[c].arg \in Pass => w.encrypted /\ w.cipher.pass = call[c].arg,
             ~Shut(w) => call[c].keys \subseteq w.keys,
             call' = [call EXCEPT ![c].step = "write", ![c].file = f]
      PROVE  WalletInv'
  <2> DEFINE k == [call[c] EXCEPT !.step = "write", !.file = f]
  <2>1. k \in CallType /\ k.step = "write" /\ k.keys = call[c].keys /\ k.arg = call[c].arg /\ k.file = f
    BY <1>2 DEF CallType, CallSteps
  <2>2. call' = [call EXCEPT ![c] = k]
    BY <1>3
  <2> HIDE DEF k
  <2>3. CallOK(k, w, handed)
    BY <1>2, <1>3, <2>1 DEF CallOK
  <2> QED  BY <1>1, <2>1, <2>2, <2>3, OnlyCallMoves
<1>4. CASE In(c, "snap") /\ call' = [call EXCEPT ![c].step = "write", ![c].file = PlainFile(w)]
  <2> DEFINE f == PlainFile(w)
  <2>1. f \in Files /\ ~f.encrypted /\ Recoverable(f) = w.keys /\ f.addresses = w.addresses
    BY <1>2, PlainFileIs
  <2>2. ~w.encrypted /\ call[c].keys \subseteq w.keys /\ call[c].arg \notin Pass
    BY <1>2, <1>4 DEF CallOK, In
  <2>3. call' = [call EXCEPT ![c].step = "write", ![c].file = f]
    BY <1>4
  <2> HIDE DEF f
  <2>4. handed \subseteq w.keys /\ w.keys \subseteq w.addresses
    BY <1>2, <2>2 DEF MemoryOK, Shut
  <2>5. f.encrypted = w.encrypted
    BY <1>2, <2>1, <2>2 DEF Files, Wallets
  <2> QED  BY <1>3, <2>1, <2>2, <2>3, <2>4, <2>5
<1>5. CASE In(c, "store") /\ call' = [call EXCEPT ![c].step = "write", ![c].file = SealedFile(w)]
  <2> DEFINE f == SealedFile(w)
  <2>1. /\ w.encrypted /\ call[c].keys \subseteq w.cipher.keys /\ w.cipher.keys \subseteq w.addresses
        /\ call[c].arg \in Pass => w.cipher.pass = call[c].arg
        /\ ~Shut(w) => call[c].keys \subseteq w.keys
    BY <1>2, <1>5 DEF CallOK, In
  <2>2. f \in Files /\ f.encrypted /\ Recoverable(f) = w.cipher.keys /\ f.addresses = w.addresses
        /\ f.cipher = w.cipher
    BY <1>2, <2>1, SealedFileIs
  <2>3. call' = [call EXCEPT ![c].step = "write", ![c].file = f]
    BY <1>5
  <2> HIDE DEF f
  <2>4. handed \subseteq w.cipher.keys
    BY <1>2, <2>1 DEF MemoryOK
  <2>5. f.encrypted = w.encrypted
    BY <1>2, <2>1, <2>2 DEF Files, Wallets
  <2> QED  BY <1>3, <2>1, <2>2, <2>3, <2>4, <2>5
<1> QED  BY <1>4, <1>5 DEF Snapshot

(* The write is done: what the call made is handed out. *)
LEMMA StepWrite ==
    ASSUME OneCaller, WalletInv, NEW c \in Caller, Write(c)
    PROVE  WalletInv'
<1> DEFINE k == call[c]
<1>1. /\ k.step = "write" /\ disk' = k.file /\ handed' = handed \cup k.keys
      /\ opens' = IF k.arg \in Pass THEN {k.arg} ELSE opens
      /\ call' = [call EXCEPT ![c] = Idle] /\ UNCHANGED <<profile, w, armed, fired>>
  BY DEF Write, In, Returns
<1>2. w \in Wallets /\ k \in CallType /\ CallOK(k, w, handed) /\ MemoryOK(w, handed, opens) /\ handed \subseteq Key
  BY CallIs
<1>3. /\ k.file \in Files /\ k.file.encrypted = w.encrypted
      /\ handed \cup k.keys \subseteq Recoverable(k.file) /\ Recoverable(k.file) \subseteq k.file.addresses
      /\ w.encrypted => k.file.cipher = w.cipher
      /\ k.arg \in Pass => w.encrypted /\ w.cipher.pass = k.arg
      /\ ~Shut(w) => k.keys \subseteq w.keys
  BY <1>1, <1>2 DEF CallOK
<1>4. k.keys \subseteq Key
  BY <1>2 DEF CallType
<1> HIDE DEF k
<1>5. w.encrypted => w.cipher.pass \in opens'
  BY <1>1, <1>2, <1>3 DEF MemoryOK
<1>6. handed' \subseteq Key /\ opens' \subseteq Pass
  BY <1>1, <1>2, <1>4 DEF WalletInv
<1>7. MemoryOK(w', handed', opens')
  <2>1. w.encrypted => handed' \subseteq w.cipher.keys
    BY <1>1, <1>3 DEF Recoverable
  <2>2. ~Shut(w) => handed' \subseteq w.keys
    BY <1>1, <1>2, <1>3 DEF MemoryOK
  <2> QED  BY <1>1, <1>2, <1>5, <2>1, <2>2 DEF MemoryOK
<1>8. FileOK(disk', handed', opens')
  BY <1>1, <1>3, <1>5 DEF FileOK
<1>9. CallOK(Idle, w', handed') /\ Idle.step = "idle"
  BY IdleOK
<1>10. /\ call' \in [Caller -> CallType] /\ \A d \in Caller : CallOK(call'[d], w', handed')
       /\ \A d \in Caller : call'[d] = Idle
  BY <1>1, <1>9, CallerMoves
<1>11. TimersOK'
  BY <1>1, <1>9, <1>10 DEF WalletInv, TimersOK
<1>12. ~w'.encrypted => ~disk'.encrypted
  BY <1>1, <1>3
<1> QED  BY <1>6, <1>7, <1>8, <1>10, <1>11, <1>12 DEF WalletInv

LEMMA StepWriteFails ==
    ASSUME OneCaller, WalletInv, NEW c \in Caller, WriteFails(c)
    PROVE  WalletInv'
  BY StepReturns DEF WriteFails
-----------------------------------------------------------------------------------
(* Encrypt, Unlock, Lock and the timers *)

(* While nobody is in a call the memory may change. *)
LEMMA NobodyCalls ==
    ASSUME OneCaller, WalletInv, NEW c \in Caller, call[c].step = "idle",
           MemoryOK(w', handed, opens), w'.encrypted = w.encrypted,
           armed' \in BOOLEAN, armed' => w.encrypted /\ profile.timed,
           UNCHANGED <<profile, disk, call, fired, handed, opens>>
    PROVE  WalletInv'
<1>1. \A d \in Caller : call[d].step = "idle" /\ CallOK(call[d], w', handed)
  BY DEF OneCaller, WalletInv, CallOK
<1>2. TimersOK'
  BY <1>1 DEF WalletInv, TimersOK
<1> QED  BY <1>1, <1>2 DEF WalletInv

LEMMA CipherIs ==
    ASSUME WalletInv, w.encrypted
    PROVE  /\ w \in Wallets /\ w.cipher \in Ciphers /\ w.cipher.pass \in Pass
           /\ handed \subseteq w.cipher.keys /\ w.cipher.pass \in opens
  BY DEF WalletInv, MemoryOK, Wallets

LEMMA StepUnlock ==
    ASSUME OneCaller, WalletInv, NEW c \in Caller, Unlock(c)
    PROVE  WalletInv'
<1>1. /\ w.encrypted /\ call[c].step = "idle" /\ w' = Unlocked(w, w.cipher.pass) /\ armed' = profile.timed
      /\ UNCHANGED <<profile, disk, call, fired, handed, opens>>
  BY DEF Unlock, In
<1>2. /\ w \in Wallets /\ w.cipher \in Ciphers /\ w.cipher.pass \in Pass
      /\ handed \subseteq w.cipher.keys /\ w.cipher.pass \in opens
  BY <1>1, CipherIs
<1>3. /\ w' \in Wallets /\ ~w'.locked /\ w'.keys = w.cipher.keys /\ w'.pass = w.cipher.pass
      /\ w'.encrypted = w.encrypted /\ w'.cipher = w.cipher
  <2> DEFINE p0 == w.cipher.pass
  <2>1. p0 \in Pass \cup {None} /\ w' = Unlocked(w, p0) /\ w \in Wallets
    BY <1>2, <1>1
  <2> HIDE DEF p0
  <2>2. /\ w' \in Wallets /\ ~w'.locked /\ w'.keys = w.cipher.keys /\ w'.pass = p0
        /\ w'.encrypted = w.encrypted /\ w'.cipher = w.cipher
    BY <2>1, UnlockedIs
  <2> QED  BY <2>2 DEF p0
<1>4. MemoryOK(w', handed, opens)
  BY <1>1, <1>2, <1>3 DEF MemoryOK, Shut
<1>5. profile.timed \in BOOLEAN
  BY WalletAssumption DEF WalletInv, TimersOK
<1> QED  BY <1>1, <1>3, <1>4, <1>5, NobodyCalls

(* Locking keeps what the sealed set holds. *)
LEMMA LockedOK ==
    ASSUME NEW x, NEW h, NEW o, MemoryOK(x, h, o), x.encrypted, NEW r, r = Locked(x)
    PROVE  MemoryOK(r, h, o) /\ r.encrypted /\ r.locked /\ r.cipher = x.cipher /\ r.addresses = x.addresses
           /\ r \in Wallets
<1>1. x \in Wallets
  BY DEF MemoryOK
<1>2. /\ r \in Wallets /\ r.locked /\ r.keys = {} /\ r.addresses = x.addresses
      /\ r.encrypted = x.encrypted /\ r.cipher = x.cipher
  BY <1>1, LockedIs
<1> QED  BY <1>2 DEF MemoryOK, Shut

LEMMA StepLock ==
    ASSUME OneCaller, WalletInv, NEW c \in Caller, Lock(c)
    PROVE  WalletInv'
<1>1. /\ w.encrypted /\ call[c].step = "idle" /\ w' = Locked(w) /\ armed' = FALSE
      /\ UNCHANGED <<profile, disk, call, fired, handed, opens>>
  BY DEF Lock, In
<1>2. MemoryOK(w, handed, opens)
  BY CallIs
<1>3. MemoryOK(w', handed, opens) /\ w'.encrypted /\ w' \in Wallets
  BY <1>1, <1>2, LockedOK
<1>4. w'.encrypted = w.encrypted
  BY <1>1, <1>2, <1>3 DEF MemoryOK, Wallets
<1> QED  BY <1>1, <1>3, <1>4, NobodyCalls

LEMMA StepTimerExpires ==
    ASSUME WalletInv, TimerExpires
    PROVE  WalletInv'
<1>1. fired \in Nat /\ fired' = fired + 1 /\ fired < MaxFired /\ armed /\ armed' = FALSE
      /\ UNCHANGED <<profile, w, disk, call, handed, opens>>
  BY WalletAssumption DEF WalletInv, TimersOK, TimerExpires
<1>2. fired' \in 0 .. MaxFired
  BY <1>1, WalletAssumption
<1>3. TimersOK'
  BY <1>1, <1>2 DEF WalletInv, TimersOK
<1> QED  BY <1>1, <1>3 DEF WalletInv

(* An expired timer locks the wallet between any two steps of a call; with timed    *)
(* unlocks that call is no change of the passphrase.                                *)
LEMMA StepTimerLocks ==
    ASSUME OneCaller, TimedOrChange, WalletInv, TimerLocks
    PROVE  WalletInv'
<1>1. fired \in 0 .. MaxFired /\ fired > 0 /\ fired' = fired - 1 /\ w' = Locked(w) /\ armed' = FALSE
      /\ UNCHANGED <<profile, disk, call, handed, opens>>
  BY DEF WalletInv, TimersOK, TimerLocks
<1>2. w.encrypted /\ profile.timed /\ ~profile.change
  BY <1>1 DEF WalletInv, TimersOK, TimedOrChange
<1>3. \A c \in Caller : call[c].step # "change"
  BY <1>2 DEF WalletInv, TimersOK
<1>4. MemoryOK(w, handed, opens)
  BY DEF WalletInv
<1>5. /\ MemoryOK(w', handed, opens) /\ w'.encrypted /\ w'.locked /\ w'.cipher = w.cipher
      /\ w'.addresses = w.addresses /\ w' \in Wallets
  BY <1>1, <1>2, <1>4, LockedOK
<1>6. w'.encrypted = w.encrypted
  BY <1>2, <1>4, <1>5 DEF MemoryOK, Wallets
<1>7. ASSUME NEW c \in Caller PROVE CallOK(call[c], w', handed)
  BY <1>2, <1>3, <1>5, <1>6, CallIs DEF CallOK, Shut
<1>8. fired' \in 0 .. MaxFired
  BY <1>1, WalletAssumption
<1>9. TimersOK'
  BY <1>1, <1>2, <1>3, <1>5, <1>8 DEF WalletInv, TimersOK
<1> QED  BY <1>1, <1>5, <1>6, <1>7, <1>9 DEF WalletInv

LEMMA StepEncrypt ==
    ASSUME OneCaller, WalletInv, NEW c \in Caller, Encrypt(c)
    PROVE  WalletInv'
<1>1. PICK p \in Pass :
        /\ call' = [call EXCEPT ![c] = [Idle EXCEPT !.step = "store", !.keys = {}, !.arg = p]]
        /\ w' = [refreshMetadata(w) EXCEPT !.cipher = Seal(w, p), !.encrypted = TRUE,
                                           !.locked = TRUE, !.pass = None, !.keys = {}]
        /\ opens' = {p}
  BY DEF Encrypt, Begin
<1>2. ~w.encrypted /\ UNCHANGED <<profile, disk, armed, fired, handed>>
  BY DEF Encrypt
<1>3. w \in Wallets /\ MemoryOK(w, handed, opens)
  BY DEF WalletInv, MemoryOK
<1> DEFINE y == refreshMetadata(w)
           s == Seal(w, p)
           k == [Idle EXCEPT !.step = "store", !.keys = {}, !.arg = p]
<1>4. y \in Wallets /\ w.keys \subseteq y.addresses
  BY <1>3, RefreshKeeps
<1>5. s \in Ciphers /\ s.keys = w.keys /\ s.pass = p
  BY <1>3, SealIs
<1>6. k \in CallType /\ k.step = "store" /\ k.keys = {} /\ k.arg = p
  BY DEF Idle, CallType, CallSteps
<1>7. /\ w' = [y EXCEPT !.cipher = s, !.encrypted = TRUE, !.locked = TRUE, !.pass = None, !.keys = {}]
      /\ call' = [call EXCEPT ![c] = k]
  BY <1>1
<1> HIDE DEF y, s, k
<1>8. w' \in Wallets /\ w'.cipher = s /\ w'.encrypted /\ w'.locked /\ w'.addresses = y.addresses
  BY <1>4, <1>5, <1>7 DEF Wallets
<1>9. MemoryOK(w', handed', opens')
  BY <1>1, <1>2, <1>3, <1>5, <1>8 DEF MemoryOK, Shut
<1>10. CallOK(k, w', handed')
  BY <1>4, <1>5, <1>6, <1>8, WalletAssumption DEF CallOK, Shut
<1>11. /\ call' \in [Caller -> CallType] /\ \A d \in Caller : CallOK(call'[d], w', handed')
       /\ \A d \in Caller : call'[d] = k
  BY <1>7, <1>10, CallerMoves
<1>12. FileOK(disk', handed', opens')
  BY <1>2 DEF WalletInv, FileOK
<1>13. TimersOK'
  BY <1>2, <1>6, <1>11 DEF WalletInv, TimersOK
<1> QED  BY <1>1, <1>2, <1>8, <1>9, <1>11, <1>12, <1>13 DEF WalletInv

(* ChangePassphrase opens the wallet without a timeout; no timer is left behind. *)
LEMMA StepChangePassphrase ==
    ASSUME OneCaller, TimedOrChange, WalletInv, NEW c \in Caller, ChangePassphrase(c)
    PROVE  WalletInv'
<1>1. PICK p \in Pass :
        call' = [call EXCEPT ![c] = [Idle EXCEPT !.step = "change", !.keys = {}, !.arg = p]]
  BY DEF ChangePassphrase, Begin
<1>2. /\ profile.change /\ w.encrypted /\ w' = Unlocked(w, w.cipher.pass) /\ armed' = FALSE
      /\ UNCHANGED <<profile, disk, fired, handed, opens>>
  BY DEF ChangePassphrase
<1>3. /\ w \in Wallets /\ w.cipher \in Ciphers /\ w.cipher.pass \in Pass
      /\ handed \subseteq w.cipher.keys /\ w.cipher.pass \in opens
  BY <1>2, CipherIs
<1>4. /\ w' \in Wallets /\ ~w'.locked /\ w'.keys = w.cipher.keys /\ w'.pass = w.cipher.pass
      /\ w'.encrypted = w.encrypted /\ w'.cipher = w.cipher
  <2> DEFINE p0 == w.cipher.pass
  <2>1. p0 \in Pass \cup {None} /\ w' = Unlocked(w, p0) /\ w \in Wallets
    BY <1>3, <1>2
  <2> HIDE DEF p0
  <2>2. /\ w' \in Wallets /\ ~w'.locked /\ w'.keys = w.cipher.keys /\ w'.pass = p0
        /\ w'.encrypted = w.encrypted /\ w'.cipher = w.cipher
    BY <2>1, UnlockedIs
  <2> QED  BY <2>2 DEF p0
<1>5. MemoryOK(w', handed', opens')
  BY <1>2, <1>3, <1>4 DEF MemoryOK, Shut
<1> DEFINE k == [Idle EXCEPT !.step = "change", !.keys = {}, !.arg = p]
<1>6. k \in CallType /\ k.step = "change" /\ k.keys = {} /\ k.arg = p
  BY DEF Idle, CallType, CallSteps
<1>7. call' = [call EXCEPT ![c] = k]
  BY <1>1
<1> HIDE DEF k
<1>8. CallOK(k, w', handed')
  BY <1>2, <1>4, <1>6, WalletAssumption DEF CallOK
<1>9. /\ call' \in [Caller -> CallType] /\ \A d \in Caller : CallOK(call'[d], w', handed')
      /\ \A d \in Caller : call'[d] = k
  BY <1>7, <1>8, CallerMoves
<1>10. TimersOK'
  <2>1. ~profile.timed
    BY <1>2 DEF WalletInv, TimersOK, TimedOrChange
  <2> QED  BY <1>2, <2>1 DEF WalletInv, TimersOK
<1> QED  BY <1>2, <1>4, <1>5, <1>9, <1>10 DEF WalletInv

LEMMA StepChange ==
    ASSUME OneCaller, WalletInv, NEW c \in Caller, Change(c)
    PROVE  WalletInv'
<1> DEFINE p == call[c].arg
           y == refreshMetadata(w)
           s == Seal(y, p)
           k == [call[c] EXCEPT !.step = "store"]
<1>1. /\ call[c].step = "change" /\ w' = [y EXCEPT !.cipher = s, !.pass = p]
      /\ opens' = opens \cup {p} /\ call' = [call EXCEPT ![c] = k]
      /\ UNCHANGED <<profile, disk, armed, fired, handed>>
  BY DEF Change, In, Goes
<1>2. w \in Wallets /\ call[c] \in CallType /\ CallOK(call[c], w, handed) /\ MemoryOK(w, handed, opens)
  BY CallIs
<1>3. w.encrypted /\ ~w.locked /\ call[c].keys = {} /\ p \in Pass
  BY <1>1, <1>2 DEF CallOK
<1>4. y \in Wallets /\ y.keys = w.keys /\ y.encrypted = w.encrypted /\ y.locked = w.locked
      /\ w.keys \subseteq y.addresses
  BY <1>2, RefreshKeeps
<1>5. s \in Ciphers /\ s.keys = y.keys /\ s.pass = p
  BY <1>3, <1>4, SealIs
<1>6. k \in CallType /\ k.step = "store" /\ k.keys = {} /\ k.arg = p
  BY <1>2, <1>3 DEF CallType, CallSteps
<1> HIDE DEF p, y, s, k
<1>7. /\ w' \in Wallets /\ w'.cipher = s /\ w'.keys = w.keys /\ w'.pass = p /\ w'.encrypted = w.encrypted
      /\ w'.locked = w.locked /\ w'.addresses = y.addresses
  BY <1>1, <1>3, <1>4, <1>5 DEF Wallets
<1>8. handed \subseteq w.keys
  BY <1>2, <1>3 DEF MemoryOK, Shut
<1>9. MemoryOK(w', handed', opens')
  BY <1>1, <1>3, <1>4, <1>5, <1>7, <1>8 DEF MemoryOK, Shut
<1>10. CallOK(k, w', handed')
  BY <1>3, <1>4, <1>5, <1>6, <1>7 DEF CallOK, Shut
<1>11. /\ call' \in [Caller -> CallType] /\ \A d \in Caller : CallOK(call'[d], w', handed')
       /\ \A d \in Caller : call'[d] = k
  BY <1>1, <1>10, CallerMoves
<1>12. FileOK(disk', handed', opens')
  BY <1>1 DEF WalletInv, FileOK
<1>13. TimersOK'
  BY <1>1, <1>6, <1>7, <1>11 DEF WalletInv, TimersOK
<1> QED  BY <1>1, <1>3, <1>7, <1>9, <1>11, <1>12, <1>13 DEF WalletInv
-----------------------------------------------------------------------------------
LEMMA StepCrash ==
    ASSUME WalletInv, Crash
    PROVE  WalletInv'
<1>1. w' = Open(disk) /\ call' = [c \in Caller |-> Idle] /\ armed' = FALSE /\ fired' = 0
      /\ UNCHANGED <<profile, disk, handed, opens>>
  BY DEF Crash
<1>2. FileOK(disk, handed, opens)
  BY DEF WalletInv
<1>3. MemoryOK(w', handed, opens) /\ w'.encrypted = disk.encrypted
  BY <1>1, <1>2, OpenIs
<1>4. \A c \in Caller : CallOK(call'[c], w', handed) /\ call'[c].step = "idle"
  BY <1>1, IdleOK
<1>5. call' \in [Caller -> CallType]
  BY <1>1, IdleOK
<1>6. 0 \in 0 .. MaxFired
  BY WalletAssumption
<1>7. TimersOK'
  <2>1. ~(fired' > 0) /\ fired' \in 0 .. MaxFired
    BY <1>1, <1>6
  <2>3. ~armed' /\ armed' \in BOOLEAN
    BY <1>1
  <2>2. profile' \in Profiles
    BY <1>1 DEF WalletInv, TimersOK
  <2> QED  BY <1>4, <2>1, <2>2, <2>3 DEF TimersOK
<1> QED  BY <1>1, <1>3, <1>4, <1>5, <1>7 DEF WalletInv

LEMMA InitWalletInv == Init => WalletInv
<1> SUFFICES ASSUME Init PROVE WalletInv
  OBVIOUS
<1>1. NoCipher \in Ciphers /\ 0 \in 0 .. MaxIndex + 1 /\ 0 \in 0 .. MaxFired
  BY WalletAssumption DEF NoCipher, Ciphers
<1>2. disk \in Files /\ ~disk.encrypted /\ disk.keys = {} /\ disk.addresses = {}
  BY <1>1 DEF Init, Files
<1>3. handed = {} /\ opens = {} /\ profile \in Profiles /\ w = Open(disk) /\ armed = FALSE /\ fired = 0
      /\ call = [c \in Caller |-> Idle]
  BY DEF Init
<1>4. FileOK(disk, handed, opens)
  BY <1>2, <1>3 DEF FileOK, Recoverable
<1>5. MemoryOK(w, handed, opens)
  BY <1>3, <1>4, OpenIs
<1>6. call \in [Caller -> CallType] /\ \A c \in Caller : CallOK(call[c], w, handed) /\ call[c].step = "idle"
  BY <1>3, IdleOK
<1>7. TimersOK
  <2>1. ~(fired > 0) /\ fired \in 0 .. MaxFired
    BY <1>1, <1>3
  <2>2. ~armed /\ armed \in BOOLEAN
    BY <1>3
  <2> QED  BY <1>3, <1>6, <2>1, <2>2 DEF TimersOK
<1> QED  BY <1>2, <1>3, <1>4, <1>5, <1>6, <1>7 DEF WalletInv

LEMMA StepWalletInv ==
    ASSUME OneCaller, TimedOrChange, WalletInv, [Next]_vars
    PROVE  WalletInv'
<1>1. ASSUME NEW c \in Caller, Continue(c) PROVE WalletInv'
  BY <1>1, StepDerive, StepInsert, StepApplySeed, StepRestore, StepPersist, StepSnapshot, StepWrite,
     StepWriteFails, StepChange DEF Continue
<1>2. ASSUME NEW c \in Caller,
             \/ NewAddress(c) \/ NewHybridAddress(c) \/ ImportPrivKey(c) \/ SetHDSeed(c) \/ RestorePlainBackup(c)
      PROVE  WalletInv'
  BY <1>2, StepBegin
<1>3. ASSUME NEW c \in Caller, Encrypt(c) \/ Unlock(c) \/ Lock(c) \/ ChangePassphrase(c)
      PROVE  WalletInv'
  BY <1>3, StepEncrypt, StepUnlock, StepLock, StepChangePassphrase
<1>4. CASE TimerExpires \/ TimerLocks \/ Crash
  BY <1>4, StepTimerExpires, StepTimerLocks, StepCrash
<1>5. CASE UNCHANGED vars
  BY <1>5 DEF vars, WalletInv, TimersOK
<1> QED  BY <1>1, <1>2, <1>3, <1>4, <1>5 DEF Next
-----------------------------------------------------------------------------------
(* What NewAddress and the other calls handed out stays recoverable from the file  *)
(* with a passphrase its owner knows, and the file lists it, after every call,     *)
(* failed write, expired timer and crash (wallet.go:persist, Encrypt,              *)
(* ChangePassphrase, Lock, Open).                                                  *)
THEOREM KeysAlwaysSafe ==
    ASSUME OneCaller, TimedOrChange
    PROVE  Spec => []KeysSafe
<1>1. WalletInv /\ [Next]_vars => WalletInv'
  BY StepWalletInv
<1>2. WalletInv => KeysSafe
  BY WalletInvSound
<1> QED  BY <1>1, <1>2, InitWalletInv, PTL DEF Spec

(* Every field keeps its type, and an open wallet holds the passphrase it is sealed *)
(* with: persist never seals under another one (wallet.go:persist, Unlock).         *)
THEOREM WalletTypeCorrect ==
    ASSUME OneCaller, TimedOrChange
    PROVE  Spec => []WalletTypeOK
<1>1. WalletInv /\ [Next]_vars => WalletInv'
  BY StepWalletInv
<1>2. WalletInv => WalletTypeOK
  BY WalletInvSound
<1> QED  BY <1>1, <1>2, InitWalletInv, PTL DEF Spec
-----------------------------------------------------------------------------
(* The sums of the wallet, as sums of weights. *)
Values(S) == [c \in S |-> c.value]

LEMMA SumIs ==
    ASSUME NEW S, IsFiniteSet(S)
    PROVE  Sum(S) = WeightOf(Values(S), S)
<1> DEFINE wt == Values(S)
<1> DEFINE Own(g) == g = [s \in SUBSET S |-> IF s = {} THEN 0 ELSE (Some(s)).value + g[s \ {Some(s)}]]
<1>1. ASSUME NEW g PROVE Own(g) <=> Adds(g, S, wt)
  <2>1. ASSUME NEW s \in SUBSET S, s # {} PROVE wt[Some(s)] = (Some(s)).value
    <3>1. Some(s) \in S
      BY <2>1 DEF Some
    <3> QED  BY <3>1 DEF Values
  <2>2. [s \in SUBSET S |-> IF s = {} THEN 0 ELSE (Some(s)).value + g[s \ {Some(s)}]]
         = [s \in SUBSET S |-> IF s = {} THEN 0 ELSE wt[Some(s)] + g[s \ {Some(s)}]]
    <3> HIDE DEF wt
    <3> QED  BY <2>1
  <2> QED  BY <2>2 DEF Adds
<1>2. PICK g : Adds(g, S, wt) /\ WeightOf(wt, S) = g[S]
  BY WeightIs
<1> DEFINE iter == CHOOSE h : Own(h)
<1>3. Own(iter)
  <2> HIDE DEF Own
  <2> QED  BY <1>1, <1>2
<1>4. Sum(S) = iter[S]
  BY DEF Sum, MapThenSumSet, MapThenFoldSet, Some
<1>5. Adds(iter, S, wt)
  BY <1>1, <1>3
<1>6. iter[S] = g[S]
  <2> HIDE DEF iter, wt
  <2> QED  BY <1>2, <1>5, AddsAgree
<1> QED  BY <1>2, <1>4, <1>6

Amounts(s) == [i \in DOMAIN s |-> s[i].value]

LEMMA SumSeqIs ==
    ASSUME NEW q, IsFiniteSet(DOMAIN q)
    PROVE  SumSeq(q) = WeightOf(Amounts(q), DOMAIN q)
<1> DEFINE wt == Amounts(q)
<1> DEFINE S == DOMAIN q
<1> DEFINE Own(g) == g = [s \in SUBSET S |-> IF s = {} THEN 0 ELSE q[Some(s)].value + g[s \ {Some(s)}]]
<1>1. ASSUME NEW g PROVE Own(g) <=> Adds(g, S, wt)
  <2>1. ASSUME NEW s \in SUBSET S, s # {} PROVE wt[Some(s)] = q[Some(s)].value
    <3>1. Some(s) \in S
      BY <2>1 DEF Some
    <3> QED  BY <3>1 DEF Amounts
  <2>2. [s \in SUBSET S |-> IF s = {} THEN 0 ELSE q[Some(s)].value + g[s \ {Some(s)}]]
         = [s \in SUBSET S |-> IF s = {} THEN 0 ELSE wt[Some(s)] + g[s \ {Some(s)}]]
    <3> HIDE DEF wt
    <3> QED  BY <2>1
  <2> QED  BY <2>2 DEF Adds
<1>2. PICK g : Adds(g, S, wt) /\ WeightOf(wt, S) = g[S]
  BY WeightIs
<1> DEFINE iter == CHOOSE h : Own(h)
<1>3. Own(iter)
  <2> HIDE DEF Own
  <2> QED  BY <1>1, <1>2
<1>4. SumSeq(q) = iter[S]
  BY DEF SumSeq, MapThenSumSet, MapThenFoldSet, Some
<1>5. Adds(iter, S, wt)
  BY <1>1, <1>3
<1>6. iter[S] = g[S]
  <2> HIDE DEF iter, wt
  <2> QED  BY <1>2, <1>5, AddsAgree
<1> QED  BY <1>2, <1>4, <1>6

Numbered(S) == \A c \in S : c.value \in Nat

LEMMA SumType ==
    ASSUME NEW S, IsFiniteSet(S), Numbered(S)
    PROVE  Sum(S) \in Nat
<1>1. \A c \in S : Values(S)[c] \in Nat
  BY DEF Numbered, Values
<1>2. WeightOf(Values(S), S) \in Nat
  BY <1>1, WeightType
<1> QED  BY <1>2, SumIs

(* What is worth a set of coins is worth each part and the rest of it. *)
LEMMA SumPart ==
    ASSUME NEW S, IsFiniteSet(S), Numbered(S), NEW T \in SUBSET S
    PROVE  Sum(T) \in Nat /\ Sum(S \ T) \in Nat /\ Sum(S) = Sum(T) + Sum(S \ T)
<1> DEFINE wt == Values(S)
<1> DEFINE R == S \ T
<1>1. \A c \in S : wt[c] \in Nat
  BY DEF Numbered, Values
<1>2. IsFiniteSet(T) /\ IsFiniteSet(R)
  BY FS_Subset
<1>3. WeightOf(wt, T) \in Nat /\ WeightOf(wt, R) \in Nat /\ WeightOf(wt, S) = WeightOf(wt, T) + WeightOf(wt, R)
  BY <1>1, WeightPart
<1>4. WeightOf(wt, T) = WeightOf(Values(T), T)
  <2>1. \A x \in T : wt[x] = Values(T)[x]
    BY DEF Values
  <2> QED  BY ONLY <2>1, <1>2, WeightSame
<1>5. WeightOf(wt, R) = WeightOf(Values(R), R)
  <2>1. \A x \in R : wt[x] = Values(R)[x]
    BY DEF Values
  <2> QED  BY ONLY <2>1, <1>2, WeightSame
<1>6. Sum(S) = WeightOf(wt, S) /\ Sum(T) = WeightOf(wt, T) /\ Sum(R) = WeightOf(wt, R)
  BY <1>2, <1>4, <1>5, SumIs
<1> QED  BY <1>3, <1>6

LEMMA SumUnion ==
    ASSUME NEW S, IsFiniteSet(S), Numbered(S), NEW T, IsFiniteSet(T), Numbered(T), S \cap T = {}
    PROVE  Sum(S \cup T) = Sum(S) + Sum(T)
<1>1. IsFiniteSet(S \cup T) /\ Numbered(S \cup T) /\ S \in SUBSET (S \cup T)
  BY FS_Union DEF Numbered
<1>2. Sum(S \cup T) = Sum(S) + Sum((S \cup T) \ S)
  BY <1>1, SumPart
<1>3. (S \cup T) \ S = T
  OBVIOUS
<1> QED  BY <1>2, <1>3

LEMMA SumOne ==
    ASSUME NEW c, c.value \in Nat
    PROVE  Sum({c}) = c.value /\ Sum({}) = 0
<1> DEFINE wt == Values({c})
<1>1. IsFiniteSet({c}) /\ IsFiniteSet({}) /\ {c} \ {c} = {} /\ Some({c}) = c
  BY FS_Singleton, FS_EmptySet DEF Some
<1>2. wt[c] = c.value
  BY DEF Values
<1>3. WeightOf(wt, {}) = 0 /\ WeightOf(wt, {c}) = wt[c] + WeightOf(wt, {})
  BY <1>1, WeightNext
<1>4. WeightOf(Values({}), {}) = 0
  BY <1>1, WeightNext
<1> QED  BY <1>1, <1>2, <1>3, <1>4, SumIs

(* Sums of lists. *)
LEMMA SumSeqType ==
    ASSUME NEW X, Numbered(X), NEW q \in Seq(X)
    PROVE  IsFiniteSet(DOMAIN q) /\ (\A i \in DOMAIN q : Amounts(q)[i] \in Nat) /\ SumSeq(q) \in Nat
<1>1. DOMAIN q = 1 .. Len(q) /\ Len(q) \in Nat /\ \A i \in DOMAIN q : q[i] \in X
  OBVIOUS
<1>2. IsFiniteSet(DOMAIN q)
  BY <1>1, FS_Interval
<1>3. \A i \in DOMAIN q : Amounts(q)[i] \in Nat
  BY <1>1 DEF Amounts, Numbered
<1>4. WeightOf(Amounts(q), DOMAIN q) \in Nat
  BY <1>2, <1>3, WeightType
<1> QED  BY <1>2, <1>3, <1>4, SumSeqIs

LEMMA SumSeqShort ==
    ASSUME NEW c, c.value \in Nat
    PROVE  SumSeq(<<>>) = 0 /\ SumSeq(<<c>>) = c.value
<1> DEFINE q == <<c>>
<1>1. DOMAIN q = {1} /\ DOMAIN <<>> = {} /\ q[1] = c
  OBVIOUS
<1>2. IsFiniteSet({1}) /\ IsFiniteSet({}) /\ {1} \ {1} = {} /\ Some({1}) = 1
  BY FS_Singleton, FS_EmptySet DEF Some
<1> HIDE DEF q
<1>3. WeightOf(Amounts(<<>>), {}) = 0
  BY <1>2, WeightNext
<1>4. WeightOf(Amounts(q), {}) = 0 /\ WeightOf(Amounts(q), {1}) = Amounts(q)[1] + WeightOf(Amounts(q), {})
  BY <1>2, WeightNext
<1>5. Amounts(q)[1] = c.value
  BY <1>1 DEF Amounts
<1>6. SumSeq(q) = c.value
  BY <1>1, <1>2, <1>4, <1>5, SumSeqIs
<1>7. SumSeq(<<>>) = 0
  BY <1>1, <1>2, <1>3, SumSeqIs
<1> QED  BY <1>6, <1>7 DEF q

LEMMA SumSeqEmpty == SumSeq(<<>>) = 0
<1> DEFINE r == [value |-> 0]
<1>1. r.value \in Nat
  OBVIOUS
<1> HIDE DEF r
<1> QED  BY <1>1, SumSeqShort

LEMMA SumSeqConcat ==
    ASSUME NEW X, Numbered(X), NEW q \in Seq(X), NEW r \in Seq(X)
    PROVE  SumSeq(q \o r) = SumSeq(q) + SumSeq(r)
<1> DEFINE m == Len(q)
           n == Len(r)
           z == q \o r
           wt == Amounts(z)
           Q == DOMAIN q
           R == DOMAIN r
           f == [i \in R |-> i + m]
           F == {f[i] : i \in R}
<1>1. /\ m \in Nat /\ n \in Nat /\ z \in Seq(X) /\ Q = 1 .. m /\ R = 1 .. n
      /\ DOMAIN z = 1 .. m + n
  OBVIOUS
<1>2. DOMAIN z = Q \cup F /\ Q \cap F = {}
  <2>1. \A i \in F : i \in (m + 1) .. (m + n)
    BY <1>1
  <2>2. \A i \in (m + 1) .. (m + n) : i - m \in R /\ f[i - m] = i
    BY <1>1
  <2>3. F = (m + 1) .. (m + n)
    BY <2>1, <2>2
  <2> QED  BY <1>1, <2>3
<1>3. (\A i \in Q : wt[i] = Amounts(q)[i]) /\ (\A i \in R : wt[f[i]] = Amounts(r)[i])
  BY <1>1, <1>2 DEF Amounts
<1>4. IsFiniteSet(DOMAIN z) /\ IsFiniteSet(Q) /\ IsFiniteSet(R)
      /\ (\A i \in DOMAIN z : wt[i] \in Nat) /\ (\A i \in R : Amounts(r)[i] \in Nat)
  BY <1>1, SumSeqType
<1>5. OneToOne(f, R)
  BY <1>1 DEF OneToOne
<1>6. SumSeq(z) = WeightOf(wt, DOMAIN z)
  BY <1>4, SumSeqIs
<1>7. SumSeq(q) = WeightOf(Amounts(q), Q)
  BY <1>4, SumSeqIs
<1>8. SumSeq(r) = WeightOf(Amounts(r), R)
  BY <1>4, SumSeqIs
<1> HIDE DEF z, wt, f, Q, R
<1>9. WeightOf(wt, Q) = WeightOf(Amounts(q), Q)
  BY ONLY <1>3, <1>4, WeightSame
<1>10. WeightOf(wt, F) = WeightOf(Amounts(r), R)
  <2>1. \A i \in R : Amounts(r)[i] \in Int
    BY <1>4
  <2> QED  BY ONLY <1>3, <1>4, <1>5, <2>1, WeightImage
<1>11. F \subseteq DOMAIN z
  BY <1>2
<1>12. IsFiniteSet(F)
  BY <1>4, <1>11, FS_Subset
<1> HIDE DEF F
<1>13. \A i \in Q \cup F : wt[i] \in Int
  BY <1>2, <1>4
<1>14. WeightOf(wt, Q \cup F) = WeightOf(wt, Q) + WeightOf(wt, F)
  BY ONLY <1>2, <1>4, <1>12, <1>13, WeightUnion
<1> QED  BY <1>2, <1>6, <1>7, <1>8, <1>9, <1>10, <1>14 DEF z

(* The outputs of a transaction are worth what it lists. *)
LEMMA SumOuts ==
    ASSUME NEW t, NEW X, Numbered(X), t.outs \in Seq(X)
    PROVE  IsFiniteSet(Outs(t)) /\ Numbered(Outs(t)) /\ Sum(Outs(t)) = SumSeq(t.outs)
<1> DEFINE D == DOMAIN t.outs
           f == [i \in D |-> [tx |-> t.id, vout |-> i, addr |-> t.outs[i].addr, value |-> t.outs[i].value,
                              mature |-> TRUE]]
<1>1. Outs(t) = {f[i] : i \in D}
  BY DEF Outs
<1>2. OneToOne(f, D)
  BY DEF OneToOne
<1>3. IsFiniteSet(D) /\ (\A i \in D : Amounts(t.outs)[i] \in Nat)
  BY SumSeqType
<1>4. IsFiniteSet(Outs(t))
  <2> HIDE DEF f
  <2> QED  BY <1>1, <1>3, ImageSmall
<1>5. \A i \in D : f[i].value = Amounts(t.outs)[i]
  BY DEF Amounts
<1>6. Numbered(Outs(t))
  BY <1>1, <1>3, <1>5 DEF Numbered
<1>7. \A i \in D : Values(Outs(t))[f[i]] = Amounts(t.outs)[i]
  BY <1>1, <1>5 DEF Values
<1> DEFINE wt == Amounts(t.outs)
           v == Values(Outs(t))
<1>8. \A i \in D : wt[i] \in Int
  BY <1>3
<1>9. \A i \in D : v[f[i]] = wt[i]
  BY <1>7
<1> HIDE DEF f, D, wt, v
<1>10. WeightOf(v, {f[i] : i \in D}) = WeightOf(wt, D)
  BY ONLY <1>2, <1>3, <1>8, <1>9, WeightImage
<1>11. Sum(Outs(t)) = WeightOf(v, Outs(t))
  BY <1>4, SumIs DEF v
<1>12. SumSeq(t.outs) = WeightOf(wt, D)
  BY <1>3, SumSeqIs DEF wt, D
<1> QED  BY <1>1, <1>4, <1>6, <1>10, <1>11, <1>12

(* Depths of chains of unconfirmed transactions. *)
DepthNext(txs, owned, f, i) ==
    Max({0} \cup {1 : p \in txs[i].ins \cap owned}
            \cup {f[j] + 1 : j \in {j \in 1 .. i - 1 : /\ f[j] \in 1 .. MaxDepth
                                                      /\ \E p \in txs[i].ins : p[1] = txs[j].id}})

(* The depths of a list exist: those of its first k transactions do for every k. *)
LEMMA DepthExists ==
    ASSUME NEW txs, NEW n \in Nat, DOMAIN txs = 1 .. n, NEW owned
    PROVE  SafeDepth(txs, owned) = [i \in 1 .. n |-> DepthNext(txs, owned, SafeDepth(txs, owned), i)]
<1> DEFINE Body(g, i) == DepthNext(txs, owned, g, i)
           Part(g, k) == g = [i \in 1 .. k |-> Body(g, i)]
           Bad == {k \in Nat : ~\E g : Part(g, k)}
<1>1. ASSUME NEW f, NEW g, NEW i \in Nat, \A j \in 1 .. i - 1 : f[j] = g[j] PROVE Body(f, i) = Body(g, i)
  <2>1. {f[j] + 1 : j \in {j \in 1 .. i - 1 : f[j] \in 1 .. MaxDepth /\ \E p \in txs[i].ins : p[1] = txs[j].id}}
        = {g[j] + 1 : j \in {j \in 1 .. i - 1 : g[j] \in 1 .. MaxDepth /\ \E p \in txs[i].ins : p[1] = txs[j].id}}
    BY <1>1
  <2> QED  BY <2>1 DEF DepthNext
<1>2. SafeDepth(txs, owned) = CHOOSE g : Part(g, n)
  BY DEF SafeDepth, DepthNext
<1> HIDE DEF Body
<1>3. Bad = {}
  <2> SUFFICES ASSUME Bad # {} PROVE FALSE
    OBVIOUS
  <2>1. PICK k \in Bad : \A m \in Bad : k <= m
    <3>1. Bad \subseteq Nat
      OBVIOUS
    <3> HIDE DEF Bad
    <3> QED  BY <3>1, LeastNumber
  <2>2. k \in Nat /\ ~\E g : Part(g, k)
    OBVIOUS
  <2>3. CASE k = 0
    <3> DEFINE g == [i \in 1 .. k |-> 0]
    <3>1. Part(g, k)
      BY <2>3
    <3> QED  BY <2>2, <3>1
  <2>4. CASE k # 0
    <3>1. k - 1 \in Nat /\ ~(k <= k - 1)
      BY <2>2, <2>4
    <3>2. k - 1 \notin Bad
      BY <2>1, <3>1
    <3>3. PICK g : Part(g, k - 1)
      BY <3>1, <3>2
    <3> DEFINE h == [i \in 1 .. k |-> Body(g, i)]
    <3>4. ASSUME NEW i \in 1 .. k - 1 PROVE h[i] = g[i]
      <4>1. i \in 1 .. k
        BY <2>2
      <4>2. h[i] = Body(g, i)
        BY <4>1
      <4>3. g[i] = Body(g, i)
        BY <3>3
      <4> QED  BY <4>2, <4>3
    <3>5. ASSUME NEW i \in 1 .. k PROVE h[i] = Body(h, i)
      <4>1. h[i] = Body(g, i)
        OBVIOUS
      <4>2. i \in Nat /\ \A j \in 1 .. i - 1 : j \in 1 .. k - 1
        BY <2>2
      <4>3. \A j \in 1 .. i - 1 : h[j] = g[j]
        BY <3>4, <4>2
      <4> HIDE DEF h
      <4>4. Body(h, i) = Body(g, i)
        BY <1>1, <4>2, <4>3
      <4> QED  BY <4>1, <4>4
    <3>6. Part(h, k)
      BY <3>5
    <3> QED  BY <2>2, <3>6
  <2> QED  BY <2>3, <2>4
<1>4. \E g : Part(g, n)
  BY <1>3
<1> HIDE DEF Part
<1>5. Part(SafeDepth(txs, owned), n)
  BY <1>2, <1>4
<1> QED  BY <1>5 DEF Part, Body

(* Only what builds on a coin of the wallet, or on another transaction of the list, has a depth. *)
LEMMA DepthOfOthers ==
    ASSUME NEW txs, NEW n \in Nat, DOMAIN txs = 1 .. n, NEW owned, NEW i \in DOMAIN txs,
           txs[i].ins \cap owned = {}, \A j \in DOMAIN txs : \A p \in txs[i].ins : p[1] # txs[j].id
    PROVE  SafeDepth(txs, owned)[i] = 0
<1> DEFINE d == SafeDepth(txs, owned)
<1>1. d[i] = DepthNext(txs, owned, d, i)
  <2>1. d = [k \in 1 .. n |-> DepthNext(txs, owned, d, k)]
    BY DepthExists
  <2> HIDE DEF d
  <2> QED  BY <2>1
<1> HIDE DEF d
<1>2. ~\E j \in 1 .. i - 1 : \E p \in txs[i].ins : p[1] = txs[j].id
  OBVIOUS
<1>3. DepthNext(txs, owned, d, i) = Max({0})
  <2>1. {d[j] + 1 : j \in {j \in 1 .. i - 1 : d[j] \in 1 .. MaxDepth /\ \E p \in txs[i].ins : p[1] = txs[j].id}} = {}
    BY <1>2
  <2>2. {1 : p \in txs[i].ins \cap owned} = {}
    OBVIOUS
  <2> QED  BY <2>1, <2>2 DEF DepthNext
<1>4. Max({0}) = 0
  BY DEF Max
<1> QED  BY <1>1, <1>3, <1>4 DEF d

(* The fee rounded up, which grows with the size. *)
Rounded(ins, outs) == ((Base + ins * InSize + outs * OutSize) * MinRelay + PerKB - 1) \div PerKB

LEMMA DivGrows ==
    ASSUME NEW a \in Nat, NEW b \in Nat, a <= b, NEW k \in Nat \ {0}
    PROVE  a \div k \in Nat /\ a \div k <= b \div k
<1> DEFINE q == a \div k
           r == b \div k
<1>1. q \in Nat /\ r \in Nat
  OBVIOUS
<1>2. a = k * q + (a % k) /\ b = k * r + (b % k) /\ a % k \in 0 .. k - 1 /\ b % k \in 0 .. k - 1
  OBVIOUS
<1>3. ASSUME r < q PROVE FALSE
  <2> DEFINE e == q - (r + 1)
  <2>1. e \in Nat /\ q = (r + 1) + e
    BY <1>1, <1>3
  <2> HIDE DEF q, r, e
  <2>2. k * q = k * r + k + k * e
    BY <1>1, <2>1
  <2>3. k * e \in Nat /\ k * r \in Nat /\ k * q \in Nat
    BY <1>1, <2>1
  <2> QED  BY <1>1, <1>2, <2>2, <2>3
<1> QED  BY <1>1, <1>3

LEMMA TimesGrows ==
    ASSUME NEW a \in Nat, NEW b \in Nat, a <= b, NEW k \in Nat
    PROVE  a * k \in Nat /\ b * k \in Nat /\ a * k <= b * k
<1> DEFINE e == b - a
<1>1. e \in Nat /\ b = a + e
  OBVIOUS
<1> HIDE DEF e
<1>2. b * k = a * k + e * k
  BY <1>1
<1>3. e * k \in Nat /\ a * k \in Nat
  BY <1>1
<1> QED  BY <1>2, <1>3

LEMMA RoundedGrows ==
    ASSUME NEW i \in Nat, NEW j \in Nat, i <= j, NEW o \in Nat, NEW p \in Nat, o <= p
    PROVE  Rounded(i, o) \in Nat /\ Rounded(i, o) <= Rounded(j, p)
<1> DEFINE a == i * InSize
           b == j * InSize
           c == o * OutSize
           d == p * OutSize
           x == Base + a + c
           y == Base + b + d
           v == x * MinRelay
           wt == y * MinRelay
<1>1. {Base, InSize, OutSize, MinRelay} \subseteq Nat /\ PerKB \in Nat \ {0}
  BY SendAssumption
<1>2. a \in Nat /\ b \in Nat /\ a <= b
  BY <1>1, TimesGrows
<1>3. c \in Nat /\ d \in Nat /\ c <= d
  BY <1>1, TimesGrows
<1> HIDE DEF a, b, c, d
<1>4. x \in Nat /\ y \in Nat /\ x <= y
  BY <1>1, <1>2, <1>3
<1> HIDE DEF x, y
<1>5. v \in Nat /\ wt \in Nat /\ v <= wt
  BY <1>1, <1>4, TimesGrows
<1> HIDE DEF v, wt
<1>6. v + PerKB - 1 \in Nat /\ wt + PerKB - 1 \in Nat /\ v + PerKB - 1 <= wt + PerKB - 1
  BY <1>1, <1>5
<1>7. (v + PerKB - 1) \div PerKB \in Nat /\ (v + PerKB - 1) \div PerKB <= (wt + PerKB - 1) \div PerKB
  BY ONLY <1>1, <1>6, DivGrows
<1> QED  BY <1>7 DEF Rounded, v, wt, x, y, a, b, c, d

(* An estimate covers what the pool asks for. *)
LEMMA EstimateIs ==
    ASSUME NEW i \in Nat, NEW o \in Nat
    PROVE  estimatedFee(i, o) \in Nat /\ Rounded(i, o) <= estimatedFee(i, o)
<1>1. MinRelay \in Nat
  BY SendAssumption
<1>2. Rounded(i, o) \in Nat
  BY RoundedGrows
<1> DEFINE m == MinRelay
           r == Rounded(i, o)
<1>3. estimatedFee(i, o) = Max({m, r})
  BY DEF estimatedFee, Rounded
<1> HIDE DEF m, r
<1>4. \E x \in {m, r} : \A y \in {m, r} : y <= x
  BY <1>1, <1>2 DEF m, r
<1>5. Max({m, r}) \in {m, r} /\ r <= Max({m, r})
  BY <1>4 DEF Max
<1> QED  BY <1>1, <1>2, <1>3, <1>5 DEF m, r

(* The invariant: what the ledger and the calls under way know of each other. *)
Listed(q) == q \in Seq({q[i] : i \in DOMAIN q}) /\ Numbered({q[i] : i \in DOMAIN q})

AllOf(u, P) == u \cup UNION {Outs(t) : t \in P}
SpentOf(P) == UNION {t.ins : t \in P}
Held(u, P, m) == {c \in AllOf(u, P) : c.addr \in m /\ Point(c) \notin SpentOf(P)}

(* An address is owned, or not one the wallet could still make for change. *)
Named(c, m) == c.addr \in m \/ c.addr[1] # "change"

(* A transaction descends from the wallet's and is made of known coins, or is someone's payment. *)
TxOK(t, l, rep) ==
    /\ t.id \in 1 .. l /\ Listed(t.outs)
    /\ t.id \notin rep => t.ins = {<<0, t.id>>} /\ t.id <= MaxTx
    /\ t.id \in rep => \A p \in t.ins : p[1] \in 0 .. l /\ (p[1] = 0 => p[2] \notin 1 .. MaxTx)

CoinOK(c, m) == c.value \in Nat /\ c.vout \in Nat /\ Named(c, m)

Unique(A) == \A c, d \in A : Point(c) = Point(d) => c = d

Ledger(u, P, m, l, rep) ==
    /\ IsFiniteSet(u) /\ IsFiniteSet(P) /\ l \in Nat /\ rep \subseteq 1 .. l
    /\ \A c \in u : c.tx \in 0 .. l /\ (c.tx = 0 => c \in Initial)
    /\ \A t \in P : TxOK(t, l, rep) /\ \A c \in u : c.tx # t.id
    /\ \A t, v \in P : t # v => t.id # v.id /\ t.ins \cap v.ins = {}
    /\ \A c \in AllOf(u, P) : CoinOK(c, m)
    /\ Unique(AllOf(u, P))
    /\ \A t, v \in P : (\E p \in t.ins : p[1] = v.id) => v.id \in rep

(* What a call read is still true of the coins that are left. *)
Agrees(c, A) == \A d \in A : Point(d) = Point(c) => d = c

KnownCoin(c, A, P, m, l, rep) ==
    /\ c.tx \in 0 .. l /\ c.vout \in Nat /\ c.value \in Nat /\ c.addr \in m
    /\ c.tx = 0 => c.vout \notin 1 .. MaxTx
    /\ c.tx \in rep \/ \A t \in P : t.id # c.tx
    /\ Agrees(c, A)

KnownCoins(S, A, P, m, l, rep) ==
    IsFiniteSet(S) /\ Unique(S) /\ \A c \in S : KnownCoin(c, A, P, m, l, rep)

KnownTxs(txs, A, l, rep) ==
    /\ DOMAIN txs = 1 .. Len(txs) /\ Len(txs) \in Nat
    /\ \A i, j \in DOMAIN txs : txs[i].id = txs[j].id => i = j
    /\ \A i \in DOMAIN txs : TxOK(txs[i], l, rep) /\ \A c \in Outs(txs[i]) : Agrees(c, A)

RequestOK(r) ==
    /\ r.amount \in Nat /\ r.fee \in Nat /\ r.sweep \in BOOLEAN
    /\ Listed(r.extra) /\ \A i \in DOMAIN r.extra : r.extra[i].addr[1] # "change"
    /\ r.sweep => r.extra = <<>>

One(cond) == IF cond THEN 1 ELSE 0

Balanced(k) ==
    /\ k.amount \in Nat /\ k.change \in Nat /\ k.fee \in Nat
    /\ Sum(k.ins) = k.amount + SumSeq(k.req.extra) + k.change + k.fee
    /\ k.req.fee = 0 => Rounded(Cardinality(k.ins), Len(k.req.extra) + One(k.amount > 0) + One(k.change > 0)) <= k.fee

SendFields == {"step", "req", "spent", "txs", "unspent", "ins", "amount", "fee", "change", "to"}

SendOK(k, A, P, m, l, rep) ==
    /\ DOMAIN k = SendFields
    /\ k.step # "idle" => RequestOK(k.req)
    /\ k.step = "list" => KnownTxs(k.txs, A, l, rep)
    /\ k.step = "select" => KnownCoins(k.unspent, A, P, m, l, rep)
    /\ k.step \in {"change", "add"} => KnownCoins(k.ins, A, P, m, l, rep) /\ Balanced(k)
    /\ k.step = "add" /\ k.change > 0 => k.to \in m

SendInv ==
    /\ Ledger(utxo, ToSet(pool), mine, last, kin)
    /\ pool \in Seq(ToSet(pool))
    /\ \A i, j \in DOMAIN pool : pool[i].id = pool[j].id => i = j
    /\ DOMAIN send = Sender
    /\ \A s \in Sender : SendOK(send[s], AllOf(utxo, ToSet(pool)), ToSet(pool), mine, last, kin)
    /\ outgo \in Nat /\ income \in Nat
    /\ Sum(Held(utxo, ToSet(pool), mine)) + outgo = income

(* The world may move on under a call: new coins are of new transactions. *)
MovesOn(A, P, m, l, rep, A2, P2, m2, l2, rep2) ==
    /\ l \in Nat /\ l2 \in Nat /\ l <= l2 /\ m \subseteq m2
    /\ rep \subseteq 1 .. l /\ rep \subseteq rep2 /\ \A n \in rep2 : n \in rep \/ n > l
    /\ \A d \in A2 : d \in A \/ d.tx > l
    /\ \A t \in P2 : t \in P \/ t.id > l

LEMMA KnownStays ==
    ASSUME NEW A, NEW P, NEW m, NEW l, NEW rep, NEW A2, NEW P2, NEW m2, NEW l2, NEW rep2,
           MovesOn(A, P, m, l, rep, A2, P2, m2, l2, rep2), NEW S, KnownCoins(S, A, P, m, l, rep)
    PROVE  KnownCoins(S, A2, P2, m2, l2, rep2)
<1>1. ASSUME NEW c \in S PROVE KnownCoin(c, A2, P2, m2, l2, rep2)
  <2>1. KnownCoin(c, A, P, m, l, rep)
    BY DEF KnownCoins
  <2>2. l \in Nat /\ l2 \in Nat /\ l <= l2 /\ c.tx \in 0 .. l
    BY <2>1 DEF KnownCoin, MovesOn
  <2>3. c.tx \in 0 .. l2 /\ ~(c.tx > l)
    BY <2>2
  <2>4. Agrees(c, A2)
    BY <2>1, <2>3 DEF KnownCoin, MovesOn, Agrees, Point
  <2>5. c.tx \in rep2 \/ \A t \in P2 : t.id # c.tx
    BY <2>1, <2>3 DEF KnownCoin, MovesOn
  <2>6. c.addr \in m2
    BY <2>1 DEF KnownCoin, MovesOn
  <2> QED  BY <2>1, <2>3, <2>4, <2>5, <2>6 DEF KnownCoin
<1> QED  BY <1>1 DEF KnownCoins

LEMMA TxStays ==
    ASSUME NEW A, NEW P, NEW m, NEW l, NEW rep, NEW A2, NEW P2, NEW m2, NEW l2, NEW rep2,
           MovesOn(A, P, m, l, rep, A2, P2, m2, l2, rep2), NEW t, TxOK(t, l, rep)
    PROVE  TxOK(t, l2, rep2)
<1>1. l \in Nat /\ l2 \in Nat /\ l <= l2 /\ t.id \in 1 .. l
  BY DEF MovesOn, TxOK
<1>2. t.id \in 1 .. l2 /\ ~(t.id > l)
  BY <1>1
<1>3. t.id \in rep <=> t.id \in rep2
  BY <1>2 DEF MovesOn
<1>4. \A n \in 0 .. l : n \in 0 .. l2
  BY <1>1
<1> QED  BY <1>2, <1>3, <1>4 DEF TxOK

LEMMA CallStays ==
    ASSUME NEW A, NEW P, NEW m, NEW l, NEW rep, NEW A2, NEW P2, NEW m2, NEW l2, NEW rep2,
           MovesOn(A, P, m, l, rep, A2, P2, m2, l2, rep2), NEW k, SendOK(k, A, P, m, l, rep)
    PROVE  SendOK(k, A2, P2, m2, l2, rep2)
<1>1. ASSUME KnownTxs(k.txs, A, l, rep) PROVE KnownTxs(k.txs, A2, l2, rep2)
  <2> DEFINE txs == k.txs
  <2> SUFFICES ASSUME NEW i \in DOMAIN txs
      PROVE  TxOK(txs[i], l2, rep2) /\ \A c \in Outs(txs[i]) : Agrees(c, A2)
    BY <1>1 DEF KnownTxs
  <2>1. TxOK(txs[i], l, rep) /\ \A c \in Outs(txs[i]) : Agrees(c, A)
    BY <1>1 DEF KnownTxs
  <2>2. TxOK(txs[i], l2, rep2)
    BY <2>1, TxStays
  <2>3. l \in Nat /\ txs[i].id \in 1 .. l
    BY <2>1 DEF MovesOn, TxOK
  <2>4. \A c \in Outs(txs[i]) : c.tx = txs[i].id
    BY DEF Outs
  <2>5. \A c \in Outs(txs[i]) : ~(c.tx > l)
    BY <2>3, <2>4
  <2>6. \A c \in Outs(txs[i]) : Agrees(c, A2)
    BY <2>1, <2>5 DEF MovesOn, Agrees, Point
  <2> QED  BY <2>2, <2>6
<1>2. ASSUME NEW S, KnownCoins(S, A, P, m, l, rep) PROVE KnownCoins(S, A2, P2, m2, l2, rep2)
  BY <1>2, KnownStays
<1>3. k.to \in m => k.to \in m2
  BY DEF MovesOn
<1> QED  BY <1>1, <1>2, <1>3 DEF SendOK

(* The outputs of a transaction are its coins. *)
LEMMA CoinsOf ==
    ASSUME NEW t, Listed(t.outs)
    PROVE  /\ IsFiniteSet(Outs(t)) /\ Numbered(Outs(t)) /\ Sum(Outs(t)) = SumSeq(t.outs)
           /\ \A c \in Outs(t) : c.tx = t.id /\ c.vout \in Nat /\ c.vout \in DOMAIN t.outs /\ c.addr = t.outs[c.vout].addr
           /\ Unique(Outs(t))
<1> DEFINE X == {t.outs[i] : i \in DOMAIN t.outs}
<1>1. t.outs \in Seq(X) /\ Numbered(X)
  BY DEF Listed
<1>2. IsFiniteSet(Outs(t)) /\ Numbered(Outs(t)) /\ Sum(Outs(t)) = SumSeq(t.outs)
  <2> HIDE DEF X
  <2> QED  BY <1>1, SumOuts
<1>3. DOMAIN t.outs = 1 .. Len(t.outs) /\ Len(t.outs) \in Nat
  BY <1>1
<1>4. \A c \in Outs(t) : \E i \in DOMAIN t.outs :
        c = [tx |-> t.id, vout |-> i, addr |-> t.outs[i].addr, value |-> t.outs[i].value, mature |-> TRUE]
  BY DEF Outs
<1>5. \A c \in Outs(t) : c.tx = t.id /\ c.vout \in DOMAIN t.outs /\ c.addr = t.outs[c.vout].addr
  BY <1>4
<1>6. \A n \in DOMAIN t.outs : n \in Nat
  BY <1>3
<1>7. ASSUME NEW c \in Outs(t), NEW d \in Outs(t), Point(c) = Point(d) PROVE c = d
  <2>1. c.vout = d.vout
    BY <1>7 DEF Point
  <2>2. PICK i \in DOMAIN t.outs :
          c = [tx |-> t.id, vout |-> i, addr |-> t.outs[i].addr, value |-> t.outs[i].value, mature |-> TRUE]
    BY <1>4
  <2>3. PICK j \in DOMAIN t.outs :
          d = [tx |-> t.id, vout |-> j, addr |-> t.outs[j].addr, value |-> t.outs[j].value, mature |-> TRUE]
    BY <1>4
  <2>4. i = j
    BY <2>1, <2>2, <2>3
  <2> QED  BY <2>2, <2>3, <2>4
<1> QED  BY <1>2, <1>5, <1>6, <1>7 DEF Unique

LEMMA CoinsFinite ==
    ASSUME NEW u, NEW P, NEW m, NEW l, NEW rep, Ledger(u, P, m, l, rep)
    PROVE  IsFiniteSet(AllOf(u, P)) /\ Numbered(AllOf(u, P))
<1> DEFINE f == [t \in P |-> Outs(t)]
           F == {f[t] : t \in P}
<1>1. IsFiniteSet(P) /\ IsFiniteSet(u) /\ \A t \in P : Listed(t.outs)
  BY DEF Ledger, TxOK
<1>2. \A t \in P : IsFiniteSet(f[t])
  BY <1>1, CoinsOf
<1>3. IsFiniteSet(F)
  <2> HIDE DEF f
  <2> QED  BY <1>1, ImageSmall
<1>4. F = {Outs(t) : t \in P}
  OBVIOUS
<1>5. \A T \in F : IsFiniteSet(T)
  BY <1>2
<1> HIDE DEF F
<1>6. IsFiniteSet(UNION F)
  BY <1>3, <1>5, FS_UNION
<1>7. IsFiniteSet(u \cup UNION F)
  BY <1>1, <1>6, FS_Union
<1>8. AllOf(u, P) = u \cup UNION F
  BY <1>4 DEF AllOf
<1>9. Numbered(AllOf(u, P))
  BY DEF Ledger, CoinOK, Numbered
<1> QED  BY <1>7, <1>8, <1>9

(* A new transaction is entered in the ledger. *)
Enters(t, P, m, l, rep, rep2) ==
    /\ t.id = l + 1 /\ TxOK(t, l + 1, rep2)
    /\ rep2 = IF l + 1 \in rep2 THEN rep \cup {l + 1} ELSE rep
    /\ t.ins \cap SpentOf(P) = {}
    /\ \A p \in t.ins : p[1] \in 0 .. l /\ \A v \in P : p[1] = v.id => v.id \in rep
    /\ \A c \in Outs(t) : Named(c, m)

LEMMA LedgerGrows ==
    ASSUME NEW u, NEW P, NEW m, NEW l, NEW rep, Ledger(u, P, m, l, rep),
           NEW t, NEW rep2, Enters(t, P, m, l, rep, rep2)
    PROVE  /\ Ledger(u, P \cup {t}, m, l + 1, rep2)
           /\ MovesOn(AllOf(u, P), P, m, l, rep, AllOf(u, P \cup {t}), P \cup {t}, m, l + 1, rep2)
           /\ AllOf(u, P \cup {t}) = AllOf(u, P) \cup Outs(t)
           /\ \A c \in AllOf(u, P) : c.tx \in 0 .. l
<1> DEFINE Q == P \cup {t}
<1>1. /\ IsFiniteSet(u) /\ IsFiniteSet(P) /\ l \in Nat /\ rep \subseteq 1 .. l
      /\ \A v \in P : TxOK(v, l, rep) /\ v.id \in 1 .. l /\ Listed(v.outs)
  BY DEF Ledger, TxOK
<1>2. t.id = l + 1 /\ TxOK(t, l + 1, rep2) /\ Listed(t.outs)
  BY DEF Enters, TxOK
<1>3. rep2 \subseteq 1 .. l + 1 /\ rep \subseteq rep2 /\ \A n \in rep2 : n \in rep \/ n = l + 1
  BY <1>1 DEF Enters
<1>4. AllOf(u, Q) = AllOf(u, P) \cup Outs(t)
  BY DEF AllOf
<1>5. \A c \in Outs(t) : c.tx = l + 1 /\ CoinOK(c, m)
  BY <1>2, CoinsOf DEF Enters, CoinOK, Numbered
<1>6. \A c \in AllOf(u, P) : c.tx \in 0 .. l
  <2>1. \A c \in u : c.tx \in 0 .. l
    BY DEF Ledger
  <2>2. ASSUME NEW v \in P, NEW c \in Outs(v) PROVE c.tx \in 0 .. l
    <3>1. c.tx = v.id
      BY DEF Outs
    <3> QED  BY <1>1, <3>1
  <2> QED  BY <2>1, <2>2 DEF AllOf
<1>7. l + 1 > l /\ l + 1 \notin 0 .. l /\ l + 1 \in Nat /\ l <= l + 1
  BY <1>1
<1>8. \A d \in AllOf(u, Q) : d \in AllOf(u, P) \/ d.tx > l
  BY <1>4, <1>5, <1>7
<1>9. MovesOn(AllOf(u, P), P, m, l, rep, AllOf(u, Q), Q, m, l + 1, rep2)
  BY <1>1, <1>2, <1>3, <1>7, <1>8 DEF MovesOn
<1>10. \A v \in Q : TxOK(v, l + 1, rep2) /\ \A c \in u : c.tx # v.id
  <2>1. \A v \in P : TxOK(v, l + 1, rep2)
    BY <1>1, <1>9, TxStays
  <2>2. \A c \in u : c.tx # l + 1
    BY <1>7 DEF Ledger
  <2> QED  BY <1>2, <2>1, <2>2 DEF Ledger
<1>11. ASSUME NEW v \in P PROVE t.id # v.id /\ t.ins \cap v.ins = {}
  <2>1. t.id # v.id
    BY <1>1, <1>2, <1>7
  <2> QED  BY <2>1 DEF Enters, SpentOf
<1>12. \A x, v \in Q : x # v => x.id # v.id /\ x.ins \cap v.ins = {}
  BY <1>11 DEF Ledger
<1>13. Unique(AllOf(u, Q))
  <2> SUFFICES ASSUME NEW c \in AllOf(u, Q), NEW d \in AllOf(u, Q), Point(c) = Point(d) PROVE c = d
    BY DEF Unique
  <2>1. c.tx = d.tx
    BY DEF Point
  <2>2. CASE c \in AllOf(u, P) /\ d \in AllOf(u, P)
    BY <2>2 DEF Ledger, Unique
  <2>3. CASE c \in Outs(t) /\ d \in Outs(t)
    BY <1>2, <2>3, CoinsOf DEF Unique
  <2> QED  BY <1>4, <1>5, <1>6, <1>7, <2>1, <2>2, <2>3
<1>14. ASSUME NEW x \in Q, NEW v \in Q, NEW p \in x.ins, p[1] = v.id PROVE v.id \in rep2
  <2>1. CASE x \in P /\ v \in P
    BY <1>3, <1>14, <2>1 DEF Ledger
  <2>2. CASE x = t /\ v \in P
    BY <1>3, <1>14, <2>2 DEF Enters
  <2>3. CASE v = t
    <3>1. p[1] = l + 1
      BY <1>2, <1>14, <2>3
    <3>2. CASE x = t
      BY <1>7, <3>1, <3>2 DEF Enters
    <3>3. CASE x \in P
      <4>1. TxOK(x, l, rep) /\ x.id \in 1 .. l
        BY <1>1, <3>3
      <4>2. p[1] \in 0 .. l
        <5>1. CASE x.id \in rep
          BY <4>1, <5>1 DEF TxOK
        <5>2. CASE x.id \notin rep
          <6>1. p = <<0, x.id>>
            BY <4>1, <5>2, <1>14 DEF TxOK
          <6> QED  BY <1>1, <6>1
        <5> QED  BY <5>1, <5>2
      <4> QED  BY <1>7, <3>1, <4>2
    <3> QED  BY <3>2, <3>3
  <2> QED  BY <2>1, <2>2, <2>3
<1>15. IsFiniteSet(Q)
  BY <1>1, FS_AddElement
<1>16. \A c \in AllOf(u, Q) : CoinOK(c, m)
  BY <1>4, <1>5 DEF Ledger
<1>17. \A c \in u : c.tx \in 0 .. l + 1 /\ (c.tx = 0 => c \in Initial)
  <2>1. \A c \in u : c.tx \in 0 .. l /\ (c.tx = 0 => c \in Initial)
    BY DEF Ledger
  <2> QED  BY <1>1, <2>1
<1>18. Ledger(u, Q, m, l + 1, rep2)
  <2> HIDE DEF Q
  <2> QED  BY <1>1, <1>3, <1>7, <1>10, <1>12, <1>13, <1>14, <1>15, <1>16, <1>17 DEF Ledger
<1> QED  BY <1>4, <1>6, <1>9, <1>18

(* A block takes a transaction over, whose inputs are confirmed. *)
Confirms(t, wt, u, P, m, l, rep) ==
    /\ Ledger(u, P, m, l, rep)
    /\ t \in P /\ t.ins \cap UNION {Points(Outs(v)) : v \in P} = {}
    /\ wt = {c \in u : Point(c) \notin t.ins} \cup Outs(t)

LEMMA LedgerConfirms ==
    ASSUME NEW u, NEW P, NEW m, NEW l, NEW rep, NEW t, NEW wt, Confirms(t, wt, u, P, m, l, rep)
    PROVE  /\ Ledger(wt, P \ {t}, m, l, rep)
           /\ MovesOn(AllOf(u, P), P, m, l, rep, AllOf(wt, P \ {t}), P \ {t}, m, l, rep)
           /\ Held(wt, P \ {t}, m) = Held(u, P, m)
<1> DEFINE Q == P \ {t}
<1>0. /\ Ledger(u, P, m, l, rep)
      /\ t \in P /\ t.ins \cap UNION {Points(Outs(v)) : v \in P} = {}
      /\ wt = {c \in u : Point(c) \notin t.ins} \cup Outs(t)
  BY DEF Confirms
<1> USE <1>0
<1>1. /\ IsFiniteSet(u) /\ IsFiniteSet(P) /\ l \in Nat /\ rep \subseteq 1 .. l
      /\ \A v \in P : TxOK(v, l, rep) /\ v.id \in 1 .. l /\ Listed(v.outs)
  BY DEF Ledger, TxOK
<1>2. AllOf(wt, Q) = {c \in AllOf(u, P) : c \in u => Point(c) \notin t.ins}
  <2>1. \A c \in u : c \notin Outs(t)
    BY <1>1, CoinsOf DEF Ledger
  <2>2. \A v \in P : \A c \in Outs(v) : c \notin u
    BY <1>1, CoinsOf DEF Ledger
  <2> QED  BY <2>1, <2>2 DEF AllOf
<1>3. AllOf(wt, Q) = {c \in AllOf(u, P) : Point(c) \notin t.ins}
  <2>1. \A v \in P : \A c \in Outs(v) : Point(c) \notin t.ins
    BY DEF Points
  <2> QED  BY <1>2, <2>1 DEF AllOf
<1>4. SpentOf(Q) = SpentOf(P) \ t.ins
  BY DEF Ledger, SpentOf
<1>5. t.ins \subseteq SpentOf(P)
  BY DEF SpentOf
<1>6. Held(wt, Q, m) = Held(u, P, m)
  <2> HIDE DEF Q
  <2> QED  BY <1>3, <1>4, <1>5 DEF Held
<1>7. MovesOn(AllOf(u, P), P, m, l, rep, AllOf(wt, Q), Q, m, l, rep)
  <2> DEFINE A == AllOf(u, P)
             B == AllOf(wt, Q)
  <2>0. B \subseteq A /\ Q \subseteq P
    BY <1>3
  <2> HIDE DEF A, B, Q
  <2>1. B \subseteq A /\ Q \subseteq P /\ l <= l
    BY ONLY <1>1, <2>0
  <2>2. MovesOn(A, P, m, l, rep, B, Q, m, l, rep)
    BY <1>1, <2>1 DEF MovesOn
  <2> QED  BY <2>2 DEF A, B
<1>8. IsFiniteSet(wt) /\ IsFiniteSet(Q)
  <2>1. IsFiniteSet({c \in u : Point(c) \notin t.ins}) /\ IsFiniteSet(Q)
    BY <1>1, FS_Subset
  <2>2. IsFiniteSet(Outs(t))
    BY <1>1, CoinsOf
  <2> QED  BY <2>1, <2>2, FS_Union
<1>9. \A c \in Outs(t) : c.tx = t.id
  BY DEF Outs
<1>10. \A c \in wt : c.tx \in 0 .. l /\ (c.tx = 0 => c \in Initial)
  <2>1. t.id \in 0 .. l /\ t.id # 0
    BY <1>1
  <2> QED  BY <1>9, <2>1 DEF Ledger
<1>11. \A v \in Q : TxOK(v, l, rep) /\ \A c \in wt : c.tx # v.id
  BY <1>1, <1>9 DEF Ledger
<1>12. Unique(AllOf(wt, Q)) /\ \A c \in AllOf(wt, Q) : CoinOK(c, m)
  BY <1>3 DEF Ledger, Unique
<1>13. /\ \A x, v \in Q : x # v => x.id # v.id /\ x.ins \cap v.ins = {}
       /\ \A x, v \in Q : (\E p \in x.ins : p[1] = v.id) => v.id \in rep
  BY DEF Ledger
<1>14. Ledger(wt, Q, m, l, rep)
  <2> HIDE DEF Q
  <2> QED  BY <1>1, <1>8, <1>10, <1>11, <1>12, <1>13 DEF Ledger
<1> QED  BY <1>6, <1>7, <1>14

(* A new address owns nothing yet. *)
LEMMA LedgerNames ==
    ASSUME NEW u, NEW P, NEW m, NEW l, NEW rep, Ledger(u, P, m, l, rep), NEW a, a[1] = "change"
    PROVE  /\ Ledger(u, P, m \cup {a}, l, rep)
           /\ MovesOn(AllOf(u, P), P, m, l, rep, AllOf(u, P), P, m \cup {a}, l, rep)
           /\ Held(u, P, m \cup {a}) = Held(u, P, m)
<1> DEFINE n == m \cup {a}
<1>1. \A c \in AllOf(u, P) : CoinOK(c, n) /\ (c.addr \in n <=> c.addr \in m)
  BY DEF Ledger, CoinOK, Named
<1>2. Held(u, P, n) = Held(u, P, m)
  <2> HIDE DEF n
  <2> QED  BY <1>1 DEF Held
<1>3. m \subseteq n /\ l <= l /\ l \in Nat /\ rep \subseteq 1 .. l
  BY DEF Ledger
<1>4. Ledger(u, P, n, l, rep)
  <2> HIDE DEF n
  <2> QED  BY <1>1 DEF Ledger
<1>5. MovesOn(AllOf(u, P), P, m, l, rep, AllOf(u, P), P, n, l, rep)
  <2> HIDE DEF n
  <2> QED  BY <1>3 DEF MovesOn
<1> QED  BY <1>2, <1>4, <1>5

(* S is what a transaction takes from the coins held. *)
Takes(S, t, u, P, m) == S = {c \in Held(u, P, m) : Point(c) \in t.ins}

(* The outputs the wallet keeps, and those it pays away. *)
Own(t, m) == {c \in Outs(t) : c.addr \in m}
Away(t, m) == {c \in Outs(t) : c.addr \notin m}

(* Holdings grow by the own outputs of a new transaction and lose what it spends. *)
LEMMA HeldGrows ==
    ASSUME NEW u, NEW P, NEW m, NEW l, NEW rep, Ledger(u, P, m, l, rep),
           NEW t, NEW rep2, Enters(t, P, m, l, rep, rep2), NEW S,
           Takes(S, t, u, P, m)
    PROVE  /\ Held(u, P \cup {t}, m) = (Held(u, P, m) \ S) \cup Own(t, m)
           /\ IsFiniteSet(Held(u, P, m) \ S) /\ IsFiniteSet(Own(t, m))
           /\ Numbered(Held(u, P, m) \ S) /\ Numbered(Own(t, m))
           /\ (Held(u, P, m) \ S) \cap Own(t, m) = {}
           /\ S \in SUBSET Held(u, P, m) /\ IsFiniteSet(Held(u, P, m)) /\ Numbered(Held(u, P, m))
           /\ IsFiniteSet(Outs(t)) /\ Numbered(Outs(t))
<1> DEFINE own == {c \in Outs(t) : c.addr \in m}
           H == Held(u, P, m)
           Q == P \cup {t}
<1> USE DEF Takes, Own
<1>0. Ledger(u, P, m, l, rep) /\ Enters(t, P, m, l, rep, rep2)
  OBVIOUS
<1>1. /\ MovesOn(AllOf(u, P), P, m, l, rep, AllOf(u, Q), Q, m, l + 1, rep2)
      /\ AllOf(u, Q) = AllOf(u, P) \cup Outs(t)
      /\ \A c \in AllOf(u, P) : c.tx \in 0 .. l
  BY ONLY <1>0, LedgerGrows
<1>2. l \in Nat /\ t.id = l + 1 /\ l + 1 \notin 0 .. l /\ Listed(t.outs)
  BY DEF Ledger, Enters, TxOK
<1>3. IsFiniteSet(Outs(t)) /\ Numbered(Outs(t)) /\ \A c \in Outs(t) : c.tx = l + 1
  BY <1>2, CoinsOf
<1>4. H \subseteq AllOf(u, P)
  BY DEF Held
<1>5. IsFiniteSet(H) /\ Numbered(H)
  BY <1>4, CoinsFinite, FS_Subset DEF Numbered
<1>6. SpentOf(Q) = SpentOf(P) \cup t.ins
  BY DEF SpentOf
<1>7. \A p \in SpentOf(Q) : p[1] \in 0 .. l
  <2>1. ASSUME NEW v \in P, NEW p \in v.ins PROVE p[1] \in 0 .. l
    <3>1. TxOK(v, l, rep)
      BY DEF Ledger
    <3>2. CASE v.id \in rep
      BY <3>1, <3>2 DEF TxOK
    <3>3. CASE v.id \notin rep
      <4>1. p = <<0, v.id>>
        BY <2>1, <3>1, <3>3 DEF TxOK
      <4> QED  BY <1>2, <4>1
    <3> QED  BY <3>2, <3>3
  <2>2. \A p \in t.ins : p[1] \in 0 .. l
    BY DEF Enters
  <2> QED  BY <2>1, <2>2 DEF SpentOf
<1>8. \A c \in Outs(t) : Point(c) \notin SpentOf(Q)
  <2>1. \A c \in Outs(t) : Point(c)[1] = l + 1
    BY <1>3 DEF Point
  <2> HIDE DEF Q
  <2> QED  BY <1>2, <1>7, <2>1
<1>9. Held(u, Q, m) = (H \ S) \cup own
  <2>1. \A c \in AllOf(u, P) : (c.addr \in m /\ Point(c) \notin SpentOf(Q)) <=> c \in H \ S
    BY <1>6 DEF Held
  <2> HIDE DEF Q, H
  <2> QED  BY <1>1, <1>8, <2>1, <1>4 DEF Held
<1>10. (H \ S) \cap own = {}
  BY <1>1, <1>2, <1>3, <1>4
<1>11. IsFiniteSet(H \ S) /\ Numbered(H \ S) /\ IsFiniteSet(own) /\ Numbered(own)
  <2>1. IsFiniteSet(H \ S) /\ IsFiniteSet(own)
    <3> HIDE DEF H
    <3> QED  BY <1>3, <1>5, FS_Subset
  <2> HIDE DEF H
  <2> QED  BY <1>3, <1>5, <2>1 DEF Numbered
<1> QED  BY <1>3, <1>5, <1>9, <1>10, <1>11

(* The coins of a call that are all there and free are held, and no others have their points. *)
LEMMA InputsHeld ==
    ASSUME NEW u, NEW P, NEW m, NEW l, NEW rep, Ledger(u, P, m, l, rep),
           NEW S, KnownCoins(S, AllOf(u, P), P, m, l, rep),
           Points(S) \subseteq Points(AllOf(u, P)), Points(S) \cap SpentOf(P) = {}
    PROVE  S = {c \in Held(u, P, m) : Point(c) \in Points(S)}
<1>1. ASSUME NEW c \in S PROVE c \in Held(u, P, m)
  <2>1. KnownCoin(c, AllOf(u, P), P, m, l, rep)
    BY DEF KnownCoins
  <2>2. PICK d \in AllOf(u, P) : Point(d) = Point(c)
    BY DEF Points
  <2>3. d = c
    BY <2>1, <2>2 DEF KnownCoin, Agrees
  <2>4. Point(c) \in Points(S)
    BY DEF Points
  <2> QED  BY <2>1, <2>2, <2>3, <2>4 DEF KnownCoin, Held
<1>2. ASSUME NEW c \in Held(u, P, m), Point(c) \in Points(S) PROVE c \in S
  <2>1. PICK d \in S : Point(d) = Point(c)
    BY <1>2 DEF Points
  <2>2. KnownCoin(d, AllOf(u, P), P, m, l, rep)
    BY DEF KnownCoins
  <2>3. c = d
    BY <2>1, <2>2 DEF KnownCoin, Agrees, Held
  <2> QED  BY <2>3
<1>3. \A c \in S : Point(c) \in Points(S)
  BY DEF Points
<1> QED  BY <1>1, <1>2, <1>3

(* A transaction that enters the ledger spends the free coins S and pays a fee. *)
Spend(u, P, m, l, rep, t, rep2, S, fee) ==
    /\ Ledger(u, P, m, l, rep) /\ Enters(t, P, m, l, rep, rep2)
    /\ KnownCoins(S, AllOf(u, P), P, m, l, rep) /\ t.ins = Points(S)
    /\ Points(S) \subseteq Points(AllOf(u, P)) /\ Points(S) \cap SpentOf(P) = {}
    /\ fee \in Nat /\ Sum(S) = SumSeq(t.outs) + fee

(* An accepted send adds up: what it spends is what it pays, its change and its fee. *)
LEMMA SpendAddsUp ==
    ASSUME NEW u, NEW P, NEW m, NEW l, NEW rep, NEW t, NEW rep2, NEW S, NEW fee,
           Spend(u, P, m, l, rep, t, rep2, S, fee)
    PROVE  /\ Sum(Away(t, m)) \in Nat
           /\ Sum(Held(u, P \cup {t}, m)) + fee + Sum(Away(t, m)) = Sum(Held(u, P, m))
<1> DEFINE own == Own(t, m)
           away == Away(t, m)
           H == Held(u, P, m)
           K == H \ S
           G == Held(u, P \cup {t}, m)
<1>0. Ledger(u, P, m, l, rep) /\ Enters(t, P, m, l, rep, rep2)
  BY DEF Spend
<1>1. Takes(S, t, u, P, m)
  <2>1. /\ Ledger(u, P, m, l, rep) /\ KnownCoins(S, AllOf(u, P), P, m, l, rep)
        /\ Points(S) \subseteq Points(AllOf(u, P)) /\ Points(S) \cap SpentOf(P) = {}
    BY DEF Spend
  <2> HIDE DEF H
  <2>2. S = {c \in Held(u, P, m) : Point(c) \in Points(S)}
    BY ONLY <2>1, InputsHeld
  <2>3. t.ins = Points(S)
    BY DEF Spend
  <2> QED  BY <2>2, <2>3 DEF Takes
<1>2. /\ Held(u, P \cup {t}, m) = (Held(u, P, m) \ S) \cup Own(t, m)
      /\ IsFiniteSet(Held(u, P, m) \ S) /\ IsFiniteSet(Own(t, m))
      /\ Numbered(Held(u, P, m) \ S) /\ Numbered(Own(t, m))
      /\ (Held(u, P, m) \ S) \cap Own(t, m) = {}
      /\ S \in SUBSET Held(u, P, m) /\ IsFiniteSet(Held(u, P, m)) /\ Numbered(Held(u, P, m))
      /\ IsFiniteSet(Outs(t)) /\ Numbered(Outs(t))
  BY ONLY <1>0, <1>1, HeldGrows
<1>3. Sum(Outs(t)) = SumSeq(t.outs)
  BY <1>0, CoinsOf DEF Enters, TxOK
<1>4. Outs(t) \ own = away /\ own \in SUBSET Outs(t)
  BY DEF Own, Away
<1> HIDE DEF own, away, H, K, G
<1>5. Sum(own) \in Nat /\ Sum(away) \in Nat /\ Sum(Outs(t)) = Sum(own) + Sum(away)
  BY ONLY <1>2, <1>4, SumPart DEF own, away
<1>6. Sum(S) \in Nat /\ Sum(K) \in Nat /\ Sum(H) = Sum(S) + Sum(K)
  <2>1. Sum(S) \in Nat /\ Sum(H \ S) \in Nat /\ Sum(H) = Sum(S) + Sum(H \ S)
    BY ONLY <1>2, SumPart DEF H
  <2> QED  BY <2>1 DEF K
<1>7. Sum(G) = Sum(K) + Sum(own)
  BY ONLY <1>2, SumUnion DEF G, K, H, own
<1>8. fee \in Nat /\ Sum(S) = SumSeq(t.outs) + fee
  BY DEF Spend
<1>9. Sum(S) = Sum(own) + Sum(away) + fee
  BY ONLY <1>3, <1>5, <1>8
<1>10. Sum(G) + fee + Sum(away) = Sum(H)
  BY ONLY <1>5, <1>6, <1>7, <1>8, <1>9
<1> QED  BY <1>5, <1>10 DEF G, H, away

(* What a call lists is known, however old the snapshot: only own transactions have a depth. *)
LEMMA ListKnown ==
    ASSUME NEW txs, KnownTxs(txs, AllCoins, last, kin), NEW spent,
           Ledger(utxo, ToSet(pool), mine, last, kin)
    PROVE  KnownCoins(listUnspent(spent, txs), AllCoins, ToSet(pool), mine, last, kin)
<1> DEFINE A == AllCoins
           P == ToSet(pool)
           conf == {c \in utxo : c.addr \in mine}
           owned == Points(conf)
           depth == SafeDepth(txs, owned)
           deep == {j \in DOMAIN txs : depth[j] \in 1 .. MaxDepth}
           L == listUnspent(spent, txs)
<1>1. A = AllOf(utxo, P)
  BY DEF AllCoins, AllOf
<1>2. /\ \A c \in utxo : c.tx \in 0 .. last /\ (c.tx = 0 => c \in Initial)
      /\ \A t \in P : \A c \in utxo : c.tx # t.id
      /\ Unique(A) /\ \A c \in A : CoinOK(c, mine)
      /\ IsFiniteSet(utxo) /\ last \in Nat
  BY <1>1 DEF Ledger
<1>3. \A c \in conf : c \in utxo /\ c \in A
  BY DEF AllCoins
<1>4. ASSUME NEW c \in conf PROVE KnownCoin(c, A, P, mine, last, kin)
  <2>1. c.tx = 0 => c.vout \notin 1 .. MaxTx
    BY <1>2, <1>3, SendAssumption
  <2>2. Agrees(c, A)
    BY <1>2, <1>3 DEF Unique, Agrees
  <2>3. c.tx \in 0 .. last /\ c.addr \in mine /\ c.vout \in Nat /\ c.value \in Nat /\ \A t \in P : t.id # c.tx
    <3> HIDE DEF P, A
    <3> QED  BY <1>2, <1>3 DEF CoinOK
  <2> HIDE DEF P, A, conf
  <2> QED  BY <2>1, <2>2, <2>3 DEF KnownCoin
<1>5. ASSUME NEW i \in deep
      PROVE  /\ txs[i].id \in kin /\ txs[i].id \in 1 .. last /\ Listed(txs[i].outs)
             /\ \A c \in Outs(txs[i]) : Agrees(c, A)
  <2>1. TxOK(txs[i], last, kin) /\ \A c \in Outs(txs[i]) : Agrees(c, A)
    BY DEF KnownTxs
  <2>2. SUFFICES ASSUME txs[i].id \notin kin PROVE FALSE
    BY <2>1 DEF TxOK
  <2>3. txs[i].ins = {<<0, txs[i].id>>} /\ txs[i].id \in 1 .. MaxTx
    BY <1>2, <2>1, <2>2, SendAssumption DEF TxOK
  <2>4. txs[i].ins \cap owned = {}
    <3>1. ASSUME NEW c \in conf, Point(c) = <<0, txs[i].id>> PROVE FALSE
      <4>1. c.tx = 0 /\ c.vout = txs[i].id
        BY <3>1 DEF Point
      <4> QED  BY <1>4, <2>3, <4>1 DEF KnownCoin
    <3> HIDE DEF conf
    <3> QED  BY <2>3, <3>1 DEF Points
  <2>5. \A j \in DOMAIN txs : txs[j].id # 0
    BY <1>2 DEF KnownTxs, TxOK
  <2>6. \A j \in DOMAIN txs : \A p \in txs[i].ins : p[1] # txs[j].id
    BY <2>3, <2>5
  <2>7. DOMAIN txs = 1 .. Len(txs) /\ Len(txs) \in Nat /\ i \in DOMAIN txs /\ depth[i] \in 1 .. MaxDepth
    BY DEF KnownTxs
  <2> HIDE DEF owned
  <2>8. depth[i] = 0
    BY ONLY <2>4, <2>6, <2>7, DepthOfOthers DEF depth
  <2> HIDE DEF depth
  <2> QED  BY <2>7, <2>8
<1>6. ASSUME NEW c \in SafeChange(txs, owned)
      PROVE  \E i \in deep : c \in Outs(txs[i]) /\ c.addr \in mine
  BY DEF SafeChange
<1>7. \A c \in L : c \in conf \/ c \in SafeChange(txs, owned)
  BY DEF listUnspent
<1> HIDE DEF L, owned, deep, conf, depth, A, P
<1>8. ASSUME NEW i \in deep, NEW c \in Outs(txs[i])
      PROVE  /\ c.tx = txs[i].id /\ c.vout \in Nat /\ c.value \in Nat /\ Unique(Outs(txs[i]))
             /\ IsFiniteSet(Outs(txs[i]))
  <2>1. Listed(txs[i].outs)
    BY <1>5
  <2> QED  BY <2>1, CoinsOf DEF Numbered
<1>9. ASSUME NEW i \in deep, NEW c \in Outs(txs[i]), c.addr \in mine PROVE KnownCoin(c, A, P, mine, last, kin)
  <2>1. c.tx \in kin /\ c.tx \in 1 .. last /\ Agrees(c, A) /\ c.vout \in Nat /\ c.value \in Nat
    BY <1>5, <1>8
  <2>2. c.tx \in 0 .. last /\ c.tx # 0
    BY <1>2, <2>1
  <2> QED  BY <1>9, <2>1, <2>2 DEF KnownCoin
<1>10. \A c \in L : KnownCoin(c, A, P, mine, last, kin)
  BY <1>4, <1>6, <1>7, <1>9
<1>11. Unique(L)
  <2> SUFFICES ASSUME NEW c \in L, NEW d \in L, Point(c) = Point(d) PROVE c = d
    BY DEF Unique
  <2>1. ASSUME NEW e \in L, NEW f \in L, Point(e) = Point(f), f \in conf PROVE e = f
    <3>1. Agrees(e, A) /\ f \in A
      BY <1>3, <1>10, <2>1 DEF KnownCoin
    <3> QED  BY <2>1, <3>1 DEF Agrees
  <2>2. CASE c \in conf \/ d \in conf
    BY <2>1, <2>2
  <2>3. CASE ~(c \in conf \/ d \in conf)
    <3>1. PICK i \in deep : c \in Outs(txs[i])
      BY <1>6, <1>7, <2>3
    <3>2. PICK j \in deep : d \in Outs(txs[j])
      BY <1>6, <1>7, <2>3
    <3>3. c.tx = d.tx
      BY DEF Point
    <3>4. txs[i].id = txs[j].id
      BY <1>8, <3>1, <3>2, <3>3
    <3>5. i = j
      BY <3>4 DEF KnownTxs, deep
    <3> QED  BY <1>8, <3>1, <3>2, <3>5 DEF Unique
  <2> QED  BY <2>2, <2>3
<1>12. IsFiniteSet(L)
  <2> DEFINE f == [i \in deep |-> Outs(txs[i])]
             F == {f[i] : i \in deep}
  <2>1. DOMAIN txs = 1 .. Len(txs) /\ Len(txs) \in Nat
    BY DEF KnownTxs
  <2>2. IsFiniteSet(deep)
    <3>1. IsFiniteSet(DOMAIN txs)
      BY <2>1, FS_Interval
    <3>2. deep \subseteq DOMAIN txs
      BY DEF deep
    <3> QED  BY <3>1, <3>2, FS_Subset
  <2>3. \A i \in deep : IsFiniteSet(Outs(txs[i]))
    BY <1>5, CoinsOf
  <2>4. \A T \in F : IsFiniteSet(T)
    BY <2>3
  <2>5. IsFiniteSet(F)
    <3> HIDE DEF f
    <3> QED  BY <2>2, ImageSmall
  <2>6. \A i \in deep : Outs(txs[i]) \in F
    OBVIOUS
  <2> HIDE DEF F
  <2>7. IsFiniteSet(UNION F)
    BY <2>4, <2>5, FS_UNION
  <2>8. L \subseteq utxo \cup UNION F
    BY <1>3, <1>6, <1>7, <2>6
  <2>9. IsFiniteSet(utxo \cup UNION F)
    BY <1>2, <2>7, FS_Union
  <2> QED  BY <2>8, <2>9, FS_Subset
<1>13. KnownCoins(L, A, P, mine, last, kin)
  BY <1>10, <1>11, <1>12 DEF KnownCoins
<1> QED  BY <1>13 DEF L, A, P

LEMMA KnownPart ==
    ASSUME NEW S, NEW A, NEW P, NEW m, NEW l, NEW rep, KnownCoins(S, A, P, m, l, rep), NEW T \in SUBSET S
    PROVE  KnownCoins(T, A, P, m, l, rep) /\ Numbered(S) /\ Sum(T) \in Nat
<1>1. IsFiniteSet(T) /\ IsFiniteSet(S)
  BY FS_Subset DEF KnownCoins
<1>2. Numbered(S) /\ Numbered(T)
  BY DEF KnownCoins, KnownCoin, Numbered
<1>3. Sum(T) \in Nat
  BY <1>1, <1>2, SumType
<1> QED  BY <1>1, <1>2, <1>3 DEF KnownCoins, Unique

(* A selection that is settled adds up, and its estimate was made for no fewer outputs than it gets. *)
LEMMA SettledAddsUp ==
    ASSUME NEW r, RequestOK(r), NEW S, IsFiniteSet(S), Sum(S) \in Nat, Settled(S, r).ok,
           NEW k, k.req = r, k.ins = S, k.amount = Settled(S, r).amount, k.fee = Settled(S, r).fee,
           k.change = Settled(S, r).change
    PROVE  Balanced(k)
<1> DEFINE total == Sum(S)
           e == SumSeq(r.extra)
           n == Len(r.extra)
           out1 == IF r.amount > 0 \/ r.sweep THEN 1 ELSE 0
           out2 == IF ~r.sweep /\ total > Target(r, r.fee) THEN 1 ELSE 0
           est == estimatedFee(Cardinality(S), n + out1 + out2)
           fee == IF r.fee = 0 THEN est ELSE r.fee
<1>1. r.amount \in Nat /\ r.fee \in Nat /\ r.sweep \in BOOLEAN
  BY DEF RequestOK
<1>2. e \in Nat /\ n \in Nat
  BY SumSeqType DEF RequestOK, Listed
<1>3. Cardinality(S) \in Nat
  BY FS_CardinalityType
<1>4. out1 \in 0 .. 1 /\ out2 \in 0 .. 1
  OBVIOUS
<1>5. est \in Nat /\ Rounded(Cardinality(S), n + out1 + out2) <= est
  <2> HIDE DEF out1, out2, n
  <2>1. n + out1 + out2 \in Nat
    BY <1>2, <1>4
  <2> QED  BY <1>3, <2>1, EstimateIs
<1>6. fee \in Nat
  BY <1>1, <1>5
<1>7. Target(r, fee) = r.amount + fee + e /\ Target(r, r.fee) = r.amount + r.fee + e
  BY DEF Target
<1>8. ASSUME r.sweep
      PROVE  /\ k.fee = fee /\ k.change = 0 /\ k.amount = total - fee /\ total > fee /\ e = 0 /\ n = 0
  <2>1. r.extra = <<>>
    BY <1>8 DEF RequestOK
  <2>2. e = 0 /\ n = 0
    BY <2>1, SumSeqEmpty
  <2>3. Settled(S, r) = [ok |-> total > fee, fee |-> fee, amount |-> total - fee, change |-> 0]
    BY <1>8 DEF Settled
  <2>4. total > fee
    <3> DEFINE b == total > fee
               y == total - fee
               z == Settled(S, r)
    <3>1. z = [ok |-> b, fee |-> fee, amount |-> y, change |-> 0] /\ z.ok
      BY <2>3
    <3> HIDE DEF b, y, fee, z
    <3>2. b
      BY ONLY <3>1
    <3> QED  BY <3>2 DEF b
  <2> HIDE DEF fee, total, e, n
  <2>5. Settled(S, r).fee = fee /\ Settled(S, r).amount = total - fee /\ Settled(S, r).change = 0
    BY ONLY <2>3
  <2> QED  BY <2>2, <2>4, <2>5
<1>9. ASSUME ~r.sweep
      PROVE  /\ k.fee = fee /\ k.change = total - Target(r, fee) /\ k.amount = r.amount
             /\ total >= Target(r, fee)
  <2>1. Settled(S, r) = [ok |-> total >= Target(r, fee), fee |-> fee, amount |-> r.amount,
                         change |-> total - Target(r, fee)]
    BY <1>9 DEF Settled
  <2>2. total >= Target(r, fee)
    <3> DEFINE b == total >= Target(r, fee)
               y == total - Target(r, fee)
               z == Settled(S, r)
    <3>1. z = [ok |-> b, fee |-> fee, amount |-> r.amount, change |-> y] /\ z.ok
      BY <2>1
    <3> HIDE DEF b, y, fee, z
    <3>2. b
      BY ONLY <3>1
    <3> QED  BY <3>2 DEF b
  <2> HIDE DEF fee, total
  <2>3. /\ Settled(S, r).fee = fee /\ Settled(S, r).amount = r.amount
        /\ Settled(S, r).change = total - Target(r, fee)
    BY ONLY <2>1
  <2> QED  BY <2>2, <2>3
<1>10. total \in Nat
  OBVIOUS
<1> DEFINE x == n + One(k.amount > 0) + One(k.change > 0)
<1>11. k.amount \in Nat /\ k.change \in Nat /\ k.fee \in Nat /\ total = k.amount + e + k.change + k.fee
  <2> HIDE DEF fee, total, e, n
  <2>1. CASE r.sweep
    BY <1>6, <1>8, <1>10, <2>1
  <2>2. CASE ~r.sweep
    BY <1>1, <1>2, <1>6, <1>7, <1>9, <1>10, <2>2
  <2> QED  BY <2>1, <2>2
<1>12. x \in Nat
  <2> HIDE DEF n
  <2> QED  BY <1>2 DEF One
<1>13. ASSUME r.fee = 0 PROVE x <= n + out1 + out2
  <2>1. fee = est
    BY <1>13
  <2> HIDE DEF fee, total, e, n, est
  <2>2. CASE r.sweep
    <3>1. One(k.amount > 0) \in 0 .. 1 /\ One(k.change > 0) = 0 /\ out1 = 1
      BY <1>8, <2>2 DEF One
    <3> HIDE DEF out1, out2
    <3> QED  BY <1>2, <1>4, <3>1
  <2>3. CASE ~r.sweep
    <3>1. One(k.amount > 0) <= out1
      BY <1>9, <2>3 DEF One
    <3>2. One(k.change > 0) <= out2
      <4>1. CASE k.change > 0
        <5>1. total > Target(r, fee)
          BY <1>1, <1>2, <1>6, <1>7, <1>9, <1>10, <2>3, <4>1
        <5>2. total > Target(r, r.fee)
          BY <1>1, <1>2, <1>5, <1>6, <1>7, <1>10, <1>13, <2>1, <5>1
        <5> QED  BY <2>3, <4>1, <5>2 DEF One
      <4>2. CASE ~(k.change > 0)
        BY <1>4, <4>2 DEF One
      <4> QED  BY <4>1, <4>2
    <3>3. One(k.amount > 0) \in 0 .. 1 /\ One(k.change > 0) \in 0 .. 1
      BY DEF One
    <3> HIDE DEF out1, out2
    <3> QED  BY <1>2, <1>4, <3>1, <3>2, <3>3
  <2> QED  BY <1>1, <2>2, <2>3
<1>14. ASSUME r.fee = 0 PROVE Rounded(Cardinality(S), x) <= k.fee
  <2>1. x <= n + out1 + out2 /\ k.fee = est
    BY <1>1, <1>8, <1>9, <1>13, <1>14
  <2> HIDE DEF est, n, out1, out2, x
  <2>2. n + out1 + out2 \in Nat
    BY <1>2, <1>4
  <2> DEFINE y == n + out1 + out2
             c == Cardinality(S)
  <2>3. x \in Nat /\ y \in Nat /\ x <= y /\ c \in Nat /\ c <= c
    BY <1>3, <1>12, <2>1, <2>2
  <2>4. Rounded(c, y) <= est
    BY <1>5
  <2> HIDE DEF y, c
  <2>5. Rounded(c, x) \in Nat /\ Rounded(c, x) <= Rounded(c, y)
    BY ONLY <2>3, RoundedGrows
  <2>6. Rounded(c, y) \in Nat
    BY ONLY <2>3, RoundedGrows
  <2>7. Rounded(c, x) <= k.fee
    BY <1>5, <2>1, <2>4, <2>5, <2>6
  <2> QED  BY <2>7 DEF c
<1> HIDE DEF total, e, n
<1> QED  BY <1>11, <1>14 DEF Balanced, total, e, n

LEMMA ListedFrom ==
    ASSUME NEW X, Numbered(X), NEW q \in Seq(X)
    PROVE  Listed(q) /\ Len(q) \in Nat /\ DOMAIN q = 1 .. Len(q) /\ \A i \in DOMAIN q : q[i] \in X
<1>1. DOMAIN q = 1 .. Len(q) /\ Len(q) \in Nat /\ \A i \in DOMAIN q : q[i] \in X
  OBVIOUS
<1> DEFINE Y == {q[i] : i \in DOMAIN q}
<1>2. q \in Seq(Y)
  BY <1>1
<1>3. Numbered(Y)
  BY <1>1 DEF Numbered
<1> QED  BY <1>1, <1>2, <1>3 DEF Listed

(* The transaction of a call pays what was settled. *)
LEMMA BuiltAddsUp ==
    ASSUME NEW s \in Sender, SendInv, At(s, "add")
    PROVE  /\ Built(s).id = last + 1 /\ Built(s).ins = Points(send[s].ins) /\ Listed(Built(s).outs)
           /\ send[s].fee \in Nat /\ SumSeq(Built(s).outs) \in Nat
           /\ Sum(send[s].ins) = SumSeq(Built(s).outs) + send[s].fee
           /\ Len(Built(s).outs) \in Nat
           /\ Len(Built(s).outs) = Len(send[s].req.extra) + One(send[s].amount > 0) + One(send[s].change > 0)
           /\ \A i \in DOMAIN Built(s).outs : Named(Built(s).outs[i], mine)
<1> DEFINE k == send[s]
           E == {k.req.extra[i] : i \in DOMAIN k.req.extra}
           away == [addr |-> Foreign, value |-> k.amount]
           back == [addr |-> k.to, value |-> k.change]
           a == IF k.amount > 0 THEN <<away>> ELSE <<>>
           e == k.req.extra
           b == IF k.change > 0 THEN <<back>> ELSE <<>>
           X == E \cup {away} \cup (IF k.change > 0 THEN {back} ELSE {})
<1>1. RequestOK(k.req) /\ Balanced(k) /\ (k.change > 0 => k.to \in mine)
  BY DEF SendInv, SendOK, At
<1>2. Built(s) = [id |-> last + 1, ins |-> Points(k.ins), outs |-> a \o e \o b]
  BY DEF Built
<1>3. Built(s).id = last + 1 /\ Built(s).ins = Points(k.ins) /\ Built(s).outs = a \o e \o b
  <2> HIDE DEF a, e, b, k
  <2> QED  BY <1>2
<1>4. e \in Seq(E) /\ Numbered(E) /\ \A x \in E : x.addr[1] # "change"
  BY <1>1 DEF RequestOK, Listed
<1>5. k.amount \in Nat /\ k.change \in Nat /\ k.fee \in Nat /\ Sum(k.ins) = k.amount + SumSeq(e) + k.change + k.fee
  BY <1>1 DEF Balanced
<1>6. away.value = k.amount /\ back.value = k.change /\ away.addr[1] # "change" /\ back.addr = k.to
  BY DEF Foreign
<1> HIDE DEF k, away, back, E
<1>7. Numbered(X)
  BY <1>4, <1>5, <1>6 DEF Numbered
<1>8. \A x \in X : Named(x, mine)
  BY <1>1, <1>4, <1>6 DEF Named
<1>9. a \in Seq(X) /\ b \in Seq(X) /\ e \in Seq(X)
  <2>1. E \subseteq X
    OBVIOUS
  <2>2. e \in Seq(X)
    <3> HIDE DEF X, e
    <3> QED  BY <1>4, <2>1
  <2>3. a \in Seq(X)
    <3>1. away \in X
      OBVIOUS
    <3> HIDE DEF X
    <3>2. <<away>> \in Seq(X) /\ <<>> \in Seq(X)
      BY <3>1
    <3> QED  BY <3>2
  <2>4. b \in Seq(X)
    <3>1. k.change > 0 => back \in X
      OBVIOUS
    <3> HIDE DEF X
    <3>2. back \in X => <<back>> \in Seq(X)
      OBVIOUS
    <3>3. <<>> \in Seq(X)
      OBVIOUS
    <3> QED  BY <3>1, <3>2, <3>3
  <2> QED  BY <2>2, <2>3, <2>4
<1>10. SumSeq(a) = k.amount /\ Len(a) = One(k.amount > 0)
  <2>1. SumSeq(<<away>>) = k.amount
    BY <1>5, <1>6, SumSeqShort
  <2>2. CASE k.amount > 0
    BY <2>1, <2>2 DEF One
  <2>3. CASE ~(k.amount > 0)
    BY <1>5, <2>3, SumSeqEmpty DEF One
  <2> QED  BY <2>2, <2>3
<1>11. SumSeq(b) = k.change /\ Len(b) = One(k.change > 0)
  <2>1. SumSeq(<<back>>) = k.change
    BY <1>5, <1>6, SumSeqShort
  <2>2. CASE k.change > 0
    BY <2>1, <2>2 DEF One
  <2>3. CASE ~(k.change > 0)
    BY <1>5, <2>3, SumSeqEmpty DEF One
  <2> QED  BY <2>2, <2>3
<1> HIDE DEF a, b, e, X
<1>12. a \o e \in Seq(X) /\ (a \o e) \o b \in Seq(X)
  BY <1>9
<1>13. SumSeq((a \o e) \o b) = SumSeq(a \o e) + SumSeq(b)
  BY ONLY <1>7, <1>9, <1>12, SumSeqConcat
<1>14. SumSeq(a \o e) = SumSeq(a) + SumSeq(e)
  BY ONLY <1>7, <1>9, SumSeqConcat
<1>15. SumSeq(e) \in Nat
  BY ONLY <1>7, <1>9, SumSeqType
<1>16. Len((a \o e) \o b) = Len(a) + Len(e) + Len(b)
  BY <1>9
<1>17. One(k.amount > 0) \in Nat /\ One(k.change > 0) \in Nat /\ Len(e) \in Nat
  BY <1>9 DEF One
<1> DEFINE z == (a \o e) \o b
<1>18. Listed(z) /\ Len(z) \in Nat /\ \A i \in DOMAIN z : z[i] \in X
  <2>1. z \in Seq(X)
    BY <1>12
  <2> HIDE DEF z
  <2> QED  BY <1>7, <2>1, ListedFrom
<1>19. \A i \in DOMAIN z : Named(z[i], mine)
  BY <1>8, <1>18
<1>20. SumSeq(z) \in Nat /\ Sum(k.ins) = SumSeq(z) + k.fee
  BY <1>5, <1>10, <1>11, <1>13, <1>14, <1>15
<1>21. Len(z) = Len(e) + One(k.amount > 0) + One(k.change > 0)
  BY <1>10, <1>11, <1>16, <1>17
<1>22. Built(s).outs = z
  BY <1>3
<1> HIDE DEF z
<1>23. /\ Listed(z) /\ Len(z) \in Nat /\ \A i \in DOMAIN z : Named(z[i], mine)
       /\ SumSeq(z) \in Nat /\ Sum(k.ins) = SumSeq(z) + k.fee /\ k.fee \in Nat
       /\ Len(z) = Len(e) + One(k.amount > 0) + One(k.change > 0)
       /\ Built(s).id = last + 1 /\ Built(s).ins = Points(k.ins)
  BY <1>3, <1>5, <1>18, <1>19, <1>20, <1>21
<1> QED  BY ONLY <1>22, <1>23 DEF k, e

(* The coins that are held are the model's. *)
LEMMA HoldingsAre == Holdings = Held(utxo, ToSet(pool), mine) /\ AllCoins = AllOf(utxo, ToSet(pool))
  BY DEF Holdings, Held, AllCoins, AllOf, SpentBy, SpentOf

LEMMA SendInvSound == SendInv => FundsConserved /\ ChainsOnOwn /\ EstimateSuffices
<1> SUFFICES ASSUME SendInv PROVE FundsConserved /\ ChainsOnOwn /\ EstimateSuffices
  OBVIOUS
<1>1. FundsConserved
  BY HoldingsAre DEF SendInv, FundsConserved
<1>2. ChainsOnOwn
  <2> SUFFICES ASSUME NEW i \in DOMAIN pool, NEW j \in DOMAIN pool, NEW p \in pool[j].ins, p[1] = pool[i].id
               PROVE  pool[i].id \in kin
    BY DEF ChainsOnOwn
  <2>1. pool[i] \in ToSet(pool) /\ pool[j] \in ToSet(pool)
    BY DEF ToSet
  <2> QED  BY <2>1 DEF SendInv, Ledger
<1>3. ASSUME NEW s \in Sender, At(s, "add")
      PROVE  LET t == Built(s)
             IN  /\ Sum(send[s].ins) = SumSeq(t.outs) + send[s].fee
                 /\ send[s].req.fee = 0 =>
                      send[s].fee >= ((Base + Cardinality(t.ins) * InSize + Len(t.outs) * OutSize)
                                      * MinRelay + PerKB - 1) \div PerKB
  <2> DEFINE k == send[s]
             t == Built(s)
  <2>1. /\ t.ins = Points(k.ins) /\ Sum(k.ins) = SumSeq(t.outs) + k.fee /\ Len(t.outs) \in Nat
        /\ Len(t.outs) = Len(k.req.extra) + One(k.amount > 0) + One(k.change > 0)
        /\ k.fee \in Nat
    BY <1>3, BuiltAddsUp
  <2>2. IsFiniteSet(k.ins) /\ Balanced(k)
    BY <1>3 DEF SendInv, SendOK, At, KnownCoins
  <2>3. Cardinality(t.ins) \in Nat /\ Cardinality(k.ins) \in Nat /\ Cardinality(t.ins) <= Cardinality(k.ins)
    <3> DEFINE f == [c \in k.ins |-> Point(c)]
    <3>1. Points(k.ins) = {f[c] : c \in k.ins}
      BY DEF Points
    <3> HIDE DEF f
    <3>2. IsFiniteSet(Points(k.ins)) /\ Cardinality(Points(k.ins)) <= Cardinality(k.ins)
      BY <2>2, <3>1, ImageSmall
    <3> QED  BY <2>1, <2>2, <3>2, FS_CardinalityType
  <2>4. ASSUME k.req.fee = 0 PROVE Rounded(Cardinality(t.ins), Len(t.outs)) <= k.fee
    <3> HIDE DEF k, t
    <3>1. /\ Rounded(Cardinality(t.ins), Len(t.outs)) \in Nat
          /\ Rounded(Cardinality(k.ins), Len(t.outs)) \in Nat
          /\ Rounded(Cardinality(t.ins), Len(t.outs)) <= Rounded(Cardinality(k.ins), Len(t.outs))
      BY <2>1, <2>3, RoundedGrows
    <3>2. Rounded(Cardinality(k.ins), Len(t.outs)) <= k.fee
      BY <2>1, <2>2, <2>4 DEF Balanced
    <3> QED  BY <2>1, <3>1, <3>2
  <2>5. k.req.fee = 0 => /\ Rounded(Cardinality(t.ins), Len(t.outs)) \in Nat
                         /\ k.fee >= Rounded(Cardinality(t.ins), Len(t.outs))
    <3> HIDE DEF k, t
    <3> QED  BY <2>1, <2>3, <2>4, RoundedGrows
  <2> HIDE DEF k, t
  <2>6. k.req.fee = 0 => k.fee >= ((Base + Cardinality(t.ins) * InSize + Len(t.outs) * OutSize)
                                   * MinRelay + PerKB - 1) \div PerKB
    BY ONLY <2>5 DEF Rounded
  <2> QED  BY <2>1, <2>6 DEF k, t
<1>4. EstimateSuffices
  BY <1>3 DEF EstimateSuffices
<1> QED  BY <1>1, <1>2, <1>4

LEMMA PoolAppend ==
    ASSUME pool \in Seq(ToSet(pool)), NEW t
    PROVE  /\ Append(pool, t) \in Seq(ToSet(Append(pool, t)))
           /\ ToSet(Append(pool, t)) = ToSet(pool) \cup {t}
           /\ (\A i, j \in DOMAIN pool : pool[i].id = pool[j].id => i = j) /\ (\A v \in ToSet(pool) : v.id # t.id)
              => \A i, j \in DOMAIN Append(pool, t) : Append(pool, t)[i].id = Append(pool, t)[j].id => i = j
<1> DEFINE n == Len(pool)
           q == Append(pool, t)
           P == ToSet(pool)
<1>1. n \in Nat /\ DOMAIN pool = 1 .. n /\ \A i \in 1 .. n : pool[i] \in P
  BY DEF ToSet
<1>2. P = {pool[i] : i \in 1 .. n}
  BY <1>1 DEF ToSet
<1> HIDE DEF P
<1>3. DOMAIN q = 1 .. n + 1 /\ q[n + 1] = t /\ (\A i \in 1 .. n : q[i] = pool[i]) /\ Len(q) = n + 1
  BY <1>1 DEF P
<1>4. q \in Seq(P \cup {t})
  BY DEF P
<1> HIDE DEF q, n
<1>5. n + 1 \in 1 .. n + 1 /\ (\A i \in 1 .. n + 1 : i = n + 1 \/ i \in 1 .. n) /\ \A i \in 1 .. n : i \in 1 .. n + 1
  BY <1>1
<1>6. {q[i] : i \in 1 .. n + 1} = P \cup {t}
  BY <1>2, <1>3, <1>5
<1>7. ToSet(q) = P \cup {t}
  BY <1>3, <1>6 DEF ToSet
<1>8. ASSUME \A i, j \in DOMAIN pool : pool[i].id = pool[j].id => i = j, \A v \in P : v.id # t.id,
             NEW i \in DOMAIN q, NEW j \in DOMAIN q, q[i].id = q[j].id
      PROVE  i = j
  BY <1>1, <1>3, <1>5, <1>8 DEF P
<1> QED  BY <1>4, <1>7, <1>8 DEF q, P

LEMMA PoolRemove ==
    ASSUME pool \in Seq(ToSet(pool)), NEW i \in DOMAIN pool,
           \A j, k \in DOMAIN pool : pool[j].id = pool[k].id => j = k
    PROVE  /\ RemoveAt(pool, i) \in Seq(ToSet(RemoveAt(pool, i)))
           /\ ToSet(RemoveAt(pool, i)) = ToSet(pool) \ {pool[i]}
           /\ \A j, k \in DOMAIN RemoveAt(pool, i) : RemoveAt(pool, i)[j].id = RemoveAt(pool, i)[k].id => j = k
<1> DEFINE n == Len(pool)
           q == RemoveAt(pool, i)
           P == ToSet(pool)
           g(j) == IF j < i THEN j ELSE j + 1
<1>1. n \in Nat /\ DOMAIN pool = 1 .. n /\ \A j \in 1 .. n : pool[j] \in P
  BY DEF ToSet
<1>2. P = {pool[j] : j \in 1 .. n}
  BY <1>1 DEF ToSet
<1> HIDE DEF P
<1>3. pool \in Seq(P) /\ i \in 1 .. n
  BY <1>1 DEF P
<1> DEFINE a == SubSeq(pool, 1, i - 1)
           b == SubSeq(pool, i + 1, n)
<1>4. /\ a \in Seq(P) /\ Len(a) = i - 1 /\ \A j \in 1 .. i - 1 : a[j] = pool[j]
      /\ b \in Seq(P) /\ Len(b) = n - i /\ \A j \in 1 .. n - i : b[j] = pool[i + j]
  <2> HIDE DEF n
  <2>1. a \in Seq(P) /\ Len(a) = i - 1 /\ \A j \in 1 .. i - 1 : a[j] = pool[j]
    BY <1>1, <1>3
  <2>2. b \in Seq(P) /\ Len(b) = n - i
    BY <1>1, <1>3
  <2>3. ASSUME NEW j \in 1 .. n - i PROVE b[j] = pool[i + j]
    <3>1. (i + 1) + j - 1 = i + j /\ i + 1 \in Nat /\ n \in Nat /\ j \in 1 .. n - (i + 1) + 1
      BY <1>1, <1>3
    <3> DEFINE m == i + 1
    <3> HIDE DEF m
    <3>2. m \in Nat /\ n \in Nat /\ j \in 1 .. n - m + 1
      BY <3>1 DEF m
    <3>3. SubSeq(pool, m, n)[j] = pool[m + j - 1]
      BY ONLY <1>3, <3>2
    <3> QED  BY <3>1, <3>3 DEF m
  <2> QED  BY <2>1, <2>2, <2>3
<1>5. q = a \o b
  BY DEF RemoveAt
<1> HIDE DEF a, b, q, n
<1>6. q \in Seq(P) /\ Len(q) = n - 1 /\ DOMAIN q = 1 .. n - 1
  <2>1. a \in Seq(P) /\ b \in Seq(P)
    BY <1>4
  <2>2. q \in Seq(P) /\ Len(q) = Len(a) + Len(b)
    BY ONLY <1>5, <2>1
  <2>3. Len(a) + Len(b) = n - 1
    BY <1>1, <1>3, <1>4
  <2>4. DOMAIN q = 1 .. Len(q)
    BY ONLY <2>2
  <2> QED  BY <2>2, <2>3, <2>4
<1>7. ASSUME NEW j \in Nat, j > Len(a), j <= Len(a) + Len(b) PROVE q[j] = b[j - Len(a)]
  <2>1. a \in Seq(P) /\ b \in Seq(P)
    BY <1>4
  <2>2. j \in Nat /\ j > Len(a) /\ j <= Len(a) + Len(b)
    BY <1>7
  <2> QED  BY ONLY <1>5, <2>1, <2>2
<1>8. ASSUME NEW j \in 1 .. n - 1 PROVE q[j] = pool[g(j)] /\ g(j) \in 1 .. n /\ g(j) # i
  <2>1. CASE j < i
    <3>1. j \in 1 .. i - 1 /\ j \in 1 .. Len(a)
      BY <1>1, <1>3, <1>4, <2>1
    <3>2. q[j] = a[j]
      BY <1>4, <1>5, <3>1
    <3> QED  BY <1>1, <1>3, <1>4, <2>1, <3>1, <3>2
  <2>2. CASE ~(j < i)
    <3>1. j - (i - 1) \in 1 .. n - i /\ j > Len(a) /\ j - Len(a) = j - (i - 1) /\ i + (j - (i - 1)) = j + 1
      BY <1>1, <1>3, <1>4, <2>2
    <3>2. j \in Nat /\ j <= Len(a) + Len(b)
      BY <1>1, <1>3, <1>4
    <3>3. q[j] = b[j - Len(a)]
      BY ONLY <1>7, <3>1, <3>2
    <3>4. b[j - Len(a)] = pool[i + (j - (i - 1))]
      BY <1>4, <3>1
    <3>5. g(j) = j + 1 /\ j + 1 \in 1 .. n /\ j + 1 # i
      BY <1>1, <1>3, <2>2
    <3> QED  BY <3>1, <3>3, <3>4, <3>5
  <2> QED  BY <2>1, <2>2
<1>9. \A j, k \in 1 .. n - 1 : g(j) = g(k) => j = k
  BY <1>1, <1>3
<1>10. \A k \in 1 .. n : k # i => \E j \in 1 .. n - 1 : g(j) = k
  <2> SUFFICES ASSUME NEW k \in 1 .. n, k # i PROVE \E j \in 1 .. n - 1 : g(j) = k
    OBVIOUS
  <2>1. CASE k < i
    <3>1. k \in 1 .. n - 1 /\ g(k) = k
      BY <1>1, <1>3, <2>1
    <3> QED  BY <3>1
  <2>2. CASE k > i
    <3>1. k - 1 \in 1 .. n - 1 /\ g(k - 1) = k
      BY <1>1, <1>3, <2>2
    <3> QED  BY <3>1
  <2> QED  BY <1>1, <1>3, <2>1, <2>2
<1> HIDE DEF g
<1>11. \A k \in 1 .. n : pool[k] = pool[i] => k = i
  BY <1>1, <1>3
<1>12. {q[j] : j \in 1 .. n - 1} = P \ {pool[i]}
  BY <1>2, <1>8, <1>10, <1>11
<1>13. ToSet(q) = P \ {pool[i]}
  BY <1>6, <1>12 DEF ToSet
<1>14. \A j, k \in DOMAIN q : q[j].id = q[k].id => j = k
  BY <1>1, <1>6, <1>8, <1>9
<1>15. q \in Seq(ToSet(q))
  <2>1. \A j \in 1 .. Len(q) : q[j] \in ToSet(q)
    BY <1>6 DEF ToSet
  <2> QED  BY <1>6, <2>1
<1> QED  BY <1>13, <1>14, <1>15 DEF q, P

(* The calls on their own: the ledger stays. *)
LEMMA CallMoves ==
    ASSUME SendInv, NEW s \in Sender, UNCHANGED <<utxo, pool, mine, last, report, kin, income, outgo>>,
           DOMAIN send' = Sender, \A q \in Sender : q # s => send'[q] = send[q],
           SendOK(send'[s], AllOf(utxo, ToSet(pool)), ToSet(pool), mine, last, kin)
    PROVE  SendInv'
<1>1. ASSUME NEW q \in Sender PROVE SendOK(send'[q], AllOf(utxo, ToSet(pool)), ToSet(pool), mine, last, kin)
  BY DEF SendInv
<1> QED  BY <1>1 DEF SendInv

LEMMA NoCallOK ==
    ASSUME NEW A, NEW P, NEW m, NEW l, NEW rep
    PROVE  SendOK(NoCall, A, P, m, l, rep)
<1>1. DOMAIN NoCall = SendFields /\ NoCall.step = "idle"
  BY DEF NoCall, SendFields
<1> QED  BY <1>1 DEF SendOK

LEMMA CallEnds ==
    ASSUME SendInv, NEW s \in Sender, UNCHANGED <<utxo, pool, mine, last, report, kin, income, outgo>>, Ends(s)
    PROVE  SendInv'
<1>1. DOMAIN send' = Sender /\ (\A q \in Sender : q # s => send'[q] = send[q]) /\ send'[s] = NoCall
  BY DEF SendInv, Ends
<1> QED  BY <1>1, NoCallOK, CallMoves

LEMMA StepRequest ==
    ASSUME SendInv, NEW s \in Sender, Request(s)
    PROVE  SendInv'
<1>1. PICK r \in Requests[s] : send' = [send EXCEPT ![s] = [NoCall EXCEPT !.step = "spent", !.req = r]]
  BY DEF Request
<1> DEFINE k == [NoCall EXCEPT !.step = "spent", !.req = r]
<1>2. DOMAIN k = SendFields /\ k.step = "spent" /\ k.req = r
  BY DEF NoCall, SendFields
<1>3. RequestOK(r)
  <2>1. /\ r.amount \in Nat /\ r.fee \in Nat /\ r.sweep \in BOOLEAN
        /\ r.extra \in Seq({r.extra[i] : i \in DOMAIN r.extra})
        /\ \A i \in DOMAIN r.extra : r.extra[i].value \in Nat /\ r.extra[i].addr[1] # "change"
        /\ r.sweep => r.extra = <<>>
    BY SendAssumption
  <2>2. Numbered({r.extra[i] : i \in DOMAIN r.extra})
    BY <2>1 DEF Numbered
  <2> QED  BY <2>1, <2>2 DEF RequestOK, Listed
<1> HIDE DEF k
<1>4. SendOK(k, AllOf(utxo, ToSet(pool)), ToSet(pool), mine, last, kin)
  BY <1>2, <1>3 DEF SendOK
<1>5. DOMAIN send' = Sender /\ (\A q \in Sender : q # s => send'[q] = send[q]) /\ send'[s] = k
  BY <1>1 DEF SendInv, k
<1>6. UNCHANGED <<utxo, pool, mine, last, report, kin, income, outgo>>
  BY DEF Request
<1> QED  BY <1>4, <1>5, <1>6, CallMoves

LEMMA StepSpentOutpoints ==
    ASSUME SendInv, NEW s \in Sender, SpentOutpoints(s)
    PROVE  SendInv'
<1> DEFINE x == send[s]
           k == [[x EXCEPT !.step = "txs"] EXCEPT !.spent = SpentBy(pool)]
           A == AllOf(utxo, ToSet(pool))
<1>1. SendOK(x, A, ToSet(pool), mine, last, kin) /\ x.step = "spent"
  BY DEF SendInv, SpentOutpoints, At
<1>2. DOMAIN send' = Sender /\ (\A q \in Sender : q # s => send'[q] = send[q]) /\ send'[s] = k
  BY DEF SendInv, SpentOutpoints
<1>3. DOMAIN x = SendFields /\ RequestOK(x.req)
  BY <1>1 DEF SendOK
<1> HIDE DEF x
<1>4. DOMAIN k = SendFields /\ k.step = "txs" /\ k.req = x.req
  BY <1>3 DEF SendFields
<1> HIDE DEF k
<1>5. SendOK(k, A, ToSet(pool), mine, last, kin)
  BY <1>3, <1>4 DEF SendOK
<1>6. UNCHANGED <<utxo, pool, mine, last, report, kin, income, outgo>>
  BY DEF SpentOutpoints
<1> QED  BY <1>2, <1>5, <1>6, CallMoves

LEMMA StepTransactions ==
    ASSUME SendInv, NEW s \in Sender, Transactions(s)
    PROVE  SendInv'
<1> DEFINE x == send[s]
           k == [[x EXCEPT !.step = "list"] EXCEPT !.txs = pool]
           A == AllOf(utxo, ToSet(pool))
<1>1. SendOK(x, A, ToSet(pool), mine, last, kin) /\ x.step = "txs"
  BY DEF SendInv, Transactions, At
<1>2. DOMAIN send' = Sender /\ (\A q \in Sender : q # s => send'[q] = send[q]) /\ send'[s] = k
  BY DEF SendInv, Transactions
<1>3. DOMAIN x = SendFields /\ RequestOK(x.req)
  BY <1>1 DEF SendOK
<1> HIDE DEF x
<1>4. DOMAIN k = SendFields /\ k.step = "list" /\ k.req = x.req /\ k.txs = pool
  BY <1>3 DEF SendFields
<1>5. KnownTxs(pool, A, last, kin)
  <2>1. \A i \in DOMAIN pool : pool[i] \in ToSet(pool)
    BY DEF ToSet
  <2>2. \A i \in DOMAIN pool : TxOK(pool[i], last, kin)
    BY <2>1 DEF SendInv, Ledger
  <2>3. ASSUME NEW i \in DOMAIN pool, NEW c \in Outs(pool[i]) PROVE Agrees(c, A)
    <3>1. c \in A
      BY <2>1 DEF AllOf
    <3>2. Unique(A)
      BY DEF SendInv, Ledger
    <3> QED  BY <3>1, <3>2 DEF Unique, Agrees
  <2>4. DOMAIN pool = 1 .. Len(pool) /\ Len(pool) \in Nat
    BY DEF SendInv
  <2>5. \A i, j \in DOMAIN pool : pool[i].id = pool[j].id => i = j
    BY DEF SendInv
  <2> QED  BY <2>2, <2>3, <2>4, <2>5 DEF KnownTxs
<1> HIDE DEF k
<1>6. SendOK(k, A, ToSet(pool), mine, last, kin)
  BY <1>3, <1>4, <1>5 DEF SendOK
<1>7. UNCHANGED <<utxo, pool, mine, last, report, kin, income, outgo>>
  BY DEF Transactions
<1> QED  BY <1>2, <1>6, <1>7, CallMoves

LEMMA StepListUnspent ==
    ASSUME SendInv, NEW s \in Sender, ListUnspent(s)
    PROVE  SendInv'
<1> DEFINE x == send[s]
           A == AllOf(utxo, ToSet(pool))
           L == listUnspent(x.spent, x.txs)
           k == [[[[x EXCEPT !.step = "select"] EXCEPT !.txs = <<>>] EXCEPT !.spent = {}] EXCEPT !.unspent = L]
<1>1. SendOK(x, A, ToSet(pool), mine, last, kin) /\ x.step = "list"
  BY DEF SendInv, ListUnspent, At
<1>2. DOMAIN send' = Sender /\ (\A q \in Sender : q # s => send'[q] = send[q]) /\ send'[s] = k
  <2> DEFINE y == listUnspent(send[s].spent, send[s].txs)
  <2>1. send' = [send EXCEPT ![s].step = "select", ![s].txs = <<>>, ![s].spent = {}, ![s].unspent = y]
    BY DEF ListUnspent
  <2> HIDE DEF y
  <2>2. DOMAIN send' = Sender /\ (\A q \in Sender : q # s => send'[q] = send[q])
        /\ send'[s] = [[[[send[s] EXCEPT !.step = "select"] EXCEPT !.txs = <<>>] EXCEPT !.spent = {}] EXCEPT !.unspent = y]
    BY <2>1 DEF SendInv
  <2> QED  BY <2>2 DEF y
<1>3. DOMAIN x = SendFields /\ RequestOK(x.req) /\ KnownTxs(x.txs, A, last, kin)
  BY <1>1 DEF SendOK
<1>4. KnownCoins(L, A, ToSet(pool), mine, last, kin)
  <2>1. A = AllCoins
    BY HoldingsAre
  <2>2. Ledger(utxo, ToSet(pool), mine, last, kin)
    BY DEF SendInv
  <2> HIDE DEF A, x
  <2> QED  BY <1>3, <2>1, <2>2, ListKnown
<1> HIDE DEF x, L
<1>5. DOMAIN k = SendFields /\ k.step = "select" /\ k.req = x.req /\ k.unspent = L
  BY <1>3 DEF SendFields
<1> HIDE DEF k
<1>6. SendOK(k, A, ToSet(pool), mine, last, kin)
  BY <1>3, <1>4, <1>5 DEF SendOK
<1>7. UNCHANGED <<utxo, pool, mine, last, report, kin, income, outgo>>
  BY DEF ListUnspent
<1> QED  BY <1>2, <1>6, <1>7, CallMoves

LEMMA StepSelect ==
    ASSUME SendInv, NEW s \in Sender, Select(s)
    PROVE  SendInv'
<1> DEFINE x == send[s]
           r == x.req
           A == AllOf(utxo, ToSet(pool))
           P == ToSet(pool)
<1>1. SendOK(x, A, P, mine, last, kin) /\ x.step = "select"
  BY DEF SendInv, Select, At
<1>2. UNCHANGED <<utxo, pool, mine, last, report, kin, income, outgo>>
  BY DEF Select
<1>3. CASE Ends(s)
  BY <1>2, <1>3, CallEnds
<1>4. CASE ~Ends(s)
  <2>1. PICK S \in Selections(x.unspent, r) : /\ Settled(S, r).ok
          /\ send' = [send EXCEPT ![s] = [@ EXCEPT
                         !.step = IF Settled(S, r).change > 0 THEN "change" ELSE "add",
                         !.unspent = {}, !.ins = S,
                         !.fee = Settled(S, r).fee, !.amount = Settled(S, r).amount, !.change = Settled(S, r).change]]
    <3> HIDE DEF r
    <3> QED  BY <1>4 DEF Select, r
  <2> DEFINE fee == Settled(S, r).fee
             amount == Settled(S, r).amount
             change == Settled(S, r).change
             step == IF change > 0 THEN "change" ELSE "add"
             k1 == [x EXCEPT !.step = step]
             k2 == [k1 EXCEPT !.unspent = {}]
             k3 == [k2 EXCEPT !.ins = S]
             k4 == [k3 EXCEPT !.fee = fee]
             k5 == [k4 EXCEPT !.amount = amount]
             k == [k5 EXCEPT !.change = change]
  <2>2. DOMAIN send' = Sender /\ (\A q \in Sender : q # s => send'[q] = send[q]) /\ send'[s] = k
    <3>1. send' = [send EXCEPT ![s] = k]
      BY <2>1
    <3> HIDE DEF k
    <3> QED  BY <3>1 DEF SendInv
  <2>3. DOMAIN x = SendFields /\ RequestOK(r) /\ KnownCoins(x.unspent, A, P, mine, last, kin)
    BY <1>1 DEF SendOK
  <2>4. S \subseteq x.unspent
    BY <2>1 DEF Selections, Eligible
  <2>5. KnownCoins(S, A, P, mine, last, kin) /\ Sum(S) \in Nat /\ IsFiniteSet(S)
    <3> DEFINE u == x.unspent
    <3>1. KnownCoins(u, A, P, mine, last, kin) /\ S \in SUBSET u
      BY <2>3, <2>4
    <3> HIDE DEF A, P, u
    <3>2. KnownCoins(S, A, P, mine, last, kin) /\ Sum(S) \in Nat
      BY ONLY <3>1, KnownPart
    <3> QED  BY <3>2 DEF KnownCoins
  <2> HIDE DEF A, P
  <2>6. Settled(S, r).ok
    BY <2>1
  <2> HIDE DEF fee, amount, change, step
  <2>7. /\ k.step = step /\ k.req = r /\ k.ins = S /\ k.fee = fee /\ k.amount = amount /\ k.change = change
        /\ DOMAIN k = SendFields
    <3> HIDE DEF x
    <3>1. DOMAIN k1 = SendFields /\ k1.step = step /\ k1.req = x.req
      BY <2>3 DEF SendFields
    <3> HIDE DEF k1
    <3>2. DOMAIN k2 = SendFields /\ k2.step = step /\ k2.req = x.req
      BY <3>1 DEF SendFields
    <3> HIDE DEF k2
    <3>3. DOMAIN k3 = SendFields /\ k3.step = step /\ k3.req = x.req /\ k3.ins = S
      BY <3>2 DEF SendFields
    <3> HIDE DEF k3
    <3>4. DOMAIN k4 = SendFields /\ k4.step = step /\ k4.req = x.req /\ k4.ins = S /\ k4.fee = fee
      BY <3>3 DEF SendFields
    <3> HIDE DEF k4
    <3>5. DOMAIN k5 = SendFields /\ k5.step = step /\ k5.req = x.req /\ k5.ins = S /\ k5.fee = fee /\ k5.amount = amount
      BY <3>4 DEF SendFields
    <3> HIDE DEF k5
    <3> QED  BY <3>5 DEF SendFields
  <2> HIDE DEF k
  <2>8. Balanced(k)
    <3> HIDE DEF r, x
    <3> QED  BY <2>3, <2>5, <2>6, <2>7, SettledAddsUp DEF fee, amount, change
  <2>9. step \in {"change", "add"} /\ (step = "add" => ~(k.change > 0))
    BY <2>7 DEF step
  <2> HIDE DEF r, x
  <2>10. SendOK(k, A, P, mine, last, kin)
    BY <2>3, <2>5, <2>7, <2>8, <2>9 DEF SendOK
  <2> QED  BY <1>2, <2>2, <2>10, CallMoves DEF A, P
<1> QED  BY <1>3, <1>4

(* The world moves on under the calls, but for the one that moved it. *)
LEMMA WorldMoves ==
    ASSUME SendInv, NEW s,
           Ledger(utxo', ToSet(pool'), mine', last', kin'),
           MovesOn(AllOf(utxo, ToSet(pool)), ToSet(pool), mine, last, kin,
                   AllOf(utxo', ToSet(pool')), ToSet(pool'), mine', last', kin'),
           pool' \in Seq(ToSet(pool')), \A i, j \in DOMAIN pool' : pool'[i].id = pool'[j].id => i = j,
           DOMAIN send' = Sender, \A q \in Sender : q # s => send'[q] = send[q],
           s \in Sender => SendOK(send'[s], AllOf(utxo', ToSet(pool')), ToSet(pool'), mine', last', kin'),
           outgo' \in Nat, income' \in Nat, Sum(Held(utxo', ToSet(pool'), mine')) + outgo' = income'
    PROVE  SendInv'
<1> DEFINE A == AllOf(utxo, ToSet(pool))
           P == ToSet(pool)
           A2 == AllOf(utxo', ToSet(pool'))
           P2 == ToSet(pool')
<1>1. \A q \in Sender : SendOK(send[q], A, P, mine, last, kin)
  BY DEF SendInv
<1>2. MovesOn(A, P, mine, last, kin, A2, P2, mine', last', kin')
  OBVIOUS
<1> HIDE DEF A, P, A2, P2
<1>3. \A q \in Sender : SendOK(send[q], A2, P2, mine', last', kin')
  BY ONLY <1>1, <1>2, CallStays
<1>4. \A q \in Sender : SendOK(send'[q], A2, P2, mine', last', kin')
  BY <1>3 DEF A2, P2
<1> QED  BY <1>4 DEF SendInv, A2, P2

LEMMA StepChangeAddress ==
    ASSUME SendInv, NEW s \in Sender, ChangeAddress(s)
    PROVE  SendInv'
<1>1. CASE locked
  <2>1. Ends(s) /\ UNCHANGED <<utxo, pool, mine, last, report, kin, income, outgo>>
    BY <1>1 DEF ChangeAddress
  <2> QED  BY <2>1, CallEnds
<1>2. CASE ~locked
  <2> DEFINE a == ChangeTo(s, last + 1)
             x == send[s]
             k == [[x EXCEPT !.step = "add"] EXCEPT !.to = a]
             m2 == mine \cup {a}
             A == AllOf(utxo, ToSet(pool))
             P == ToSet(pool)
  <2>1. /\ mine' = m2 /\ UNCHANGED <<utxo, pool, last, report, kin, income, outgo>>
        /\ x.step = "change"
    BY <1>2 DEF ChangeAddress, At
  <2>2. DOMAIN send' = Sender /\ (\A q \in Sender : q # s => send'[q] = send[q]) /\ send'[s] = k
    <3>1. send' = [send EXCEPT ![s].step = "add", ![s].to = a]
      BY <1>2 DEF ChangeAddress
    <3> HIDE DEF a
    <3> QED  BY <3>1 DEF SendInv
  <2>3. SendOK(x, A, P, mine, last, kin) /\ Ledger(utxo, P, mine, last, kin)
    BY DEF SendInv
  <2>4. a[1] = "change"
    BY DEF ChangeTo
  <2>5. /\ Ledger(utxo, P, m2, last, kin)
        /\ MovesOn(A, P, mine, last, kin, A, P, m2, last, kin)
        /\ Held(utxo, P, m2) = Held(utxo, P, mine)
    <3> HIDE DEF P, a
    <3> QED  BY ONLY <2>3, <2>4, LedgerNames DEF A, P
  <2>6. /\ DOMAIN x = SendFields /\ RequestOK(x.req) /\ Balanced(x) /\ KnownCoins(x.ins, A, P, mine, last, kin)
    BY <2>1, <2>3 DEF SendOK
  <2> HIDE DEF x, a
  <2>7. /\ k.step = "add" /\ k.to = a /\ DOMAIN k = SendFields /\ k.req = x.req /\ k.ins = x.ins
        /\ k.amount = x.amount /\ k.fee = x.fee /\ k.change = x.change
    BY <2>6 DEF SendFields
  <2> HIDE DEF k
  <2>8. Balanced(k)
    BY <2>6, <2>7 DEF Balanced
  <2> HIDE DEF A, P
  <2>9. KnownCoins(k.ins, A, P, m2, last, kin)
    <3> DEFINE S == x.ins
    <3> HIDE DEF S, m2
    <3>1. KnownCoins(S, A, P, mine, last, kin)
      BY <2>6 DEF S
    <3>2. KnownCoins(S, A, P, m2, last, kin)
      BY ONLY <2>5, <3>1, KnownStays
    <3> QED  BY <2>7, <3>2 DEF S
  <2>10. SendOK(k, A, P, m2, last, kin)
    <3>1. a \in m2
      OBVIOUS
    <3> HIDE DEF m2
    <3> QED  BY <2>6, <2>7, <2>8, <2>9, <3>1 DEF SendOK
  <2>11. /\ pool \in Seq(ToSet(pool)) /\ (\A i, j \in DOMAIN pool : pool[i].id = pool[j].id => i = j)
         /\ outgo \in Nat /\ income \in Nat /\ Sum(Held(utxo, ToSet(pool), mine)) + outgo = income
    BY DEF SendInv
  <2> HIDE DEF m2
  <2> QED  BY <2>1, <2>2, <2>5, <2>10, <2>11, WorldMoves DEF A, P
<1> QED  BY <1>1, <1>2

LEMMA StepSubmit ==
    ASSUME SendInv, NEW s \in Sender, Submit(s)
    PROVE  SendInv'
<1> DEFINE t == Built(s)
           x == send[s]
           A == AllOf(utxo, ToSet(pool))
           P == ToSet(pool)
           S == x.ins
           r2 == kin \cup {last + 1}
           fee == x.fee
<1>1. At(s, "add") /\ Ends(s) /\ UNCHANGED <<utxo, mine, income>>
  BY DEF Submit
<1>2. CASE ~Accepts(t)
  <2>1. UNCHANGED <<pool, last, report, kin, outgo>>
    BY <1>2 DEF Submit
  <2> QED  BY <1>1, <2>1, CallEnds
<1>3. CASE Accepts(t)
  <2>1. /\ t.id = last + 1 /\ t.ins = Points(S) /\ Listed(t.outs) /\ fee \in Nat
        /\ Sum(S) = SumSeq(t.outs) + fee
        /\ \A i \in DOMAIN t.outs : Named(t.outs[i], mine)
    BY <1>1, BuiltAddsUp
  <2>2. /\ pool' = Append(pool, t) /\ last' = last + 1 /\ kin' = kin \cup {t.id}
        /\ outgo' = outgo + fee + Sum(Away(t, mine))
    BY <1>3 DEF Submit, Away
  <2>3. Ledger(utxo, P, mine, last, kin) /\ KnownCoins(S, A, P, mine, last, kin)
    BY <1>1 DEF SendInv, SendOK, At
  <2>4. Points(S) \subseteq Points(A) /\ Points(S) \cap SpentOf(P) = {}
    <3>1. t.ins \cap SpentBy(pool) = {} /\ t.ins \subseteq Points(AllCoins)
      BY <1>3 DEF Accepts
    <3>2. SpentBy(pool) = SpentOf(P)
      BY DEF SpentBy, SpentOf
    <3>3. AllCoins = A
      BY HoldingsAre
    <3> HIDE DEF t, A, P, S
    <3> QED  BY <2>1, <3>1, <3>2, <3>3
  <2>5. /\ pool \in Seq(ToSet(pool)) /\ (\A i, j \in DOMAIN pool : pool[i].id = pool[j].id => i = j)
        /\ outgo \in Nat /\ income \in Nat /\ Sum(Held(utxo, P, mine)) + outgo = income
        /\ last \in Nat /\ kin \subseteq 1 .. last /\ \A v \in P : v.id \in 1 .. last
    BY DEF SendInv, Ledger, TxOK
  <2> HIDE DEF t, A, P, S, fee, x
  <2>6. Enters(t, P, mine, last, kin, r2)
    <3>1. \A p \in t.ins : /\ p[1] \in 0 .. last /\ (p[1] = 0 => p[2] \notin 1 .. MaxTx)
                           /\ \A v \in P : p[1] = v.id => v.id \in kin
      <4>1. ASSUME NEW c \in S
            PROVE  /\ Point(c)[1] \in 0 .. last /\ (Point(c)[1] = 0 => Point(c)[2] \notin 1 .. MaxTx)
                   /\ \A v \in P : Point(c)[1] = v.id => v.id \in kin
        <5>1. KnownCoin(c, A, P, mine, last, kin)
          BY <2>3 DEF KnownCoins
        <5>2. Point(c)[1] = c.tx /\ Point(c)[2] = c.vout
          BY DEF Point
        <5> QED  BY <5>1, <5>2 DEF KnownCoin
      <4> QED  BY <2>1, <4>1 DEF Points
    <3>2. \A n \in 0 .. last : n \in 0 .. last + 1
      BY <2>5
    <3>3. last + 1 \in r2 /\ t.id \in 1 .. last + 1 /\ t.id \in r2
      BY <2>1, <2>5
    <3>4. TxOK(t, last + 1, r2)
      BY <2>1, <3>1, <3>2, <3>3 DEF TxOK
    <3>5. \A c \in Outs(t) : Named(c, mine)
      BY <2>1, CoinsOf DEF Named
    <3> QED  BY <2>1, <2>4, <3>1, <3>3, <3>4, <3>5 DEF Enters
  <2> DEFINE Q == P \cup {t}
  <2>7. Sum(Away(t, mine)) \in Nat /\ Sum(Held(utxo, Q, mine)) + fee + Sum(Away(t, mine)) = Sum(Held(utxo, P, mine))
    <3>1. Spend(utxo, P, mine, last, kin, t, r2, S, fee)
      BY <2>1, <2>3, <2>4, <2>6 DEF A, P, Spend
    <3> HIDE DEF r2
    <3> QED  BY ONLY <3>1, SpendAddsUp
  <2>8. /\ Ledger(utxo, Q, mine, last + 1, r2)
        /\ MovesOn(AllOf(utxo, P), P, mine, last, kin, AllOf(utxo, Q), Q, mine, last + 1, r2)
    <3> HIDE DEF r2
    <3> QED  BY ONLY <2>3, <2>6, LedgerGrows
  <2>9. \A v \in P : v.id # t.id
    BY <2>1, <2>5
  <2>10. /\ pool' \in Seq(ToSet(pool')) /\ ToSet(pool') = Q
         /\ \A i, j \in DOMAIN pool' : pool'[i].id = pool'[j].id => i = j
    BY <2>2, <2>5, <2>9, PoolAppend DEF P
  <2>11. DOMAIN send' = Sender /\ (\A q \in Sender : q # s => send'[q] = send[q]) /\ send'[s] = NoCall
    BY <1>1 DEF SendInv, Ends
  <2>12. kin' = r2
    BY <2>1, <2>2
  <2>13. Sum(Held(utxo, Q, mine)) \in Nat
    <3>1. IsFiniteSet(AllOf(utxo, Q)) /\ Numbered(AllOf(utxo, Q))
      BY <2>8, CoinsFinite
    <3>2. IsFiniteSet(Held(utxo, Q, mine)) /\ Numbered(Held(utxo, Q, mine))
      BY <3>1, FS_Subset DEF Held, Numbered
    <3> QED  BY <3>2, SumType
  <2>14. outgo' \in Nat /\ Sum(Held(utxo, Q, mine)) + outgo' = income
    <3> DEFINE h2 == Sum(Held(utxo, Q, mine))
               h == Sum(Held(utxo, P, mine))
               wt == Sum(Away(t, mine))
    <3>1. h2 + fee + wt = h /\ h + outgo = income /\ {fee, wt, h2, outgo} \subseteq Nat /\ outgo' = outgo + fee + wt
      BY <2>1, <2>2, <2>5, <2>7, <2>13
    <3> HIDE DEF h2, h, wt
    <3>2. outgo' \in Nat /\ h2 + outgo' = income
      BY ONLY <3>1
    <3> QED  BY <3>2 DEF h2
  <2> HIDE DEF Q, r2
  <2> QED  BY <1>1, <2>2, <2>5, <2>8, <2>10, <2>11, <2>12, <2>14, NoCallOK, WorldMoves DEF P
<1> QED  BY <1>2, <1>3

(* A payment is entered in the ledger and takes nothing the wallet holds. *)
LEMMA PaymentEnters ==
    ASSUME SendInv, NEW t \in Payments, last < MaxTx, NEW k2,
           k2 = IF t.ins \subseteq Theirs THEN kin \cup {t.id} ELSE kin
    PROVE  /\ Enters(t, ToSet(pool), mine, last, kin, k2)
           /\ Takes({}, t, utxo, ToSet(pool), mine)
           /\ Listed(t.outs) /\ t.id = last + 1
<1> DEFINE P == ToSet(pool)
           A == AllOf(utxo, P)
<1>1. PICK a \in {c.addr : c \in Initial} \cap mine, p \in {<<0, last + 1>>} \cup Theirs :
         t = [id |-> last + 1, ins |-> {p}, outs |-> <<[addr |-> a, value |-> Payment],
                                                       [addr |-> Foreign, value |-> Payment]>>]
  BY DEF Payments
<1> DEFINE o == [addr |-> a, value |-> Payment]
           f == [addr |-> Foreign, value |-> Payment]
<1>2. t.id = last + 1 /\ t.ins = {p} /\ t.outs = <<o, f>> /\ a \in mine
  BY <1>1
<1>3. Ledger(utxo, P, mine, last, kin)
  BY DEF SendInv
<1>4. /\ last \in Nat /\ kin \subseteq 1 .. last /\ \A v \in P : v.id \in 1 .. last /\ TxOK(v, last, kin)
      /\ Unique(A)
  BY <1>3 DEF Ledger, TxOK
<1>5. Payment \in Nat /\ MaxTx \in Nat
  BY SendAssumption
<1>6. last + 1 \in 1 .. MaxTx /\ last + 1 \notin 1 .. last /\ last + 1 \in 1 .. last + 1
  BY <1>4, <1>5
<1>7. Listed(t.outs)
  <2>1. o.value \in Nat /\ f.value \in Nat
    BY <1>5
  <2> HIDE DEF o, f
  <2>2. t.outs \in Seq({o, f}) /\ Numbered({o, f})
    BY <1>2, <2>1 DEF Numbered
  <2> QED  BY <2>2, ListedFrom
<1>8. \A c \in Outs(t) : Named(c, mine)
  <2>1. f.addr[1] # "change" /\ f.addr = Foreign /\ o.addr = a
    BY DEF Foreign
  <2> HIDE DEF o, f
  <2>2. DOMAIN t.outs = {1, 2} /\ t.outs[1] = o /\ t.outs[2] = f
    BY <1>2
  <2>3. \A c \in Outs(t) : c.vout \in DOMAIN t.outs /\ c.addr = t.outs[c.vout].addr
    BY ONLY <1>7, CoinsOf
  <2> QED  BY <1>2, <2>1, <2>2, <2>3 DEF Named
<1> HIDE DEF P, A
<1>9. CASE p \in Theirs
  <2>1. PICK c \in UNION {Outs(v) : v \in P} : p = Point(c) /\ c.tx \in kin /\ c.addr \notin mine
    BY <1>9 DEF Theirs, Points, P
  <2>2. p \notin SpentOf(P)
    BY <1>9 DEF Theirs, SpentBy, SpentOf, P
  <2>3. p[1] = c.tx /\ p[1] \in kin /\ p[1] \in 1 .. last
    BY <1>4, <2>1 DEF Point
  <2>4. k2 = kin \cup {last + 1}
    BY <1>2, <1>9
  <2>5. p[1] \in 0 .. last + 1 /\ p[1] # 0 /\ p[1] \in 0 .. last
    BY <1>4, <2>3
  <2>6. TxOK(t, last + 1, k2)
    BY <1>2, <1>6, <1>7, <2>4, <2>5 DEF TxOK
  <2>7. Enters(t, P, mine, last, kin, k2)
    BY <1>2, <1>8, <2>2, <2>3, <2>4, <2>5, <2>6 DEF Enters
  <2>8. c \in A
    BY <2>1 DEF A, AllOf
  <2>9. ASSUME NEW d \in Held(utxo, P, mine), Point(d) \in t.ins PROVE FALSE
    <3>1. d \in A /\ d.addr \in mine
      BY DEF Held, A
    <3>2. Point(d) = Point(c)
      BY <1>2, <2>1, <2>9
    <3>3. d = c
      BY <1>4, <2>8, <3>1, <3>2 DEF Unique
    <3> QED  BY <2>1, <3>1, <3>3
  <2>10. Takes({}, t, utxo, P, mine)
    BY <2>9 DEF Takes
  <2> QED  BY <1>2, <1>7, <2>7, <2>10 DEF P
<1>10. CASE p \notin Theirs
  <2>1. p = <<0, last + 1>> /\ p[1] = 0 /\ p[2] = last + 1
    BY <1>1, <1>10
  <2>2. k2 = kin /\ last + 1 \notin kin
    BY <1>2, <1>4, <1>6, <1>10
  <2>3. TxOK(t, last + 1, k2)
    BY <1>2, <1>5, <1>6, <1>7, <2>1, <2>2 DEF TxOK
  <2>4. ASSUME NEW v \in P, p \in v.ins PROVE FALSE
    <3>1. CASE v.id \in kin
      BY <1>4, <1>6, <2>1, <2>4, <3>1 DEF TxOK
    <3>2. CASE v.id \notin kin
      <4>1. p = <<0, v.id>>
        BY <1>4, <2>4, <3>2 DEF TxOK
      <4>2. last + 1 = v.id
        BY <2>1, <4>1
      <4> QED  BY <1>4, <1>6, <4>2
    <3> QED  BY <3>1, <3>2
  <2>5. t.ins \cap SpentOf(P) = {}
    BY <1>2, <2>4 DEF SpentOf
  <2>6. 0 \in 0 .. last /\ \A v \in P : v.id # 0
    BY <1>4
  <2>7. Enters(t, P, mine, last, kin, k2)
    BY <1>2, <1>8, <2>1, <2>2, <2>3, <2>5, <2>6 DEF Enters
  <2>8. ASSUME NEW c \in A, Point(c) = <<0, last + 1>> PROVE FALSE
    <3>1. c.tx = 0 /\ c.vout = last + 1
      BY <2>8 DEF Point
    <3>2. \A v \in P : \A d \in Outs(v) : d.tx = v.id
      BY DEF Outs
    <3>3. c \in utxo
      BY <2>6, <3>1, <3>2 DEF A, AllOf
    <3>4. c \in Initial
      BY <1>3, <3>1, <3>3 DEF Ledger
    <3> QED  BY <1>6, <3>1, <3>4, SendAssumption
  <2>9. Takes({}, t, utxo, P, mine)
    BY <1>2, <2>1, <2>8 DEF Takes, Held, A
  <2> QED  BY <1>2, <1>7, <2>7, <2>9 DEF P
<1> QED  BY <1>9, <1>10

LEMMA StepReceive ==
    ASSUME SendInv, Receive
    PROVE  SendInv'
<1> DEFINE P == ToSet(pool)
<1>1. PICK t \in Payments :
         /\ pool' = Append(pool, t)
         /\ kin' = IF t.ins \subseteq Theirs THEN kin \cup {t.id} ELSE kin
         /\ income' = income + Sum({c \in Outs(t) : c.addr \in mine})
  BY DEF Receive
<1>2. last < MaxTx /\ last' = last + 1 /\ UNCHANGED <<utxo, mine, send, report, outgo>>
  BY DEF Receive
<1> DEFINE k2 == IF t.ins \subseteq Theirs THEN kin \cup {t.id} ELSE kin
           H == Held(utxo, P, mine)
           Q == P \cup {t}
<1>3. kin' = k2
  BY <1>1
<1>4. Enters(t, P, mine, last, kin, k2) /\ Takes({}, t, utxo, P, mine) /\ Listed(t.outs) /\ t.id = last + 1
  <2>1. k2 = IF t.ins \subseteq Theirs THEN kin \cup {t.id} ELSE kin
    OBVIOUS
  <2> HIDE DEF k2
  <2> QED  BY <1>2, <2>1, PaymentEnters
<1> HIDE DEF k2
<1>5. /\ pool \in Seq(P) /\ (\A i, j \in DOMAIN pool : pool[i].id = pool[j].id => i = j)
      /\ outgo \in Nat /\ income \in Nat /\ Sum(H) + outgo = income
      /\ last \in Nat /\ (\A v \in P : v.id \in 1 .. last)
      /\ Ledger(utxo, P, mine, last, kin) /\ DOMAIN send = Sender
  BY DEF SendInv, Ledger, TxOK
<1> HIDE DEF P
<1>6. /\ Ledger(utxo, Q, mine, last + 1, k2)
      /\ MovesOn(AllOf(utxo, P), P, mine, last, kin, AllOf(utxo, Q), Q, mine, last + 1, k2)
  BY ONLY <1>4, <1>5, LedgerGrows
<1>7. /\ Held(utxo, Q, mine) = (H \ {}) \cup Own(t, mine) /\ (H \ {}) \cap Own(t, mine) = {}
      /\ IsFiniteSet(H) /\ Numbered(H) /\ IsFiniteSet(Own(t, mine)) /\ Numbered(Own(t, mine))
  BY ONLY <1>4, <1>5, HeldGrows
<1> HIDE DEF Q, H
<1>8. H \ {} = H
  OBVIOUS
<1>9. Sum(Held(utxo, Q, mine)) = Sum(H) + Sum(Own(t, mine))
  BY ONLY <1>7, <1>8, SumUnion
<1>10. Sum(H) \in Nat /\ Sum(Own(t, mine)) \in Nat
  BY <1>7, SumType
<1>11. income' = income + Sum(Own(t, mine))
  BY <1>1 DEF Own
<1>12. income' \in Nat /\ Sum(Held(utxo, Q, mine)) + outgo = income'
  <2> DEFINE h == Sum(H)
             g == Sum(Own(t, mine))
             n == Sum(Held(utxo, Q, mine))
  <2>1. n = h + g /\ h \in Nat /\ g \in Nat /\ h + outgo = income /\ outgo \in Nat /\ income' = income + g
    BY <1>5, <1>9, <1>10, <1>11
  <2> HIDE DEF h, g, n
  <2>2. income' \in Nat /\ n + outgo = income'
    BY <1>5, <2>1
  <2> QED  BY <2>2 DEF n
<1>13. /\ pool' \in Seq(ToSet(pool')) /\ ToSet(pool') = Q
       /\ \A i, j \in DOMAIN pool' : pool'[i].id = pool'[j].id => i = j
  <2>1. \A v \in P : v.id # t.id
    BY <1>4, <1>5
  <2> QED  BY <1>1, <1>5, <2>1, PoolAppend DEF P, Q
<1> DEFINE none == CHOOSE z : z \notin Sender
<1>14. none \notin Sender
  BY NoSetContainsEverything
<1> HIDE DEF none
<1> QED  BY <1>2, <1>3, <1>5, <1>6, <1>12, <1>13, <1>14, WorldMoves DEF P

LEMMA StepConfirm ==
    ASSUME SendInv, Confirm
    PROVE  SendInv'
<1> DEFINE P == ToSet(pool)
<1>1. PICK i \in DOMAIN pool :
         /\ pool[i].ins \cap UNION {Points(Outs(t)) : t \in ToSet(pool)} = {}
         /\ utxo' = {c \in utxo : Point(c) \notin pool[i].ins} \cup Outs(pool[i])
         /\ pool' = RemoveAt(pool, i)
  BY DEF Confirm
<1> DEFINE t == pool[i]
           wt == {c \in utxo : Point(c) \notin pool[i].ins} \cup Outs(pool[i])
           Q == P \ {t}
<1>2. UNCHANGED <<mine, last, send, report, kin, income, outgo>>
  BY DEF Confirm
<1>3. /\ pool \in Seq(ToSet(pool)) /\ (\A j, k \in DOMAIN pool : pool[j].id = pool[k].id => j = k)
      /\ outgo \in Nat /\ income \in Nat /\ Sum(Held(utxo, P, mine)) + outgo = income
      /\ Ledger(utxo, P, mine, last, kin) /\ DOMAIN send = Sender
  BY DEF SendInv
<1>4. t \in P /\ t.ins \cap UNION {Points(Outs(v)) : v \in P} = {}
  BY <1>1 DEF ToSet
<1>5. /\ pool' \in Seq(ToSet(pool')) /\ ToSet(pool') = Q
      /\ \A j, k \in DOMAIN pool' : pool'[j].id = pool'[k].id => j = k
  BY <1>1, <1>3, PoolRemove
<1>6. /\ Ledger(wt, Q, mine, last, kin)
      /\ MovesOn(AllOf(utxo, P), P, mine, last, kin, AllOf(wt, Q), Q, mine, last, kin)
      /\ Held(wt, Q, mine) = Held(utxo, P, mine)
  <2>1. Confirms(t, wt, utxo, P, mine, last, kin)
    BY <1>3, <1>4 DEF Confirms
  <2> HIDE DEF wt, t, P
  <2> QED  BY ONLY <2>1, LedgerConfirms
<1>7. utxo' = wt
  BY <1>1
<1> DEFINE none == CHOOSE z : z \notin Sender
<1>8. none \notin Sender
  BY NoSetContainsEverything
<1> HIDE DEF none, wt, Q, t
<1> QED  BY <1>2, <1>3, <1>5, <1>6, <1>7, <1>8, WorldMoves

LEMMA StepLockOrUnlock ==
    ASSUME SendInv, LockOrUnlock
    PROVE  SendInv'
BY DEF SendInv, LockOrUnlock

LEMMA InitSendInv == SendInit => SendInv
<1> SUFFICES ASSUME SendInit PROVE SendInv
  OBVIOUS
<1>1. ToSet(pool) = {} /\ pool \in Seq({}) /\ DOMAIN pool = {}
  BY DEF SendInit, ToSet
<1>2. /\ utxo = Initial /\ last = 0 /\ kin = {} /\ mine = {c.addr : c \in Initial}
      /\ send = [s \in Sender |-> NoCall] /\ income = Sum(Initial) /\ outgo = 0
  BY DEF SendInit
<1>3. AllOf(utxo, {}) = Initial /\ Held(utxo, {}, mine) = Initial
  BY <1>2 DEF AllOf, Held, SpentOf
<1>4. /\ IsFiniteSet(Initial) /\ Numbered(Initial) /\ \A c \in Initial : c.tx = 0 /\ c.vout \in Nat /\ c.value \in Nat
      /\ \A c, d \in Initial : c.vout = d.vout => c = d
  BY SendAssumption DEF Numbered
<1>5. Unique(Initial)
  BY <1>4 DEF Unique, Point
<1>6. \A c \in Initial : CoinOK(c, mine)
  BY <1>2, <1>4 DEF CoinOK, Named
<1>7. Ledger(utxo, {}, mine, last, kin)
  BY <1>2, <1>3, <1>4, <1>5, <1>6, FS_EmptySet DEF Ledger
<1>8. income \in Nat /\ Sum(Held(utxo, {}, mine)) + outgo = income
  BY <1>2, <1>3, <1>4, SumType
<1>9. \A s \in Sender : SendOK(send[s], AllOf(utxo, {}), {}, mine, last, kin)
  BY <1>2, NoCallOK
<1> QED  BY <1>1, <1>2, <1>7, <1>8, <1>9 DEF SendInv

LEMMA NextSendInv == SendInv /\ [SendNext]_sendvars => SendInv'
<1> SUFFICES ASSUME SendInv, [SendNext]_sendvars PROVE SendInv'
  OBVIOUS
<1>1. CASE UNCHANGED sendvars
  BY <1>1 DEF SendInv, sendvars
<1>2. CASE Receive
  BY <1>2, StepReceive
<1>3. CASE Confirm
  BY <1>3, StepConfirm
<1>4. CASE LockOrUnlock
  BY <1>4, StepLockOrUnlock
<1>5. ASSUME NEW s \in Sender,
             \/ Request(s) \/ SpentOutpoints(s) \/ Transactions(s) \/ ListUnspent(s)
             \/ Select(s) \/ ChangeAddress(s) \/ Submit(s)
      PROVE  SendInv'
  BY <1>5, StepRequest, StepSpentOutpoints, StepTransactions, StepListUnspent, StepSelect,
     StepChangeAddress, StepSubmit
<1> QED  BY <1>1, <1>2, <1>3, <1>4, <1>5 DEF SendNext

(* Whatever sends race, are refused or lose their change address, and whatever     *)
(* others do with what they were paid, the wallet's money adds up, it builds on    *)
(* nothing unconfirmed but what descends from its own, and the fees suffice.       *)
THEOREM SendsAlwaysSound == SendSpec => [](FundsConserved /\ ChainsOnOwn /\ EstimateSuffices)
<1>1. SendInit => SendInv
  BY InitSendInv
<1>2. SendInv /\ [SendNext]_sendvars => SendInv'
  BY NextSendInv
<1>3. SendInv => FundsConserved /\ ChainsOnOwn /\ EstimateSuffices
  BY SendInvSound
<1> QED  BY <1>1, <1>2, <1>3, PTL DEF SendSpec

-----------------------------------------------------------------------------
(* The application's journal of sends *)

Records == [tx : Trans, dir : {"sent", "self_transfer", "received"}, status : Statuses, raw : BOOLEAN]

(* Records are of own transactions and say where they were sent to; none   *)
(* is in the pool and confirmed at once; the bytes of a send that was      *)
(* recorded in time are kept.                                              *)
JournalInv ==
    /\ \A r \in records : r \in Records /\ r.tx \in sent /\ r.dir = Direction(r.tx)
    /\ inpool \subseteq Trans /\ inchain \subseteq Trans /\ inpool \cap inchain = {}
    /\ \A t \in Trans \ sent : Kind[t].own => t \notin inpool \cup inchain
    /\ sent \subseteq {t \in Trans : Kind[t].own}
    /\ sending # NoTx => sending \in sent
    /\ RetryPossible

LEMMA InitJournalInv == JournalInit => JournalInv
  BY DEF JournalInit, JournalInv, RetryPossible

(* A record that is put in place of another keeps what the journal has. *)
LEMMA UpsertKeeps ==
    ASSUME NEW rec \in Records, \A r \in records : r \in Records
    PROVE  /\ \A r \in upsert(rec) : r \in Records /\ (r \in records \/ (r.tx = rec.tx /\ r.dir = rec.dir))
           /\ \A t : (\E r \in records : r.tx = t /\ r.raw) => \E r \in upsert(rec) : r.tx = t /\ r.raw
           /\ rec.raw => \E r \in upsert(rec) : r.tx = rec.tx /\ r.raw
<1> DEFINE old == {r \in records : r.tx = rec.tx /\ r.dir = rec.dir}
           keep == rec.raw \/ \E r \in old : r.raw
           new == [rec EXCEPT !.raw = keep]
<1>1. upsert(rec) = (records \ old) \cup {new}
  BY DEF upsert, Records
<1>2. keep \in BOOLEAN /\ (rec.raw => keep) /\ ((\E r \in old : r.raw) => keep)
  BY DEF Records
<1> HIDE DEF keep
<1>3. new \in Records /\ new.tx = rec.tx /\ new.dir = rec.dir /\ new.raw = keep
  BY <1>2 DEF Records
<1> HIDE DEF new
<1>4. ASSUME NEW t, NEW r \in records, r.tx = t, r.raw PROVE \E x \in upsert(rec) : x.tx = t /\ x.raw
  <2>1. CASE r \in old
    <3>1. new.tx = t /\ new.raw
      BY <1>2, <1>3, <1>4, <2>1
    <3> QED  BY <1>1, <3>1
  <2>2. CASE r \notin old
    BY <1>1, <1>4, <2>2
  <2> QED  BY <2>1, <2>2
<1> QED  BY <1>1, <1>2, <1>3, <1>4

LEMMA ReconcileKeeps ==
    ASSUME NEW r \in Records
    PROVE  /\ reconcile(r) \in Records /\ reconcile(r).tx = r.tx /\ reconcile(r).dir = r.dir
           /\ reconcile(r).raw = r.raw
           /\ r.status # "removed" /\ r.tx \in inchain => reconcile(r).status = "confirmed"
  BY DEF reconcile, Records, Statuses, Pendings

LEMMA JournalSends == ASSUME JournalInv, NEW t \in Trans, SendRecorded(t) PROVE JournalInv'
<1>1. /\ sending = NoTx /\ Kind[t].own /\ t \notin sent /\ t \notin inchain
      /\ inpool' = inpool \cup {t} /\ sent' = sent \cup {t} /\ sending' = t
      /\ UNCHANGED <<records, inchain, missed>>
  BY DEF SendRecorded, JournalInv
<1>2. RetryPossible'
  BY <1>1, JournalAssumption DEF JournalInv, RetryPossible
<1> QED  BY <1>1, <1>2 DEF JournalInv, Direction

LEMMA JournalRecords == ASSUME JournalInv, RecordSend PROVE JournalInv'
<1> DEFINE rec == [tx |-> sending, dir |-> Direction(sending), status |-> "pending", raw |-> sending \in inpool]
<1>1. /\ sending # NoTx /\ sending \in sent /\ sending \in Trans
      /\ records' = upsert(rec) /\ missed' = (IF sending \in inpool THEN missed ELSE missed \cup {sending})
      /\ sending' = NoTx /\ UNCHANGED <<inpool, inchain, sent>>
  BY DEF RecordSend, JournalInv
<1>2. rec \in Records /\ rec.tx = sending /\ rec.dir = Direction(sending) /\ rec.raw = (sending \in inpool)
  BY <1>1 DEF Records, Statuses, Pendings, Direction
<1> HIDE DEF rec
<1>3. \A r \in records : r \in Records
  BY DEF JournalInv
<1>4. /\ \A r \in records' : r \in Records /\ (r \in records \/ (r.tx = rec.tx /\ r.dir = rec.dir))
      /\ \A t : (\E r \in records : r.tx = t /\ r.raw) => \E r \in records' : r.tx = t /\ r.raw
      /\ rec.raw => \E r \in records' : r.tx = rec.tx /\ r.raw
  BY <1>1, <1>2, <1>3, UpsertKeeps
<1>5. RetryPossible'
  BY <1>1, <1>2, <1>4 DEF JournalInv, RetryPossible
<1>6. \A r \in records' : r \in Records /\ r.tx \in sent /\ r.dir = Direction(r.tx)
  BY <1>1, <1>2, <1>4 DEF JournalInv
<1> QED  BY <1>1, <1>5, <1>6 DEF JournalInv, Direction

LEMMA JournalRetries == ASSUME JournalInv, NEW t \in Trans, Rebroadcast(t) PROVE JournalInv'
<1>1. PICK rec \in records : /\ rec.tx = t
                             /\ \/ /\ t \in inpool \/ t \notin inchain
                                   /\ inpool' = inpool \cup {t}
                                   /\ \E s \in Pendings : records' = upsert([rec EXCEPT !.status = s])
                                \/ /\ records' = upsert([rec EXCEPT !.status = "failed"])
                                   /\ UNCHANGED inpool
  BY DEF Rebroadcast
<1>2. /\ UNCHANGED <<inchain, sending, sent, missed>> /\ rec \in Records /\ t \in sent /\ rec.dir = Direction(t)
      /\ t \in inpool => t \notin inchain
  BY <1>1 DEF Rebroadcast, JournalInv
<1>3. PICK s \in Statuses : records' = upsert([rec EXCEPT !.status = s])
  BY <1>1 DEF Statuses
<1> DEFINE new == [rec EXCEPT !.status = s]
<1>4. new \in Records /\ new.tx = t /\ new.dir = Direction(t)
  BY <1>1, <1>2 DEF Records
<1>5. \A r \in records : r \in Records
  BY DEF JournalInv
<1> HIDE DEF new
<1>6. /\ \A r \in upsert(new) : r \in Records /\ (r \in records \/ (r.tx = new.tx /\ r.dir = new.dir))
      /\ \A x : (\E r \in records : r.tx = x /\ r.raw) => \E r \in upsert(new) : r.tx = x /\ r.raw
  BY <1>4, <1>5, UpsertKeeps
<1>7. records' = upsert(new)
  BY <1>3 DEF new
<1>8. RetryPossible'
  BY <1>2, <1>6, <1>7 DEF JournalInv, RetryPossible
<1>9. \A r \in records' : r \in Records /\ r.tx \in sent /\ r.dir = Direction(r.tx)
  BY <1>2, <1>4, <1>6, <1>7 DEF JournalInv
<1>10. inpool' \subseteq Trans /\ inpool' \cap inchain = {} /\ inpool' \subseteq inpool \cup {t}
  BY <1>1, <1>2 DEF JournalInv
<1> QED  BY <1>2, <1>8, <1>9, <1>10 DEF JournalInv, Direction

(* Listing and hiding change what a record says, not what it is of. *)
LEMMA RecordsRewritten ==
    ASSUME JournalInv, NEW f, records' = {f[r] : r \in records}, UNCHANGED <<inpool, inchain, sending, sent, missed>>,
           \A r \in records : f[r] \in Records /\ f[r].tx = r.tx /\ f[r].dir = r.dir /\ f[r].raw = r.raw
    PROVE  JournalInv'
<1>1. \A r \in records' : r \in Records /\ r.tx \in sent /\ r.dir = Direction(r.tx)
  BY DEF JournalInv
<1>2. \A x : (\E r \in records : r.tx = x /\ r.raw) => \E r \in records' : r.tx = x /\ r.raw
  OBVIOUS
<1>3. RetryPossible'
  BY <1>2 DEF JournalInv, RetryPossible
<1> QED  BY <1>1, <1>3 DEF JournalInv, Direction

LEMMA JournalLists == ASSUME JournalInv, ListWalletTransactions PROVE JournalInv'
<1> DEFINE f == [r \in records |-> reconcile(r)]
<1>1. records' = {f[r] : r \in records} /\ UNCHANGED <<inpool, inchain, sending, sent, missed>>
  BY DEF ListWalletTransactions
<1>2. \A r \in records : f[r] \in Records /\ f[r].tx = r.tx /\ f[r].dir = r.dir /\ f[r].raw = r.raw
  BY ReconcileKeeps DEF JournalInv
<1> HIDE DEF f
<1> QED  BY <1>1, <1>2, RecordsRewritten

LEMMA JournalHides == ASSUME JournalInv, NEW t \in Trans, RemoveLocalPending(t) PROVE JournalInv'
<1> DEFINE f == [r \in records |-> IF r.tx = t THEN [r EXCEPT !.status = "removed"] ELSE r]
<1>1. records' = {f[r] : r \in records} /\ UNCHANGED <<inpool, inchain, sending, sent, missed>>
  BY DEF RemoveLocalPending
<1>2. \A r \in records : f[r] \in Records /\ f[r].tx = r.tx /\ f[r].dir = r.dir /\ f[r].raw = r.raw
  <2> SUFFICES ASSUME NEW r \in records
               PROVE  f[r] \in Records /\ f[r].tx = r.tx /\ f[r].dir = r.dir /\ f[r].raw = r.raw
    OBVIOUS
  <2>1. r \in Records
    BY DEF JournalInv
  <2> QED  BY <2>1 DEF Records, Statuses
<1> HIDE DEF f
<1> QED  BY <1>1, <1>2, RecordsRewritten

LEMMA JournalWorld == ASSUME JournalInv, World PROVE JournalInv'
<1>1. /\ UNCHANGED <<records, sent>> /\ inpool' \subseteq Trans /\ inchain' \subseteq Trans
      /\ inpool' \cap inchain' = {}
      /\ \A t \in Trans : Kind[t].own /\ t \in inpool' \cup inchain' => t \in inpool \cup inchain
      /\ \/ sending' = sending /\ missed' = missed
         \/ sending' = NoTx /\ missed' = missed \cup ({sending} \cap Trans)
  BY DEF World, JournalInv
<1>2. RetryPossible'
  BY <1>1 DEF JournalInv, RetryPossible
<1> QED  BY <1>1, <1>2 DEF JournalInv, Direction

LEMMA StepJournalInv == JournalInv /\ [JournalNext]_jvars => JournalInv'
<1>1. JournalInv /\ UNCHANGED jvars => JournalInv'
  BY DEF jvars, JournalInv, RetryPossible, Direction
<1> QED  BY <1>1, JournalSends, JournalRecords, JournalRetries, JournalLists, JournalHides, JournalWorld
         DEF JournalNext

(* A confirmed transaction has one row in what the journal has and the     *)
(* chain shows: both classify it alike, and it is not in the pool.         *)
LEMMA ListedOnce == JournalInv => ConfirmedOnce
<1> SUFFICES ASSUME JournalInv, NEW t \in inchain
             PROVE  \E row \in Rows : /\ row.tx = t /\ row.status = "confirmed"
                                      /\ \A other \in Rows : other.tx = t => other = row
  BY DEF ConfirmedOnce
<1> DEFINE own == {Row(r.tx, r.dir, r.status) : r \in {reconcile(x) : x \in {y \in records : y.status # "removed"}}}
           Covered(row, by) == \E b \in by : b.tx = row.tx /\ b.dir = row.dir
           scanned == ChainRows \cup {p \in PoolRows : ~Covered(p, ChainRows)}
           row == Row(t, IF Kind[t].own THEN Direction(t) ELSE "received", "confirmed")
<1>1. Rows = own \cup {x \in scanned : ~Covered(x, own)}
  BY DEF Rows
<1>2. \A x \in own : x.tx = t => x = row
  <2> SUFFICES ASSUME NEW y \in records, y.status # "removed", reconcile(y).tx = t
               PROVE  Row(reconcile(y).tx, reconcile(y).dir, reconcile(y).status) = row
    BY DEF Row
  <2>1. y \in Records /\ y.tx \in sent /\ y.dir = Direction(y.tx) /\ (\A x \in sent : Kind[x].own)
    BY DEF JournalInv
  <2>2. y.tx = t /\ reconcile(y).dir = Direction(t) /\ reconcile(y).status = "confirmed"
    BY <2>1, ReconcileKeeps
  <2> QED  BY <2>1, <2>2
<1>3. row \in ChainRows /\ row.tx = t /\ row.status = "confirmed"
  BY DEF ChainRows, classifyWalletSpend, ExternalOut, WalletOut, Direction, Row
<1>4. \A x \in ChainRows : x.tx = t => x = row
  BY DEF ChainRows, classifyWalletSpend, ExternalOut, WalletOut, Direction, Row
<1>5. \A x \in PoolRows : x.tx # t
  BY DEF PoolRows, Row, JournalInv
<1>6. \A x \in Rows : x.tx = t => x = row
  BY <1>1, <1>2, <1>4, <1>5
<1>7. row \in Rows
  <2>1. CASE \E b \in own : b.tx = t
    BY <1>1, <1>2, <2>1
  <2>2. CASE ~\E b \in own : b.tx = t
    BY <1>1, <1>3, <2>2
  <2> QED  BY <2>1, <2>2
<1> QED  BY <1>3, <1>6, <1>7

(* Recorded sends can be sent again for ever, and a confirmed transaction  *)
(* is listed once, whatever blocks, reorganisations, evictions, retries    *)
(* and restarts come between the journal's calls.                          *)
THEOREM JournalAlwaysSound == JournalSpec => [](RetryPossible /\ ConfirmedOnce)
<1>1. JournalInv => RetryPossible /\ ConfirmedOnce
  BY ListedOnce DEF JournalInv
<1> QED  BY <1>1, InitJournalInv, StepJournalInv, PTL DEF JournalSpec

-----------------------------------------------------------------------------
(* Spending keeps its promises whatever sends race for the same coins, whenever a  *)
(* block, a payment or the lock timer comes between their steps, and wherever the  *)
(* application stops between a send and its journal.                               *)
THEOREM SpendingAlwaysSound == SendSpec /\ JournalSpec => []SpendingSound
<1>1. SendSpec => [](FundsConserved /\ ChainsOnOwn /\ EstimateSuffices)
  BY SendsAlwaysSound
<1>2. JournalSpec => [](RetryPossible /\ ConfirmedOnce)
  BY JournalAlwaysSound
<1>3. (FundsConserved /\ ChainsOnOwn /\ EstimateSuffices) /\ (RetryPossible /\ ConfirmedOnce) => SpendingSound
  BY DEF SpendingSound
<1> QED  BY <1>1, <1>2, <1>3, PTL
====
