-------------------------------- MODULE Wallet --------------------------------
(***************************************************************************)
(* The wallet's keys and its file: wallet/wallet.go without the spending   *)
(* half (WalletSend).                                                      *)
(*                                                                         *)
(* One mutex guards the fields, but almost every call takes it several     *)
(* times: NewAddress checks the lock, derives a key, inserts it, seals the *)
(* key set, copies what it will write and writes it in six separate steps, *)
(* and an unlock timer, another caller or a crash may come between any     *)
(* two.  A step below is what happens under one acquisition of the mutex.  *)
(*                                                                         *)
(* A key stands for its address.  <<s, i>> is the key derived from seed s  *)
(* at index i; the others are random or imported.  A sealed key set        *)
(* (cipherHex, saltHex, nonceHex) is a record that only its passphrase     *)
(* opens.  The key counts and hasHDSeed follow the two address sets; the   *)
(* mnemonic is left out, like every read of the wallet that changes        *)
(* nothing.                                                                *)
(***************************************************************************)
EXTENDS Naturals, FiniteSets

CONSTANTS
    Caller,     \* the threads that call the wallet
    Pass, Seed, \* the passphrases and HD seeds the callers use
    Random,     \* keys drawn at random when there is no seed
    Hybrid,     \* hybrid keys, always drawn at random
    Imported,   \* keys a caller imports
    Backups,    \* unencrypted backup files: [keys, seed, next]
    MaxIndex,   \* bound: the derived keys of a seed
    MaxFired,   \* bound: expired unlock timers whose Lock has not run yet
    Profiles,   \* what the callers do: [timed, change : BOOLEAN]
    None

Derived == Seed \X (0 .. MaxIndex)
Key == Derived \cup Random \cup Hybrid \cup Imported

(* Passphrases, seeds and backups are values of different kinds; no key drawn at *)
(* random is one that a seed gives.                                              *)
ASSUME WalletAssumption ==
    /\ None \notin Pass \cup Seed /\ Pass \cap (Seed \cup Backups) = {}
    /\ Random \cap (Seed \X (0 .. MaxIndex + 1)) = {}
    /\ Backups \subseteq [keys : SUBSET Key, seed : Seed \cup {None}, next : 0 .. MaxIndex + 1]
    /\ {MaxIndex, MaxFired} \subseteq Nat
    /\ Profiles \subseteq [timed : BOOLEAN, change : BOOLEAN]

NoCipher == [pass |-> None, keys |-> {}, seed |-> None, next |-> 0]

VARIABLES
    profile,  \* whether the callers use unlock timeouts and ChangePassphrase
    w,        \* the Wallet struct
    disk,     \* wallet.json
    call,     \* for each caller the call it is in
    armed,    \* an unlock timer is running
    fired,    \* timers that expired and whose Lock waits for the mutex
    handed,   \* keys whose call returned without an error
    opens     \* passphrases that may open the file, as far as the callers know

vars == <<profile, w, disk, call, armed, fired, handed, opens>>
-----------------------------------------------------------------------------
(* While the wallet is encrypted, an empty key set leaves the known addresses of  *)
(* its kind alone: a locked wallet still lists them.                              *)
refreshMetadata(x) ==
    LET part(K) == IF x.keys \cap K # {} \/ ~x.encrypted THEN x.keys \cap K
                   ELSE x.addresses \cap K
    IN  [x EXCEPT !.addresses = part(Hybrid) \cup part(Key \ Hybrid)]

(* encryptState of the fields as they are. *)
Seal(x, p) == [pass |-> p, keys |-> x.keys, seed |-> x.seed, next |-> x.next]

PlainFile(x) == [encrypted |-> FALSE, keys |-> x.keys, addresses |-> x.addresses,
                 cipher |-> NoCipher, seed |-> x.seed, next |-> x.next]

SealedFile(x) == [encrypted |-> x.encrypted, keys |-> {}, addresses |-> x.addresses,
                  cipher |-> x.cipher, seed |-> None, next |-> x.next]

(* Open after a restart: an encrypted wallet comes up locked. *)
Open(f) ==
    LET x == [keys |-> f.keys, addresses |-> f.addresses, encrypted |-> f.encrypted,
              locked |-> f.encrypted, cipher |-> f.cipher, pass |-> None,
              seed |-> f.seed, next |-> f.next]
    IN  IF f.encrypted THEN x ELSE refreshMetadata(x)

requireUnlocked == ~(w.encrypted /\ w.locked)

(* Unlock: the fields are replaced by the sealed ones. *)
Unlocked(x, p) ==
    refreshMetadata([x EXCEPT !.keys = x.cipher.keys, !.seed = x.cipher.seed,
                              !.next = x.cipher.next, !.locked = FALSE, !.pass = p])

(* Lock: the keys, the seed and the passphrase leave memory. *)
LockedStaysOpen(x) == [x EXCEPT !.keys = {}, !.seed = None, !.pass = None]

Locked(x) == [x EXCEPT !.keys = {}, !.seed = None, !.pass = None, !.locked = TRUE]
-----------------------------------------------------------------------------
Idle == [step |-> "idle", keys |-> {}, file |-> None, arg |-> None]

In(c, s) == call[c].step = s
Goes(c, s) == call' = [call EXCEPT ![c].step = s]
Begin(c, s, K, a) == /\ In(c, "idle")
                     /\ call' = [call EXCEPT ![c] = [Idle EXCEPT !.step = s, !.keys = K, !.arg = a]]
Returns(c) == call' = [call EXCEPT ![c] = Idle]

(* A key drawn at random is none that is known anywhere. *)
Unused(K) == K \ (w.keys \cup w.addresses \cup w.cipher.keys \cup disk.keys
                   \cup disk.cipher.keys \cup UNION {call[c].keys : c \in Caller})

(* The first step of the calls that need the keys; a locked wallet refuses them. *)
NewAddress(c) ==
    /\ requireUnlocked
    /\ w.seed # None => w.next <= MaxIndex
    /\ Begin(c, "derive", {}, None)
    /\ UNCHANGED <<profile, w, disk, armed, fired, handed, opens>>

NewHybridAddress(c) ==
    /\ requireUnlocked
    /\ \E k \in Unused(Hybrid) : Begin(c, "insert", {k}, None)
    /\ UNCHANGED <<profile, w, disk, armed, fired, handed, opens>>

ImportPrivKey(c) ==
    /\ requireUnlocked
    /\ \E k \in Imported : Begin(c, "insert", {k}, None)
    /\ UNCHANGED <<profile, w, disk, armed, fired, handed, opens>>

SetHDSeed(c) ==
    /\ requireUnlocked
    /\ \E s \in Seed : Begin(c, "seed", {}, s)
    /\ UNCHANGED <<profile, w, disk, armed, fired, handed, opens>>

RestorePlainBackup(c) ==
    /\ requireUnlocked
    /\ \E b \in Backups : Begin(c, "restore", b.keys, b)
    /\ UNCHANGED <<profile, w, disk, armed, fired, handed, opens>>

(* The seed is tested again here: when the wallet was locked in between, the key  *)
(* is drawn at random, as in a wallet that never had a seed.                      *)
Derive(c) ==
    /\ In(c, "derive")
    /\ \E k \in Derived \cup Unused(Random) :
         /\ IF w.seed # None
            THEN /\ k = <<w.seed, w.next>>
                 /\ w' = [w EXCEPT !.next = @ + 1]
            ELSE k \in Random /\ UNCHANGED w
         /\ call' = [call EXCEPT ![c].step = "insert", ![c].keys = {k}]
    /\ UNCHANGED <<profile, disk, armed, fired, handed, opens>>

Insert(c) ==
    /\ In(c, "insert")
    /\ w' = refreshMetadata([w EXCEPT !.keys = @ \cup call[c].keys,
                                      !.addresses = @ \cup call[c].keys])
    /\ Goes(c, "persist")
    /\ UNCHANGED <<profile, disk, armed, fired, handed, opens>>

(* A seed starts its indices at 0, even when it is the seed the wallet has. *)
ApplySeed(c) ==
    /\ In(c, "seed")
    /\ w' = refreshMetadata([w EXCEPT !.seed = call[c].arg, !.next = 0])
    /\ Goes(c, "persist")
    /\ UNCHANGED <<profile, disk, armed, fired, handed, opens>>

RestoreKeysOnly(c) ==
    /\ In(c, "restore")
    /\ w' = [w EXCEPT !.keys = @ \cup call[c].keys]
    /\ Goes(c, "persist")
    /\ UNCHANGED <<profile, disk, armed, fired, handed, opens>>

Restore(c) ==
    /\ In(c, "restore")
    /\ LET b == call[c].arg
       IN  w' = refreshMetadata([w EXCEPT
                    !.keys = @ \cup b.keys, !.addresses = @ \cup b.keys,
                    !.seed = IF @ = None THEN b.seed ELSE @,
                    !.next = IF b.next > @ THEN b.next ELSE @])
    /\ Goes(c, "persist")
    /\ UNCHANGED <<profile, disk, armed, fired, handed, opens>>
-----------------------------------------------------------------------------
(* persist without the test of the lock: it seals whatever is in memory. *)
PersistAnyway(c) ==
    /\ In(c, "persist")
    /\ IF w.encrypted
       THEN /\ w' = LET x == refreshMetadata(w) IN [x EXCEPT !.cipher = Seal(x, x.cipher.pass)]
            /\ Goes(c, "store")
       ELSE UNCHANGED w /\ Goes(c, "snap")
    /\ UNCHANGED <<profile, disk, armed, fired, handed, opens>>

(* persist.  A wallet locked since the call began cannot be sealed again: the     *)
(* call fails and its key is in memory only.                                      *)
Persist(c) ==
    /\ In(c, "persist")
    /\ CASE w.encrypted /\ w.locked  -> UNCHANGED w /\ Returns(c)
         [] w.encrypted /\ ~w.locked ->
              /\ w' = LET x == refreshMetadata(w) IN [x EXCEPT !.cipher = Seal(x, x.pass)]
              /\ Goes(c, "store")
         [] OTHER -> UNCHANGED w /\ Goes(c, "snap")
    /\ UNCHANGED <<profile, disk, armed, fired, handed, opens>>

(* What will be written is copied under the mutex and written after its release. *)
Snapshot(c) ==
    /\ \/ /\ In(c, "snap")
          /\ call' = [call EXCEPT ![c].step = "write", ![c].file = PlainFile(w)]
       \/ /\ In(c, "store")
          /\ call' = [call EXCEPT ![c].step = "write", ![c].file = SealedFile(w)]
    /\ UNCHANGED <<profile, w, disk, armed, fired, handed, opens>>

(* WriteFileAtomic: the file is the old or the new one, never a mixture. *)
Write(c) ==
    /\ In(c, "write")
    /\ disk' = call[c].file
    /\ handed' = handed \cup call[c].keys
    /\ opens' = IF call[c].arg \in Pass THEN {call[c].arg} ELSE opens
    /\ Returns(c)
    /\ UNCHANGED <<profile, w, armed, fired>>

WriteFails(c) ==
    /\ In(c, "write")
    /\ Returns(c)
    /\ UNCHANGED <<profile, w, disk, armed, fired, handed, opens>>
-----------------------------------------------------------------------------
(* Encrypt.  The keys are sealed and leave memory; the seed stays in memory until *)
(* the next Lock or Unlock.                                                       *)
Encrypt(c) ==
    /\ ~w.encrypted
    /\ \E p \in Pass :
         /\ Begin(c, "store", {}, p)
         /\ w' = [refreshMetadata(w) EXCEPT !.cipher = Seal(w, p), !.encrypted = TRUE,
                                            !.locked = TRUE, !.pass = None, !.keys = {}]
         /\ opens' = {p}
    /\ UNCHANGED <<profile, disk, armed, fired, handed>>

UnlockKeepsTimer(c) ==
    /\ w.encrypted
    /\ In(c, "idle")
    /\ w' = Unlocked(w, w.cipher.pass)
    /\ armed' = (profile.timed /\ w.locked)
    /\ UNCHANGED <<profile, disk, call, fired, handed, opens>>

(* Unlock with the right passphrase; any other changes nothing.  The old timer is *)
(* stopped, but one that expired already is waiting for the mutex and will lock   *)
(* the wallet again.                                                              *)
Unlock(c) ==
    /\ w.encrypted
    /\ In(c, "idle")
    /\ w' = Unlocked(w, w.cipher.pass)
    /\ armed' = profile.timed
    /\ UNCHANGED <<profile, disk, call, fired, handed, opens>>

Lock(c) ==
    /\ w.encrypted
    /\ In(c, "idle")
    /\ w' = Locked(w)
    /\ armed' = FALSE
    /\ UNCHANGED <<profile, disk, call, fired, handed, opens>>

TimerExpires ==
    /\ armed
    /\ fired < MaxFired
    /\ armed' = FALSE
    /\ fired' = fired + 1
    /\ UNCHANGED <<profile, w, disk, call, handed, opens>>

TimerLocks ==
    /\ fired > 0
    /\ fired' = fired - 1
    /\ w' = Locked(w)
    /\ armed' = FALSE
    /\ UNCHANGED <<profile, disk, call, handed, opens>>

(* ChangePassphrase: an Unlock without a timeout, the mutex is released, and the  *)
(* keys in memory are sealed with the new passphrase, whether or not the wallet   *)
(* was locked in between.                                                         *)
ChangePassphrase(c) ==
    /\ profile.change
    /\ w.encrypted
    /\ \E p \in Pass : Begin(c, "change", {}, p)
    /\ w' = Unlocked(w, w.cipher.pass)
    /\ armed' = FALSE
    /\ UNCHANGED <<profile, disk, fired, handed, opens>>

ChangeSealsOld(c) ==
    /\ In(c, "change")
    /\ w' = LET x == refreshMetadata(w) IN [x EXCEPT !.cipher = Seal(x, x.pass)]
    /\ opens' = opens \cup {call[c].arg}
    /\ Goes(c, "store")
    /\ UNCHANGED <<profile, disk, armed, fired, handed>>

Change(c) ==
    /\ In(c, "change")
    /\ w' = LET x == refreshMetadata(w)
            IN  [x EXCEPT !.cipher = Seal(x, call[c].arg), !.pass = call[c].arg]
    /\ opens' = opens \cup {call[c].arg}
    /\ Goes(c, "store")
    /\ UNCHANGED <<profile, disk, armed, fired, handed>>

(* The process ends at any point and starts again from the file. *)
Crash ==
    /\ w' = Open(disk)
    /\ call' = [c \in Caller |-> Idle]
    /\ armed' = FALSE
    /\ fired' = 0
    /\ UNCHANGED <<profile, disk, handed, opens>>
-----------------------------------------------------------------------------
Init ==
    /\ profile \in Profiles
    /\ disk = [encrypted |-> FALSE, keys |-> {}, addresses |-> {}, cipher |-> NoCipher,
               seed |-> None, next |-> 0]
    /\ w = Open(disk)
    /\ call = [c \in Caller |-> Idle]
    /\ armed = FALSE /\ fired = 0
    /\ handed = {} /\ opens = {}

Continue(c) ==
    \/ Derive(c) \/ Insert(c) \/ ApplySeed(c) \/ Restore(c)
    \/ Persist(c) \/ Snapshot(c) \/ Write(c) \/ WriteFails(c) \/ Change(c)

Next ==
    \/ \E c \in Caller :
         \/ NewAddress(c) \/ NewHybridAddress(c) \/ ImportPrivKey(c) \/ SetHDSeed(c)
         \/ RestorePlainBackup(c) \/ Encrypt(c) \/ Unlock(c) \/ Lock(c)
         \/ ChangePassphrase(c) \/ Continue(c)
    \/ TimerExpires \/ TimerLocks \/ Crash

(* A call runs to its end, a timer expires, and its goroutine gets the mutex. *)
Fairness ==
    /\ \A c \in Caller : WF_vars(Continue(c))
    /\ WF_vars(TimerExpires)
    /\ WF_vars(TimerLocks)

Spec == Init /\ [][Next]_vars /\ Fairness
-----------------------------------------------------------------------------
Ciphers == [pass : Pass \cup {None}, keys : SUBSET Key, seed : Seed \cup {None},
            next : 0 .. MaxIndex + 1]

Files == [encrypted : BOOLEAN, keys : SUBSET Key, addresses : SUBSET Key, cipher : Ciphers,
          seed : Seed \cup {None}, next : 0 .. MaxIndex + 1]

(* Every field keeps its type, and neither the file nor the memory of an encrypted *)
(* wallet ever says it is open while no passphrase is held to seal it again with:  *)
(* persist would seal the keys under the empty passphrase.                         *)
WalletTypeOK ==
    /\ profile \in Profiles
    /\ w \in [keys : SUBSET Key, addresses : SUBSET Key, encrypted : BOOLEAN, locked : BOOLEAN,
              cipher : Ciphers, pass : Pass \cup {None}, seed : Seed \cup {None},
              next : 0 .. MaxIndex + 1]
    /\ w.encrypted /\ ~w.locked => w.pass = w.cipher.pass
    /\ disk \in Files
    /\ \A c \in Caller : call[c].keys \subseteq Key
    /\ armed \in BOOLEAN /\ fired \in 0 .. MaxFired
    /\ handed \subseteq Key /\ opens \subseteq Pass

Recoverable(f) == IF f.encrypted THEN f.cipher.keys ELSE f.keys

(* An address that a call handed out without an error can be recovered from the   *)
(* file at every later moment, whatever timers expire, writes fail or crashes     *)
(* come: NewAddress returns persist's error, and every later write contains the   *)
(* key again.  ChangePassphrase breaks this when the wallet is locked between its *)
(* two halves.                                                                    *)
HandedOutRecoverable == handed \subseteq Recoverable(disk)

(* The address list of the file, which a locked wallet shows after a restart,     *)
(* names every key the file holds (persistLocked copies it after the keys were    *)
(* sealed and the mutex released).                                                *)
FileListsItsKeys == Recoverable(disk) \subseteq disk.addresses

(* The file opens with a passphrase its owner knows: the last one a call          *)
(* acknowledged, or the one of a call that is not finished or failed (a failed    *)
(* ChangePassphrase takes effect with the next write).                            *)
PassphraseOpens == disk.encrypted => disk.cipher.pass \in opens

(* Whatever was handed out can be recovered from the file with the passphrase the *)
(* user knows: no key, address or passphrase is lost on the way (NewAddress,      *)
(* Encrypt, ChangePassphrase, persist and their failures).                        *)
KeysSafe == HandedOutRecoverable /\ FileListsItsKeys /\ PassphraseOpens

(* An unlock with a timeout ends: the timer locks the wallet again, whatever      *)
(* calls and unlocks come meanwhile, unless a crash takes back an Encrypt whose   *)
(* write had failed.                                                              *)
Relocks == armed ~> (w.locked \/ ~w.encrypted)
=============================================================================
