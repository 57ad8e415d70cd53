---------------------------- MODULE ScriptEngine ----------------------------
(***************************************************************************)
(* Scripts (internal/script/script.go): how pushes are written and read    *)
(* back, the machine of EvalPushScriptWithHooks and the structure check    *)
(* before it, and VerifyInput, which knows five templates and runs no      *)
(* machine.                                                                *)
(*                                                                         *)
(* A script is a sequence of small numbers.  Opcodes and data share them,  *)
(* as bytes do; a direct push holds up to Short of them (75 in the code)   *)
(* and a length is written with digits below Digit (256).  A key is one    *)
(* number, its hash two, a signature the key, whether it is good for this  *)
(* input (SignatureHash), and its hash type.                               *)
(***************************************************************************)
EXTENDS Integers, FiniteSets, SequencesExt

CONSTANTS
    Short, Digit,   \* 75 and 256 in the code
    MaxScriptSize,
    MultiSigOps,    \* 20 in the code
    Key, Malformed, \* the keys, those of them ParsePubKey refuses
    Opcodes,        \* what programs are written with
    MaxProgram, MaxPushes   \* bounds of the model

ASSUME ScriptAssumption ==
    /\ Short >= 2 /\ Digit > Short /\ MaxScriptSize < Digit * Digit
    /\ Malformed \subseteq Key /\ Key \subseteq 1 .. Digit - 1

VARIABLES
    vm,     \* the machine: [code, pc, stack, conds, end]
    held,   \* the IFs and NOTIFs of the program that took their branch
    spend   \* an input: [script, pushes], pushes what its signature script pushes

scriptvars == <<vm, held, spend>>

OP_0 == 0
OP_PUSHDATA1 == Short + 1
OP_PUSHDATA2 == Short + 2
OP_IF == Short + 3
OP_NOTIF == Short + 4
OP_ELSE == Short + 5
OP_ENDIF == Short + 6
OP_DUP == Short + 7
OP_HASH160 == Short + 8
OP_EQUAL == Short + 9
OP_EQUALVERIFY == Short + 10
OP_CHECKSIG == Short + 11
OP_CHECKMULTISIG == Short + 12
OP_1 == Short + 13
OP_16 == OP_1 + 2       \* 16 in the code
OP_OTHER == OP_16 + 1   \* any opcode without a case of its own
SigHashAll == 1

(* Hashes are data that look like no opcode. *)
Hash160(data) == <<OP_OTHER>> \o [i \in DOMAIN data |-> data[i] + OP_OTHER]
Preimage(hash) == [i \in 1 .. Len(hash) - 1 |-> hash[i + 1] - OP_OTHER]
-----------------------------------------------------------------------------
(* Pushes *)

(* Mutant: a length that needs two bytes is written in one. *)
writePushDataShort(data) ==
    (IF Len(data) <= Short THEN <<Len(data)>> ELSE <<OP_PUSHDATA1, Len(data) % Digit>>) \o data

(* For data of at most MaxScriptSize. *)
writePushData(data) ==
    (CASE Len(data) <= Short -> <<Len(data)>>
       [] Len(data) > Short /\ Len(data) < Digit -> <<OP_PUSHDATA1, Len(data)>>
       [] Len(data) >= Digit -> <<OP_PUSHDATA2, Len(data) % Digit, Len(data) \div Digit>>) \o data

encodePushes(pushes) == FlattenSeq([i \in DOMAIN pushes |-> writePushData(pushes[i])])

IsPush(op) == op \in 0 .. OP_PUSHDATA2

(* Where the data of the push at i begin and the next opcode stands; the   *)
(* next opcode is beyond the end + 1 if the script breaks off before.      *)
PushAt(code, i) ==
    LET here(n) == IF n <= Len(code) THEN code[n] ELSE Len(code)
        From(first, size) == [first |-> first, next |-> first + size]
    IN  CASE code[i] <= Short -> From(i + 1, code[i])
          [] code[i] = OP_PUSHDATA1 -> From(i + 2, here(i + 1))
          [] code[i] = OP_PUSHDATA2 -> From(i + 3, here(i + 1) + Digit * here(i + 2))

Pushed(code, p) == IF p.next <= Len(code) + 1 THEN SubSeq(code, p.first, p.next - 1) ELSE <<>>

(* [ok, pushes]; anything but a complete push of an allowed size is an error. *)
parsePushes(code) ==
    LET Read(r, i) ==
            IF i < r.next \/ ~r.ok THEN r
            ELSE IF ~IsPush(code[i]) THEN [r EXCEPT !.ok = FALSE]
            ELSE LET p == PushAt(code, i)
                 IN  [ok |-> p.next <= Len(code) + 1 /\ p.next - p.first <= MaxScriptSize,
                      next |-> p.next,
                      pushes |-> Append(r.pushes, Pushed(code, p))]
        end == FoldLeft(Read, [ok |-> TRUE, next |-> 1, pushes |-> <<>>], [i \in DOMAIN code |-> i])
    IN  [ok |-> end.ok, pushes |-> end.pushes]
-----------------------------------------------------------------------------
(* The structure check: pushes are complete, conditionals are nested. *)

(* Mutant: ELSE is not checked. *)
DepthAfterAnyElse(depth, op) ==
    CASE op \in {OP_IF, OP_NOTIF} -> depth + 1
      [] op = OP_ENDIF -> depth - 1
      [] OTHER -> depth

(* The depth after an opcode; -1 is an error. *)
DepthAfter(depth, op) ==
    CASE op \in {OP_IF, OP_NOTIF} -> depth + 1
      [] op = OP_ELSE -> IF depth = 0 THEN -1 ELSE depth
      [] op = OP_ENDIF -> depth - 1
      [] OTHER -> depth

ValidateScriptStructure(code) ==
    LET Check(r, i) ==
            IF i < r.next \/ r.depth < 0 THEN r
            ELSE IF IsPush(code[i])
                 THEN LET p == PushAt(code, i)
                      IN  [next |-> p.next, depth |-> IF p.next <= Len(code) + 1 THEN r.depth ELSE -1]
                 ELSE [next |-> i + 1, depth |-> DepthAfter(r.depth, code[i])]
    IN  FoldLeft(Check, [next |-> 1, depth |-> 0], [i \in DOMAIN code |-> i]).depth = 0
-----------------------------------------------------------------------------
(* Signatures *)

Sig(key, good, type) == <<key, good, type>>

WellTyped(sig) == Len(sig) >= 2 /\ Last(sig) = SigHashAll

(* ParsePubKey, ParseDERSignature, Verify; the hash type is not part of what is signed. *)
Verifies(sig, pubKey) ==
    /\ Len(pubKey) = 1 /\ pubKey[1] \in Key \ Malformed
    /\ Len(sig) = 3 /\ sig[1] = pubKey[1] /\ sig[2] = 1

(* Mutant: the next key must match. *)
MatchEachInTurn(sigs, keys) ==
    /\ Len(sigs) <= Len(keys)
    /\ \A i \in DOMAIN sigs : Verifies(sigs[i], keys[i])

(* Mutant: a key is not used up by the signature that matches it. *)
MatchInOrderReused(sigs, keys) ==
    FoldLeft(LAMBDA next, s :
        LET fits == {k \in next .. Len(keys) : Verifies(s, keys[k])}
        IN  IF fits = {} THEN Len(keys) + 2 ELSE Min(fits), 1, sigs) <= Len(keys) + 1

(* Each signature takes the next key it verifies with; keys before it are passed over. *)
MatchInOrder(sigs, keys) ==
    FoldLeft(LAMBDA next, s :
        LET fits == {k \in next .. Len(keys) : Verifies(s, keys[k])}
        IN  IF fits = {} THEN Len(keys) + 2 ELSE Min(fits) + 1, 1, sigs) <= Len(keys) + 1
-----------------------------------------------------------------------------
(* The machine *)

Machine(code, stack) ==
    [code |-> code, pc |-> 1, stack |-> stack, conds |-> <<>>, end |-> "run"]

Active(conds) == \A i \in DOMAIN conds : conds[i]

isTruthy(data) == \E i \in DOMAIN data : data[i] # 0

Fails(m, end) == [m EXCEPT !.end = end]
Goes(m, next, stack) == [m EXCEPT !.pc = next, !.stack = stack]

(* The stack without its n upper items; the i-th item from the top *)
Drop(stack, n) == SubSeq(stack, 1, Len(stack) - n)
Top(stack, i) == stack[Len(stack) - i + 1]

Truth(b) == IF b THEN <<1>> ELSE <<>>

StepPush(m) ==
    LET p == PushAt(m.code, m.pc)
    IN  IF p.next > Len(m.code) + 1 THEN Fails(m, "malformed")
        ELSE Goes(m, p.next, IF Active(m.conds)
                             THEN Append(m.stack, Pushed(m.code, p)) ELSE m.stack)

StepNumber(m) ==
    Goes(m, m.pc + 1, IF Active(m.conds) THEN Append(m.stack, <<m.code[m.pc] - OP_1 + 1>>) ELSE m.stack)

(* In a branch that is not taken the condition is not looked at. *)
Condition(m) == isTruthy(Top(m.stack, 1)) = (m.code[m.pc] = OP_IF)

StepIf(m) ==
    IF ~Active(m.conds) THEN [m EXCEPT !.pc = @ + 1, !.conds = Append(@, FALSE)]
    ELSE IF m.stack = <<>> THEN Fails(m, "eval")
    ELSE [m EXCEPT !.pc = @ + 1, !.stack = Drop(@, 1), !.conds = Append(@, Condition(m))]

(* Mutant: ELSE always takes its branch. *)
StepElseTaken(m) ==
    IF m.conds = <<>> THEN Fails(m, "malformed")
    ELSE [m EXCEPT !.pc = @ + 1, !.conds[Len(m.conds)] = Active(Front(m.conds))]

(* ELSE of a conditional in a branch that is not taken changes nothing. *)
StepElse(m) ==
    IF m.conds = <<>> THEN Fails(m, "malformed")
    ELSE [m EXCEPT !.pc = @ + 1,
                   !.conds[Len(m.conds)] = IF Active(Front(m.conds)) THEN ~@ ELSE @]

StepEndif(m) ==
    IF m.conds = <<>> THEN Fails(m, "malformed")
    ELSE [m EXCEPT !.pc = @ + 1, !.conds = Front(@)]

(* The opcodes that take n items and leave result. *)
Operate(m, n, result) ==
    IF Len(m.stack) < n THEN Fails(m, "eval") ELSE Goes(m, m.pc + 1, Drop(m.stack, n) \o result)

decodeStackSmallInt(data) ==
    IF data = <<>> THEN 0
    ELSE IF Len(data) = 1 /\ data[1] <= OP_16 - OP_1 + 1 THEN data[1] ELSE -1

(* Mutant: no dummy is taken. *)
StepMultiSigNoDummy(m) ==
    LET s == m.stack
        n == decodeStackSmallInt(Top(s, 1))
        sigs == decodeStackSmallInt(Top(s, n + 2))
    IN  IF s = <<>> \/ n < 0 \/ Len(s) < n + 2 THEN Fails(m, "eval")
        ELSE IF sigs < 0 \/ sigs > n \/ Len(s) < n + sigs + 2 THEN Fails(m, "eval")
        ELSE LET Slice(from, count) == SubSeq(s, Len(s) - from - count + 1, Len(s) - from)
                 signed == \A i \in 1 .. sigs : WellTyped(Slice(n + 2, sigs)[i])
             IN  Goes(m, m.pc + 1, Append(Drop(s, n + sigs + 2),
                         Truth(signed /\ MatchInOrder(Slice(n + 2, sigs), Slice(1, n)))))

(* The number of keys, the keys, the number of signatures, the signatures, a dummy *)
StepMultiSig(m) ==
    LET s == m.stack
        n == decodeStackSmallInt(Top(s, 1))
        sigs == decodeStackSmallInt(Top(s, n + 2))
    IN  IF s = <<>> \/ n < 0 \/ Len(s) < n + 2 THEN Fails(m, "eval")
        ELSE IF sigs < 0 \/ sigs > n \/ Len(s) < n + sigs + 3 THEN Fails(m, "eval")
        ELSE LET Slice(from, count) == SubSeq(s, Len(s) - from - count + 1, Len(s) - from)
                 signed == \A i \in 1 .. sigs : WellTyped(Slice(n + 2, sigs)[i])
             IN  Goes(m, m.pc + 1, Append(Drop(s, n + sigs + 3),
                         Truth(signed /\ MatchInOrder(Slice(n + 2, sigs), Slice(1, n)))))

StepOther(m) ==
    LET s == m.stack
        op == m.code[m.pc]
        a == Top(s, 2)
        b == Top(s, 1)
    IN  IF ~Active(m.conds) THEN [m EXCEPT !.pc = @ + 1]
        ELSE IF s = <<>> /\ op # OP_OTHER THEN Fails(m, "eval")
        ELSE CASE op = OP_DUP -> Operate(m, 1, <<b, b>>)
               [] op = OP_HASH160 -> Operate(m, 1, <<Hash160(b)>>)
               [] op = OP_EQUAL -> Operate(m, 2, <<Truth(a = b)>>)
               [] op = OP_EQUALVERIFY ->
                     IF Len(s) >= 2 /\ a # b THEN Fails(m, "eval") ELSE Operate(m, 2, <<>>)
               [] op = OP_CHECKSIG -> Operate(m, 2, <<Truth(WellTyped(a) /\ Verifies(a, b))>>)
               [] op = OP_CHECKMULTISIG -> StepMultiSig(m)
               [] OTHER -> Fails(m, "unsupported")

Step(m) ==
    IF m.end # "run" THEN m
    ELSE IF m.pc > Len(m.code) THEN [m EXCEPT !.end = "done"]
    ELSE LET op == m.code[m.pc]
         IN  CASE IsPush(op) -> StepPush(m)
               [] op \in OP_1 .. OP_16 -> StepNumber(m)
               [] op \in {OP_IF, OP_NOTIF} -> StepIf(m)
               [] op = OP_ELSE -> StepElse(m)
               [] op = OP_ENDIF -> StepEndif(m)
               [] OTHER -> StepOther(m)
-----------------------------------------------------------------------------
(* The templates *)

P2PKH(hash) == <<OP_DUP, OP_HASH160>> \o writePushData(hash) \o <<OP_EQUALVERIFY, OP_CHECKSIG>>
P2PK(key) == writePushData(<<key>>) \o <<OP_CHECKSIG>>
Hybrid(hash) == <<OP_0, OP_HASH160>> \o writePushData(hash) \o <<OP_EQUALVERIFY, OP_CHECKSIG>>
P2SH(hash) == <<OP_HASH160>> \o writePushData(hash) \o <<OP_EQUAL>>
MultiSig(m, keys) ==
    <<OP_1 + m - 1>> \o encodePushes([i \in DOMAIN keys |-> <<keys[i]>>])
    \o <<OP_1 + Len(keys) - 1, OP_CHECKMULTISIG>>

(* The hash that is pushed after the first opcodes *)
HashOf(code, before) == Pushed(code, PushAt(code, before + 1))

IsPayToPubKeyHash(code) == Len(code) > 4 /\ IsPush(code[3]) /\ code = P2PKH(HashOf(code, 2))
IsPayToHybrid(code) == Len(code) > 4 /\ IsPush(code[3]) /\ code = Hybrid(HashOf(code, 2))
IsPayToScriptHash(code) == Len(code) > 2 /\ IsPush(code[2]) /\ code = P2SH(HashOf(code, 1))
IsPayToPubKey(code) == Len(code) = 3 /\ code = P2PK(code[2])

(* parseMultiSigScript *)
KeysIn(code) == [i \in 1 .. (Len(code) - 3) \div 2 |-> code[2 * i + 1]]
Required(code) == code[1] - OP_1 + 1
IsPayToMultiSig(code) ==
    /\ Len(code) >= 5
    /\ Required(code) \in 1 .. Len(KeysIn(code))
    /\ code = MultiSig(Required(code), KeysIn(code))

verifyP2PKH(pushes, code) ==
    /\ Len(pushes) = 2
    /\ WellTyped(pushes[1])
    /\ Hash160(pushes[2]) = HashOf(code, 2)
    /\ Verifies(pushes[1], pushes[2])

verifyP2PK(pushes, code) ==
    Len(pushes) = 1 /\ WellTyped(pushes[1]) /\ Verifies(pushes[1], <<code[2]>>)

(* Both signatures must be good; only the first has a hash type. *)
verifyHybridP2PKH(pushes, code) ==
    /\ Len(pushes) = 4
    /\ WellTyped(pushes[1])
    /\ Hash160(pushes[3] \o pushes[4]) = HashOf(code, 2)
    /\ Verifies(pushes[1], pushes[3]) /\ Verifies(pushes[2], pushes[4])

(* A leading empty push is passed over. *)
verifyMultiSig(pushes, code) ==
    LET sigs == IF pushes # <<>> /\ pushes[1] = <<>> THEN Tail(pushes) ELSE pushes
        keys == KeysIn(code)
    IN  /\ pushes # <<>>
        /\ Len(sigs) \in Required(code) .. Len(keys)
        /\ \A i \in DOMAIN sigs : WellTyped(sigs[i])
        /\ MatchInOrder(sigs, [i \in DOMAIN keys |-> <<keys[i]>>])

VerifyPlain(pushes, code) ==
    CASE IsPayToPubKeyHash(code) -> verifyP2PKH(pushes, code)
      [] IsPayToPubKey(code) -> verifyP2PK(pushes, code)
      [] IsPayToMultiSig(code) -> verifyMultiSig(pushes, code)
      [] OTHER -> FALSE

(* The arguments are written again without the redeem script. *)
verifyP2SH(pushes, code) ==
    /\ pushes # <<>>
    /\ Hash160(Last(pushes)) = HashOf(code, 1)
    /\ VerifyPlain(parsePushes(encodePushes(Front(pushes))).pushes, Last(pushes))

VerifyInput(sigScript, code) ==
    LET parsed == parsePushes(sigScript)
    IN  /\ parsed.ok
        /\ CASE IsPayToHybrid(code) -> verifyHybridP2PKH(parsed.pushes, code)
             [] IsPayToScriptHash(code) -> verifyP2SH(parsed.pushes, code)
             [] OTHER -> VerifyPlain(parsed.pushes, code)

CountSigOps(code) ==
    LET Count(op) == Cardinality({i \in DOMAIN code : code[i] = op})
    IN  Count(OP_CHECKSIG) + MultiSigOps * Count(OP_CHECKMULTISIG)

(* Mutant: the operations of the redeem script are not counted. *)
SigOpsForOutput(sigScript, code) == CountSigOps(code)

(* -1 is an error. *)
SigOpsForSpend(sigScript, code) ==
    LET parsed == parsePushes(sigScript)
    IN  IF ~IsPayToScriptHash(code) THEN CountSigOps(code)
        ELSE IF ~parsed.ok \/ parsed.pushes = <<>> THEN -1
        ELSE IF Hash160(Last(parsed.pushes)) # HashOf(code, 1) THEN -1
        ELSE CountSigOps(code) + CountSigOps(Last(parsed.pushes))
-----------------------------------------------------------------------------
(* What the pool asks of an input before it verifies it (mempool.go).  The *)
(* signatures of the model are low-S, and its keys compressed.             *)

(* The pool's own reader of pushes; Read finds the end of the script even  *)
(* when it is to read nothing, so that an empty push must not be the last. *)
parsePushOnlyScript(code) ==
    LET r == parsePushes(code)
    IN  [r EXCEPT !.ok = @ /\ (r.pushes # <<>> => Last(r.pushes) # <<>>)]

hasLowSSignature(sig) == Len(sig) = 3
isCompressed(pub) == Len(pub) = 1

(* Mutant: the dummy is taken for a signature. *)
checkMultiSigArgsLowSAll(args) == args # <<>> /\ \A i \in DOMAIN args : hasLowSSignature(args[i])

checkMultiSigArgsLowS(args) ==
    LET sigs == IF args # <<>> /\ args[1] = <<>> THEN Tail(args) ELSE args
    IN  sigs # <<>> /\ \A i \in DOMAIN sigs : hasLowSSignature(sigs[i])

checkStandardBareMultiSig(code) == IsPayToMultiSig(code) /\ Len(KeysIn(code)) <= 3

checkP2SHPolicy(pushes) ==
    LET redeem == Last(pushes)
        args == Front(pushes)
    IN  /\ pushes # <<>>
        /\ ValidateScriptStructure(redeem)
        /\ CASE IsPayToPubKeyHash(redeem) -> Len(args) = 2 /\ hasLowSSignature(args[1]) /\ isCompressed(args[2])
             [] IsPayToPubKey(redeem) -> Len(args) = 1 /\ hasLowSSignature(args[1])
             [] IsPayToMultiSig(redeem) -> checkStandardBareMultiSig(redeem) /\ checkMultiSigArgsLowS(args)
             [] OTHER -> FALSE

checkHybridInputPolicy(pushes) ==
    /\ Len(pushes) = 4
    /\ hasLowSSignature(pushes[1]) /\ isCompressed(pushes[3])
    /\ Len(pushes[2]) = 3 /\ Len(pushes[4]) = 1

(* For a public key's own output only the first push is looked at. *)
InputPolicy(sigScript, code) ==
    LET parsed == parsePushOnlyScript(sigScript)
        pushes == parsePushes(sigScript).pushes
    IN  CASE IsPayToPubKeyHash(code) -> parsed.ok /\ Len(pushes) = 2 /\ hasLowSSignature(pushes[1]) /\ isCompressed(pushes[2])
          [] IsPayToPubKey(code) -> pushes # <<>> /\ hasLowSSignature(pushes[1])
          [] IsPayToMultiSig(code) -> parsed.ok /\ checkMultiSigArgsLowS(pushes)
          [] IsPayToScriptHash(code) -> parsed.ok /\ checkP2SHPolicy(pushes)
          [] IsPayToHybrid(code) -> parsed.ok /\ checkHybridInputPolicy(pushes)
          [] OTHER -> TRUE
-----------------------------------------------------------------------------
(* A program is written and run, or an input's signature script is written. *)

PlainOutputs ==
    {P2PKH(Hash160(<<1>>)), P2PK(1),
     MultiSig(2, <<1, 2>>), MultiSig(1, <<2, 1>>), MultiSig(2, <<1, 3, 2>>), MultiSig(2, <<2, 1, 2>>)}
Redeems == PlainOutputs \cup {Hybrid(Hash160(<<1, 2>>))}
Outputs == Redeems \cup {P2SH(Hash160(r)) : r \in Redeems} \cup {<<OP_OTHER>>}

Items == {<<>>, <<1>>, <<2>>, Sig(1, 1, SigHashAll), Sig(2, 1, SigHashAll), Sig(1, 1, 0)}
Stacks == {<<Truth(a), Truth(~a)>> : a \in BOOLEAN}

Unwritten == [Machine(<<>>, <<>>) EXCEPT !.end = "written"]

WriteOpcode ==
    /\ vm.end = "written" /\ spend.script = <<>>
    /\ Len(vm.code) < MaxProgram
    /\ \E op \in Opcodes : vm' = [vm EXCEPT !.code = Append(@, op)]
    /\ UNCHANGED <<held, spend>>

EvalPushScript ==
    /\ vm.end = "written" /\ spend.script = <<>>
    /\ \E stack \in Stacks :
          vm' = IF ValidateScriptStructure(vm.code) THEN Machine(vm.code, stack) ELSE Fails(vm, "refused")
    /\ UNCHANGED <<held, spend>>

StepMachine ==
    /\ vm.end = "run"
    /\ vm' = Step(vm)
    /\ held' = IF Len(vm'.conds) > Len(vm.conds) /\ Last(vm'.conds) THEN held \cup {vm.pc} ELSE held
    /\ UNCHANGED spend

WritePush ==
    /\ spend.script # <<>>
    /\ Len(spend.pushes) < MaxPushes
    /\ ToSet(spend.pushes) \cap Redeems = {}
    /\ \E item \in Items : spend' = [spend EXCEPT !.pushes = Append(@, item)]
    /\ UNCHANGED <<vm, held>>

WriteRedeem ==
    /\ spend.script # <<>>
    /\ ToSet(spend.pushes) \cap Redeems = {}
    /\ \E r \in {MultiSig(2, <<1, 2>>)} \cup
               (IF IsPayToScriptHash(spend.script) THEN {Preimage(HashOf(spend.script, 1))} ELSE {}) :
          spend' = [spend EXCEPT !.pushes = Append(@, r)]
    /\ UNCHANGED <<vm, held>>

ScriptInit ==
    /\ vm = Unwritten /\ held = {}
    /\ spend \in [script : Outputs \cup {<<>>}, pushes : {<<>>}]

ScriptNext == WriteOpcode \/ EvalPushScript \/ StepMachine \/ WritePush \/ WriteRedeem

ScriptSpec == ScriptInit /\ [][ScriptNext]_scriptvars
-----------------------------------------------------------------------------
(* Properties *)

(* Where the opcodes of a program begin. *)
OpcodesOf(code) ==
    FoldLeft(LAMBDA r, i : IF i < r.next THEN r
                 ELSE [next |-> IF IsPush(code[i]) THEN PushAt(code, i).next ELSE i + 1, at |-> r.at \cup {i}],
             [next |-> 1, at |-> {}], [i \in DOMAIN code |-> i]).at

(* Every conditional open at pc has taken its branch an odd number of times. *)
Taken(code, pc) ==
    LET at == {i \in OpcodesOf(code) : i < pc}
        ifs == {i \in at : code[i] \in {OP_IF, OP_NOTIF}}
        endifs == {i \in at : code[i] = OP_ENDIF}
        Depth(i, j) == Cardinality(ifs \cap i .. j - 1) - Cardinality(endifs \cap i .. j - 1)
        open == {i \in ifs : \A j \in i + 1 .. pc : Depth(i, j) >= 1}
        elses(i) == {j \in at : j > i /\ code[j] = OP_ELSE /\ Depth(i, j) = 1}
    IN  \A i \in open : (i \in held) = (Cardinality(elses(i)) % 2 = 0)

(* An opcode is executed exactly when each conditional around it holds, or does not   *)
(* and an ELSE of its own has turned it round, however they are nested                *)
(* (EvalPushScriptWithHooks).                                                         *)
ConditionalsExact ==
    vm.end = "run" /\ OP_ELSE \in ToSet(vm.code) => (Active(vm.conds) <=> Taken(vm.code, vm.pc))

(* A script the structure check lets pass is never found malformed when it is run,    *)
(* and does not end inside a conditional: the two scans of the bytes agree            *)
(* (ValidateScriptStructure is all that policy asks of a redeem script).              *)
StructureSuffices == vm.end # "malformed" /\ (vm.end = "done" => vm.conds = <<>>)

(* Arguments survive being written and read, as verifyP2SH does with those before the *)
(* redeem script, at every limit between the forms of a push.                         *)
PushesRoundTrip ==
    parsePushes(encodePushes(spend.pushes)) = [ok |-> TRUE, pushes |-> spend.pushes]

Accepted == VerifyInput(encodePushes(spend.pushes), spend.script)

(* The pool refuses no input the chain would accept, although it reads the pushes and *)
(* tells the arguments of a redeem script apart with code of its own: an owner who    *)
(* can spend an output in a block can also relay the spend (validateTransaction).     *)
PolicyAdmits ==
    spend.script # <<>> /\ Accepted => InputPolicy(encodePushes(spend.pushes), spend.script)

(* The script whose signatures count, and how many keys of it have signed the input. *)
Lock == IF IsPayToScriptHash(spend.script) THEN Preimage(HashOf(spend.script, 1)) ELSE spend.script
SignedBy(key) == key \notin Malformed /\ Sig(key, 1, SigHashAll) \in ToSet(spend.pushes)

(* No input is accepted unless as many of the output's keys as it asks for have       *)
(* signed it: one signature does not count for two keys (verifyMultiSig).             *)
OwnersSigned ==
    spend.script # <<>> /\ Accepted =>
        CASE IsPayToMultiSig(Lock) ->
                 Cardinality({i \in DOMAIN KeysIn(Lock) : SignedBy(KeysIn(Lock)[i])}) >= Required(Lock)
          [] OTHER -> \E k \in Key : SignedBy(k) /\ Lock \in {P2PKH(Hash160(<<k>>)), P2PK(k), Hybrid(Hash160(<<k, 2>>))}

(* A multisignature is accepted exactly if its signatures can be given to different   *)
(* keys in the keys' order, all of them, and there are enough: taking the first key    *)
(* that fits never misses a way, with repeated and unparsable keys (verifyMultiSig).   *)
MultiSigExact ==
    spend.script # <<>> /\ IsPayToMultiSig(Lock) =>
        LET keys == KeysIn(Lock)
            args == IF IsPayToScriptHash(spend.script) /\ spend.pushes # <<>>
                    THEN Front(spend.pushes) ELSE spend.pushes
            sigs == IF args # <<>> /\ args[1] = <<>> THEN Tail(args) ELSE args
            ways == {w \in [DOMAIN sigs -> DOMAIN keys] : \A i, j \in DOMAIN sigs : i < j => w[i] < w[j]}
            revealed == IsPayToScriptHash(spend.script) => Last(spend.pushes) = Lock
        IN  Accepted <=>
              /\ spend.pushes # <<>> /\ revealed /\ Len(sigs) >= Required(Lock)
              /\ \E w \in ways : \A i \in DOMAIN sigs :
                    keys[w[i]] \notin Malformed /\ sigs[i] = Sig(keys[w[i]], 1, SigHashAll)

(* The machine on the output's script, and then on the redeem script *)
Run(code, stack) ==
    FoldLeft(LAMBDA m, i : Step(m), Machine(code, stack), [i \in 1 .. Len(code) + 1 |-> i])
Leaves(m, stack) == m.end = "done" /\ m.stack = stack
MachineAccepts ==
    IF IsPayToScriptHash(spend.script)
    THEN /\ Leaves(Run(spend.script, <<Last(spend.pushes)>>), <<Truth(TRUE)>>)
         /\ Leaves(Run(Lock, Front(spend.pushes)), <<Truth(TRUE)>>)
    ELSE Leaves(Run(spend.script, spend.pushes), <<Truth(TRUE)>>)

(* What the templates accept and what the machine makes of the same script are the    *)
(* same, for inputs with the pushes a template asks for and no more: as many          *)
(* signatures as required, after a dummy (VerifyInput, EvalPushScriptWithHooks).      *)
TemplatesAgree ==
    LET pushes == IF IsPayToScriptHash(spend.script) THEN Front(spend.pushes) ELSE spend.pushes
        exact == CASE IsPayToMultiSig(Lock) -> Len(pushes) = Required(Lock) + 1 /\ pushes[1] = <<>>
                   [] IsPayToPubKeyHash(Lock) -> Len(pushes) = 2
                   [] IsPayToPubKey(Lock) -> Len(pushes) = 1
                   [] OTHER -> FALSE
    IN  spend.script # <<>> /\ spend.pushes # <<>> => (exact => (Accepted <=> MachineAccepts))

(* Every signature check an accepted input costs is counted towards the limits of a   *)
(* transaction and a block, behind a script hash too (SigOpsForSpend).                *)
SigOpsCounted ==
    spend.script # <<>> /\ Accepted =>
        SigOpsForSpend(encodePushes(spend.pushes), spend.script) >=
            IF IsPayToMultiSig(Lock) THEN Len(KeysIn(Lock)) ELSE 1
=============================================================================
