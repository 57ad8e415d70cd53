---------------------------- MODULE MCBlockchain ----------------------------
(***************************************************************************)
(* The chain and its rules, one part at a time; the initial state says     *)
(* which: block processing with parents delivered before their children,   *)
(* or in any order; header rules; the unspent outputs; scripts.            *)
(*                                                                         *)
(* Blocks form three branches from the first block:                        *)
(*   a1 - a2 - a3     the chain that is usually seen first                 *)
(*   b1 - b2 - b3     another one; bx is an invalid block on b2            *)
(*        b1 - c2     a sibling of b2, heavier than b2                     *)
(* In the whole tree a3, b3 and c2 have the same, greatest work, so that a *)
(* branch that was left before it was complete need not win in the end.    *)
(***************************************************************************)
EXTENDS Blockchain, HeaderRules, BlockRules, ScriptEngine, TLC

CONSTANTS g, a1, a2, a3, b1, b2, b3, bx, c2, none

Tree == g :> none @@ a1 :> g @@ a2 :> a1 @@ a3 :> a2
        @@ b1 :> g @@ b2 :> b1 @@ b3 :> b2 @@ bx :> b2 @@ c2 :> b1
OwnWork == [b \in DOMAIN Tree |-> IF b \in {c2, bx} THEN 2 ELSE 1]

MCParent == [b \in Block |-> Tree[b]]
MCHeight[b \in Block] == IF b = g THEN 0 ELSE MCHeight[Tree[b]] + 1
MCChainTo[b \in Block] == IF b = g THEN {g} ELSE MCChainTo[Tree[b]] \cup {b}
MCWork[b \in Block] == OwnWork[b] + IF b = g THEN 0 ELSE MCWork[Tree[b]]
MCValid == Block \ {bx}

AllBlocks == DOMAIN Tree

(* 11 to 13 pay and are spent in the block that makes them; 14 and 11 conflict,     *)
(* 15 names an output twice; the amounts of 16 wrap to 4, 17 has a negative one; 18 *)
(* and 20 have lock times; 19 is not signed; 14, 20 and 21 have many operations.    *)
T(ins, outs) == [ins |-> ins, outs |-> outs, lock |-> 0, final |-> FALSE, signed |-> TRUE, ops |-> 1]
Transactions ==
     11 :> T(<<<<1, 1>>>>, <<3, 4>>)
  @@ 12 :> T(<<<<11, 1>>>>, <<3>>)
  @@ 13 :> T(<<<<11, 2>>, <<11, 1>>>>, <<7>>)
  @@ 14 :> [T(<<<<1, 1>>>>, <<8>>) EXCEPT !.ops = 2]
  @@ 15 :> T(<<<<11, 1>>, <<11, 1>>>>, <<6>>)
  @@ 16 :> T(<<<<11, 2>>>>, <<20, 20, 20, 8>>)
  @@ 17 :> T(<<<<12, 1>>>>, <<-1, 4>>)
  @@ 18 :> [T(<<<<11, 2>>>>, <<1>>) EXCEPT !.lock = 3]
  @@ 19 :> [T(<<<<2, 1>>>>, <<4>>) EXCEPT !.signed = FALSE]
  @@ 20 :> [T(<<<<2, 1>>>>, <<4>>) EXCEPT !.lock = 9, !.final = TRUE, !.ops = 2]
  @@ 21 :> [T(<<<<2, 1>>>>, <<4>>) EXCEPT !.ops = 3]
Ids == DOMAIN Transactions

(* Programs are written with a push of one number, conditionals and a duplication. *)
Control == {1, OP_IF, OP_NOTIF, OP_ELSE, OP_ENDIF, OP_DUP}

VARIABLE part

chainvars == <<vars, hdrvars, rulevars, scriptvars>>

(* Scripts have several initial states; the other parts begin with the one that *)
(* has no input to spend.                                                       *)
MCInit ==
    /\ part \in {"inorder", "any", "headers", "outputs", "scripts"}
    /\ Init /\ HeaderInit /\ BlockRulesInit /\ ScriptInit
    /\ part # "scripts" => spend.script = <<>>

InOrder(b) == part = "inorder" /\ Parent[b] \in stored \cup sideBlocks

MCNext ==
    /\ UNCHANGED part
    /\ \/ /\ \/ part = "inorder" /\ ((\E b \in Block : (InOrder(b) /\ ProcessBlock(b)) \/ ConnectBlock(b))
                                      \/ Advance \/ Crash)
             \/ part = "any" /\ Next
          /\ UNCHANGED <<hdrvars, rulevars, scriptvars>>
       \/ part = "headers" /\ HeaderNext /\ UNCHANGED <<vars, rulevars, scriptvars>>
       \/ part = "outputs" /\ BlockRulesNext /\ UNCHANGED <<vars, hdrvars, scriptvars>>
       \/ part = "scripts" /\ ScriptNext /\ UNCHANGED <<vars, hdrvars, rulevars>>

(* The fairness of FairSpec, where blocks arrive in order. *)
MCSpec ==
    /\ MCInit
    /\ [][MCNext]_<<part, chainvars>>
    /\ WF_vars(part = "inorder" /\ Advance)
    /\ \A b \in Block : SF_vars(InOrder(b) /\ ProcessBlock(b))

(* What the rules compute from bits, times, heights and scripts is what it is meant to  *)
(* be: the target follows the window and is never rounded to an easier one; the node    *)
(* reports the supply that the subsidies of the blocks add up to; whoever can spend an  *)
(* output is who its script says, in a block and in the pool: the several readers of    *)
(* pushes, conditionals, templates and signatures agree.                                *)
RulesExact ==
    /\ part = "headers" => CompactRoundsDown /\ TargetFollowsWindow
    /\ part = "outputs" => SupplyReported
    /\ part = "scripts" =>
        /\ ConditionalsExact /\ StructureSuffices /\ PushesRoundTrip
        /\ OwnersSigned /\ MultiSigExact /\ TemplatesAgree /\ SigOpsCounted /\ PolicyAdmits

(* For parents delivered before their children: a call that reorganises makes the      *)
(* heavier branch active or restores the tip, however far it got before a block of the *)
(* branch failed to connect, and between calls no side branch that could be attached   *)
(* outweighs the active chain.                                                         *)
InOrderReorganises ==
    /\ [][part = "inorder" => CallEndsWhole]_vars
    /\ [](part = "inorder" => NoBetterSideBranch)

(* The valid chain with the most work is active in the end, every block being offered  *)
(* again and again to a node that does not crash, and again after every attempt to     *)
(* leave it for an invalid branch with even more work.                                 *)
InOrderConverges ==
    [](part = "inorder" /\ pc # "down") => <>[](pc = "idle" => tip \in Best)
=============================================================================
