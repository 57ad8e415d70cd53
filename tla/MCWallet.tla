------------------------------- MODULE MCWallet -------------------------------
(***********************************************************************************)
(* The wallet's keys, its spending and the application's journal in one run; the   *)
(* initial state says which of them moves.  Keys: one caller besides the unlock    *)
(* timers, and a backup with one key of its own seed.  Spending: two senders after *)
(* one mature coin and what is paid to the wallet meanwhile.                       *)
(***********************************************************************************)
EXTENDS Wallet, Spending, TLC

CONSTANTS c1, p1, p2, s1, r1, h1, m1, none, t1, t2, pay, back, gift

MCBackups == {[keys |-> {m1}, seed |-> s1, next |-> 0]}

(* Either the callers unlock with a timeout or they change the passphrase. *)
OneAtATime == {[timed |-> TRUE, change |-> FALSE], [timed |-> FALSE, change |-> TRUE]}

A == <<"A", 0>>
Coin(i, a, v, m) == [tx |-> 0, vout |-> i, addr |-> a, value |-> v, mature |-> m]
Coins == {Coin(101, A, 6, TRUE), Coin(102, A, 4, FALSE)}
Asked ==
    t1 :> {SendToAddress({}, 3, 0), SendToAddress({A}, 5, 2)}
    @@ t2 :> {Sweep(A, 0), SplitCoins(A, 3, 2, 2), SendTokenMarkers(A, 1, 0)}

(* A payment with change, a payment to an own address, and one that is received. *)
Kinds == pay :> [own |-> TRUE, back |-> FALSE, change |-> TRUE]
         @@ back :> [own |-> TRUE, back |-> TRUE, change |-> TRUE]
         @@ gift :> [own |-> FALSE, back |-> TRUE, change |-> FALSE]

VARIABLE part

MCInit == part \in {"keys", "send", "journal"} /\ Init /\ SendInit /\ JournalInit

MCNext ==
    /\ UNCHANGED part
    /\ \/ part = "keys" /\ Next /\ UNCHANGED <<sendvars, jvars>>
       \/ part = "send" /\ SendNext /\ UNCHANGED <<vars, jvars>>
       \/ part = "journal" /\ JournalNext /\ UNCHANGED <<vars, sendvars>>

(* The actions that fairness is about are disabled while another part moves. *)
MCSpec == MCInit /\ [][MCNext]_<<part, vars, sendvars, jvars>> /\ Fairness
=============================================================================
