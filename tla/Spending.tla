-------------------------------- MODULE Spending --------------------------------
(***************************************************************************)
(* What the wallet's sends and the application's journal of them promise   *)
(* together.  The two share no state: the journal is told the identifier   *)
(* and the bytes of a send that was accepted, and asks the pool and the    *)
(* chain for the rest.                                                     *)
(***************************************************************************)
EXTENDS WalletSend, WalletJournal

(* Sends neither lose nor invent money, spend unconfirmed outputs only of what        *)
(* descends from the wallet's own, pay the fee that was estimated, and are listed     *)
(* once and in a state from which they can be sent again.                             *)
SpendingSound ==
    /\ FundsConserved /\ ChainsOnOwn /\ EstimateSuffices
    /\ RetryPossible /\ ConfirmedOnce
=============================================================================
