-------------------------- MODULE MCMinerSupervisor --------------------------
(***************************************************************************)
(* Two transactions: t2 spends t1, which spends a coinbase that matures at *)
(* height 2.  A block has room for one of them and t2 is not final yet, so *)
(* a template with t1 alone connects, one with both is too large, and one  *)
(* with t2 alone, where t1 is confirmed, is too early.                     *)
(***************************************************************************)
EXTENDS MinerSupervisor, TLC

CONSTANTS t1, t2, coin

MCParentTx == [t \in Tx |-> IF t = t1 THEN coin ELSE t1]
MCMatureAt == [t \in Tx |-> IF t = t1 THEN 2 ELSE 0]
MCFinalAt == [t \in Tx |-> IF t = t2 THEN MaxTip + 1 ELSE 0]
MCEach == [t \in Tx |-> 1]
=============================================================================
