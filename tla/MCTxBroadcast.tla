---------------------------- MODULE MCTxBroadcast ----------------------------
(***************************************************************************)
(* A small instance of TxBroadcast: two transactions, one of them from the *)
(* journal, when exactly one of the two forks keeps its lock across a call.*)
(***************************************************************************)
EXTENDS TxBroadcast

CONSTANTS t1, t2

MCTxs == {t1, t2}
MCJournal == <<t1>>

OneLock == {d \in [waitLocked : BOOLEAN, callbackLocked : BOOLEAN] :
                d.waitLocked # d.callbackLocked}
=============================================================================
