----------------------------- MODULE MCCheckTx -----------------------------
(***************************************************************************)
(* Small instances of CheckTx: two accounts and one special address.       *)
(***************************************************************************)
EXTENDS CheckTx

CONSTANTS a, b, c

MCAccounts == {a, b, c}
MCContracts == {c}
MCInitBalance == [x \in MCAccounts |-> IF x = a THEN 3 ELSE IF x = b THEN 1 ELSE 0]

SendTx(kind, from, payer, to, nonce, cost, value) ==
    [kind |-> kind, from |-> from, payer |-> payer, to |-> to,
     nonce |-> nonce, cost |-> cost, value |-> value]

\* Two transactions compete for a's first nonce, one follows; of b's three, one is
\* paid for by a, the others are plain transfers, which are not debited: to the
\* special address and to a.
MCTxs ==
    {SendTx("create", a, a, c, 0, 2, 0), SendTx("auth", a, a, c, 0, 1, 1),
     SendTx("mint", a, a, c, 1, 1, 1), SendTx("relay", b, a, c, 0, 1, 0),
     SendTx("transfer", b, b, c, 0, 1, 1), SendTx("transfer", b, b, a, 1, 1, 1)}
=============================================================================
