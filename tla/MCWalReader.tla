---------------------------- MODULE MCWalReader ----------------------------
(* A small instance of WalReader: one table t that is altered between its  *)
(* usable shapes a and b and loses its key in shape x.                     *)
EXTENDS WalReader

CONSTANTS t, a, b, x

Row(shape) == [table |-> t, shape |-> shape]
Tx(rows) == [published |-> TRUE, rows |-> rows]
Other == [published |-> FALSE, rows |-> <<>>]

\* Two rows around an ALTER TABLE, a single row, a row without a usable key,
\* an empty transaction (sent by PostgreSQL 14), and somebody else's WAL.
SomeRecords ==
  { Tx(<<Row(a), Row(b)>>), Tx(<<Row(a)>>), Tx(<<Row(x), Row(b)>>), Tx(<<>>),
    Other }
=============================================================================
