--------------------------- MODULE MCBatchWire ---------------------------
(***************************************************************************)
(* Model-checking instance of BatchWire.  Strings mix an ASCII character   *)
(* (1 UTF-8 byte), U+00E9 (2 bytes) and U+20AC (3 bytes), and include the  *)
(* empty string.                                                           *)
(***************************************************************************)
EXTENDS BatchWire

CONSTANTS garbage

MCKeys == {<<>>, <<97>>, <<233, 8364>>}
MCValues == {<<>>, <<8364, 97>>}

Ins(k, v) == [type |-> "insert", key |-> k, value |-> v]
Rem(k) == [type |-> "remove", key |-> k, value |-> <<>>]

\* insert and remove operations over every key and value.
ValidOps == {Ins(k, v) : k \in MCKeys, v \in MCValues} \cup {Rem(k) : k \in MCKeys}

\* Arrays of up to three valid operations, empty included.
MCBatches == {<<>>} \cup {<<o>> : o \in ValidOps} \cup {<<o, p>> : o, p \in ValidOps}
               \cup {<<o, p, q>> : o, p, q \in ValidOps}

\* The same, plus an operation whose type is misspelt.
MCBadBatches ==
    MCBatches \cup {<<[type |-> "other", key |-> <<97>>, value |-> <<>>], o>> : o \in ValidOps}
===========================================================================
