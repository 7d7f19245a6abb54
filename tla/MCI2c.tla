--------------------------------- MODULE MCI2c --------------------------------
(* I2c for TLC: writes and a read of up to two bytes, alone, combined,      *)
(* refused (a read that is not last), an empty message and an empty array;  *)
(* dividers at both limits, odd and even, and the one that wraps to 0.      *)
EXTENDS I2c

W(n) == [rd |-> FALSE, len |-> n]
R(n) == [rd |-> TRUE, len |-> n]
MCTransfers ==
    {<<>>, <<W(1)>>, <<W(1), R(2)>>, <<R(1), W(1)>>, <<W(0), R(1)>>}
===============================================================================
