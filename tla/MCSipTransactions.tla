------------------------- MODULE MCSipTransactions -------------------------
(* Small instance of SipTransactions.                                      *)
EXTENDS SipTransactions, TLC

CONSTANTS r1, r2, r3, r4, s1, s2, s3

\* No contact (or none that is new), two new servers.
MCContacts == {<<>>, <<s2, s3>>}

Symmetry == Permutations(Request)
=============================================================================
