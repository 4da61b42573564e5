--------------------------- MODULE MCLedgerReplay ---------------------------
(***************************************************************************)
(* Instance of LedgerReplay for TLC.                                        *)
(***************************************************************************)
EXTENDS LedgerReplay

CONSTANTS a, b, m1, m2, m3

MCHomeOf == (m1 :> a) @@ (m2 :> a) @@ (m3 :> b)

OldRow(t, at) ==
    [txn |-> t, trace |-> 0, ns |-> a, phase |-> "AUDITED", at |-> at,
     targets |-> {}, memories |-> {}, links |-> {}, prev |-> <<>>]

\* The second row was written after the clock had been set back.
MCOldRows == <<OldRow(-2, -1), OldRow(-1, -2)>>
=============================================================================
