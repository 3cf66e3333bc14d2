------------------------- MODULE MCVerificationPass -------------------------
(* VerificationPass for TLC: a soak on either side of the converging entries. *)
EXTENDS VerificationPass

MCKind == <<"soak", "converge", "assert", "safeguard_hold", "converge", "soak">>
MCWindow == <<4, 2, 2, 2, 2, 2>>
MCPollInterval == <<2, 1, 1, 1, 1, 1>>
MCOverrides == {NoBudget, 0, 1, 3, 6}
=============================================================================
