---------------------------- MODULE MCValuation ----------------------------
(***************************************************************************)
(* Two instruments in two accounts, three days of rates with a weekend in  *)
(* the middle, and a catalog of two instruments.                           *)
(***************************************************************************)
EXTENDS Valuation, TLC

CONSTANTS stock, fund

MCInstruments == {stock, fund}

\* No ledger yet; two units of the fund in the first account, or one in each.
MCOpening ==
    {[p \in Accounts \X MCInstruments |-> IF p[2] = fund THEN units[p[1]] ELSE <<>>] :
        units \in {<< <<>>, <<>> >>, << <<0, 0>>, <<>> >>, << <<0>>, <<0>> >>}}

\* Concurrent requests differ in nothing but their names.
RequestSymmetry == Permutations(Requests)
=============================================================================
