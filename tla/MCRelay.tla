------------------------------ MODULE MCRelay -------------------------------
(***************************************************************************)
(* Two concurrent invocations; alice signed two requests for one nonce and *)
(* bob signed one.                                                         *)
(***************************************************************************)
EXTENDS Relay

CONSTANTS w1, w2, alice, bob, a, b, c

MCUserOf == [r \in Requests |-> IF r = c THEN bob ELSE alice]
MCNonceOf == [r \in Requests |-> 0]
=============================================================================
