------------------------------ MODULE MCPolicy ------------------------------
(***************************************************************************)
(* Who sets prices, policies and applications, on two chains and without   *)
(* executions: deployment, DAOs, ceilings, activation, closing, publishing *)
(* and withdrawing, emergency switches, and deeds that are sold meanwhile. *)
(***************************************************************************)
EXTENDS Authority, TLC

CONSTANTS alice, bob, c1, c2, app1, app2, dao1, dao2

MCBalance == [a \in Account |-> 0]
MCOwner == [t \in Chain |-> alice]
MCAppChain == [a \in App |-> c1]
MCDao == [t \in Chain |-> IF t = c1 THEN dao1 ELSE dao2]

PolicyNext ==
  \E c \in Caller :
    /\ \/ PolicyCall(c) \/ RegistryCall(c) \/ EmergencyCall(c)
       \/ /\ \E t \in Chain, to \in User : TransferDeed(c, t, to)
          /\ UNCHANGED <<treasury, policy, registry, emergency, money, execution>>
    /\ Record(c)

PolicySpec == AInit /\ [][PolicyNext]_<<vars, history>>
=============================================================================
