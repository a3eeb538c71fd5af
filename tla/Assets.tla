------------------------------- MODULE Assets -------------------------------
(***************************************************************************)
(* The two assets everything else moves: VOID, the fee token (VoidTokenV9  *)
(* and its V11 form), and the deeds, one NFT per chain (VoidChainDeed).    *)
(*                                                                         *)
(* The runtime and the paymaster move a holder's VOID with the token's     *)
(* protocolTransferFrom, which asks for no allowance, so an allowance      *)
(* never stands in the way here: a transfer succeeds exactly when the      *)
(* balance covers it.  Approvals of a deed are likewise the holder's own   *)
(* business: the holder, or whom the holder let act, moves it.             *)
(***************************************************************************)
EXTENDS Integers, FiniteSets

CONSTANTS
  User,           \* wallets and contracts outside the protocol
  Runtime,        \* address of the chainapp runtime
  Treasury,       \* address of the treasury
  Forwarder,      \* address of the paymaster, the runtime's only forwarder
  Chain,          \* deed ids; each deed is a chain
  None,           \* the zero address, and a mapping entry never written
  InitialBalance, \* how the VOID supply is distributed
  InitialOwner,   \* who holds each deed
  Amount          \* BOUND: the VOID amounts callers pass

Account == User \cup {Runtime, Treasury, Forwarder}

ASSUME AccountAssumption ==
  /\ Runtime \notin User /\ Treasury \notin User /\ Forwarder \notin User
  /\ Runtime # Treasury /\ Runtime # Forwarder /\ Treasury # Forwarder
  /\ None \notin Account /\ None \notin Chain
  /\ IsFiniteSet(User) /\ IsFiniteSet(Chain)

ASSUME InitialAssumption ==
  /\ InitialBalance \in [Account -> Nat]
  /\ InitialBalance[Runtime] = 0 /\ InitialBalance[Treasury] = 0
  /\ InitialOwner \in [Chain -> User]
  /\ Amount \subseteq Nat

VARIABLES
  bal,    \* VOID balance of each account
  owner   \* deed.ownerOf

assets == <<bal, owner>>

AssetsTypeOK ==
  /\ bal \in [Account -> Nat]
  /\ owner \in [Chain -> User]

AssetsInit ==
  /\ bal = InitialBalance
  /\ owner = InitialOwner

\* VOID changes hands.  A call that asks for more than the balance reverts.
Move(from, to, amount) ==
  /\ amount <= bal[from]
  /\ bal' = [[bal EXCEPT ![from] = @ - amount] EXCEPT ![to] = @ + amount]

-----------------------------------------------------------------------------
\* A wallet, or the paymaster, sends VOID of its own: also to the runtime or
\* the treasury, whose books do not notice.
Transfer(c, to, amount) ==
  /\ c \in User \cup {Forwarder}
  /\ Move(c, to, amount)
  /\ UNCHANGED owner

\* The holder sells or gives away a deed.
TransferDeed(c, t, to) ==
  /\ owner[t] = c
  /\ owner' = [owner EXCEPT ![t] = to]
  /\ UNCHANGED bal

AssetsCall(c) ==
  \/ \E to \in Account, amount \in Amount : Transfer(c, to, amount)
  \/ \E t \in Chain, to \in User : TransferDeed(c, t, to)
=============================================================================
