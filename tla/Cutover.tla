------------------------------ MODULE Cutover -------------------------------
(***************************************************************************)
(* The staged releases (script/deploy-testnet-v10.ts and                   *)
(* script/deploy-testnet-v11.ts): a script that runs a list of             *)
(* transactions from one account, each under a label.  What a label sent   *)
(* is saved in a file after the node took it; a rerun starts at the top,   *)
(* waits for the receipt of what the file names and sends the rest.        *)
(* A second script lists the two deeds that moved with the market          *)
(* (script/finalize-testnet-v10.ts, script/finalize-testnet-v11.ts): it    *)
(* looks at the contract for what is done, and saves after the receipt.    *)
(* Then V11 is audited (script/audit-testnet-v11.ts), and the site shows   *)
(* its own reading of the roles (web/lib/security-state.ts).               *)
(*                                                                         *)
(* The script may die at any point, so also between the sending and the    *)
(* saving, and a transaction may revert for reasons of its own (gas).      *)
(*                                                                         *)
(* A step states what the contract it calls requires: needs is what must   *)
(* be there, takes what must be there and is used up - a role the account  *)
(* gives away, a setter that works once - and gives what it leaves.        *)
(* Abstracted: a loop of equal transactions (mints, names, owners, DAOs)   *)
(* is one step, and so are setters of one contract that follow each other. *)
(***************************************************************************)
EXTENDS Naturals, Sequences, FiniteSets

CONSTANT MaxMishaps    \* bound: crashes and unforeseen reverts together

ASSUME CutoverAssumption == MaxMishaps \in Nat

VARIABLES
  plan,       \* the release that is staged
  facts,      \* the state of the contracts
  sent,       \* the transactions of the account, by nonce
  steps,      \* the file: for each step the transaction saved, or 0
  position,   \* the step the script is at; 0 when it is not running
  unsaved,    \* the script has sent and not saved yet
  dex,        \* whether the DEX has been deployed against the staged core
  accepted,   \* whether the audit has passed
  mishaps

cutoverVars == <<plan, facts, sent, steps, position, unsaved, dex, accepted, mishaps>>

-----------------------------------------------------------------------------
(* The plans. *)

Send(label, needs, takes, gives) ==
  [label |-> label, needs |-> needs, takes |-> takes, gives |-> gives]

\* A rerun without the DEX ends here.
Gate == Send("dex", {}, {}, {})

\* The contracts of both releases, in the order of their constructors.
Core == <<
  Send("timelock", {}, {}, {"timelock"}),
  Send("escrow", {}, {}, {"escrow", "market unset"}),
  Send("token", {"escrow"}, {}, {"token", "supply in escrow", "operators open"}),
  Send("deed", {}, {}, {"deed", "minter", "unminted"}),
  Send("vaults", {"timelock"}, {}, {"vaults"}),
  Send("pool", {"token"}, {}, {"pool", "controller unset"}),
  Send("oracle", {"pool"}, {}, {"oracle", "unobserved"}),
  Send("treasury", {"deed", "token"}, {}, {"treasury", "treasury governed"}),
  Send("runtime", {"deed", "token", "treasury"}, {},
       {"runtime", "forwarder unset", "factory unset", "daos unset"}),
  Send("paymaster", {"token", "runtime", "oracle"}, {},
       {"paymaster", "paymaster governed", "books unset"}),
  Send("appFactory", {"runtime"}, {}, {"appFactory"}) >>

\* The two contracts of the DAOs, and the DAOs.
DaoFactory == Send("daoFactory", {"runtime", "token", "deed", "escrow", "pool"}, {}, {"daoFactory"})
SetDaoFactory == Send("setDaoFactoryOnce", {"daoFactory"}, {"daos unset"}, {"daos set"})
CreateDaos == Send("createMany", {"daos set"}, {}, {"daos"})

Wiring == <<
  Send("setForwarderOnce", {"paymaster"}, {"forwarder unset"}, {"forwarder"}),
  Send("setAppFactoryOnce", {"appFactory"}, {"factory unset"}, {"factory set"}),
  Send("freezeProtocolOperators", {"runtime", "paymaster"}, {"operators open"}, {}),
  Send("setAuthorizedSettler", {"runtime", "treasury governed"}, {}, {"settler"}),
  Send("setLimits", {"pool", "paymaster governed"}, {}, {"limits"}) >>

DeedSteps == <<
  Send("mint", {"minter"}, {"unminted"}, {"minted", "deeds held"}),
  Send("setIdentity", {"deeds held"}, {}, {}),
  Send("publish", {"appFactory", "factory set", "escrow"}, {}, {"market"}),
  Send("transferFrom", {"market"}, {"deeds held"},
       {"owners", "deed 4 donated", "deed 5 donated"}) >>

\* The mint checks the owners, the escrow the whole supply; the pool is funded
\* through the mint, with the VOID of the escrow; the oracle needs a price.
Genesis == <<
  Send("mintContract", {"deed", "escrow", "pool", "paymaster", "owners"}, {},
       {"mintContract", "unfunded"}),
  Send("setGenesisControllerOnce", {"mintContract"}, {"controller unset"}, {"controller"}),
  Send("configureMigrationOnce", {"mintContract", "vaults", "pool"}, {"supply in escrow"},
       {"distributed"}),
  Send("setNftAmmOnce", {"distributed", "market"}, {"market unset"}, {}),
  Send("transferMinter", {"mintContract"}, {"minter"}, {}),
  Send("fundMigration", {"controller", "distributed"}, {"unfunded"}, {"liquidity"}),
  Send("fundEth", {"paymaster"}, {}, {}) >>

\* The VOID of the old paymaster that neither of its accounts claims is excess.
ImportAccounting ==
  Send("initializeMigrationAccounting", {"distributed", "paymaster governed"}, {"books unset"},
       {"excess"})
SweepLegacyExcess == Send("sweepUnaccounted", {"vaults", "paymaster governed"}, {"excess"}, {})
Bootstrap == Send("bootstrap", {"liquidity"}, {"unobserved"}, {"price"})

Handover == <<
  Send("transferGovernance", {"timelock"}, {"treasury governed"}, {}),
  Send("transferGovernor", {"timelock"}, {"paymaster governed"}, {}) >>

PlanV10 ==
  Core \o <<DaoFactory, SetDaoFactory>> \o Wiring \o <<CreateDaos>> \o DeedSteps \o Genesis
       \o <<Bootstrap>> \o Handover

PlanV11 ==
  Core \o Wiring \o DeedSteps \o Genesis \o <<ImportAccounting, SweepLegacyExcess, Bootstrap, Gate>>
       \o <<DaoFactory, SetDaoFactory, CreateDaos>> \o Handover

\* Through the paymaster, which wants a price and the account's own VOID.  The
\* update of the oracle before them is one of Keepers' UpdateByAnybody.
Finalization == <<
  Send("acceptDonation:4", {"price", "forwarder", "distributed"}, {"deed 4 donated"},
       {"deed 4 listed"}),
  Send("acceptDonation:5", {"price", "forwarder", "distributed"}, {"deed 5 donated"},
       {"deed 5 listed"}) >>

-----------------------------------------------------------------------------

Stage == IF plan = "v10" THEN PlanV10 ELSE PlanV11
Plan == Stage \o Finalization
IsGate(i) == Plan[i].label = "dex"
IsFinal(i) == i > Len(Stage)

Running == position # 0

Legal(s) == s.needs \cup s.takes \subseteq facts

CutoverInit ==
  /\ plan \in {"v10", "v11"}
  /\ facts = {} /\ sent = <<>>
  /\ steps = [i \in DOMAIN Plan |-> 0]
  /\ position = 0 /\ unsaved = FALSE /\ dex = FALSE /\ accepted = FALSE /\ mishaps = 0

(* The operator starts one of the scripts, whatever has been done so far. *)
Run ==
  /\ ~Running /\ position' \in {1, Len(Stage) + 1}
  /\ UNCHANGED <<plan, facts, sent, steps, unsaved, dex, accepted, mishaps>>

\* Seeded defect: a label in the file is taken for done.
CompletedUnchecked(i) == steps[i] # 0

\* The label is in the file and its receipt says success; inventoryIndex of
\* the market is not zero.
Completed(i) ==
  IF IsFinal(i) THEN Plan[i].gives \subseteq facts
  ELSE steps[i] # 0 /\ sent[steps[i]].outcome = "success"

Advance ==
  /\ Running /\ ~unsaved
  /\ \/ Completed(position)
     \/ IsGate(position) /\ dex
  /\ position' = IF position \in {Len(Stage), Len(Plan)} THEN 0 ELSE position + 1
  /\ UNCHANGED <<plan, facts, sent, steps, unsaved, dex, accepted, mishaps>>

(* wallet.sendTransaction estimates the gas first, which fails where the   *)
(* call would revert as things stand.                                      *)
SendTransaction ==
  /\ Running /\ ~unsaved /\ ~IsGate(position)
  /\ steps[position] = 0 /\ ~Completed(position)
  /\ Legal(Plan[position])
  /\ sent' = Append(sent, [step |-> position, outcome |-> "pending"])
  /\ unsaved' = TRUE
  /\ UNCHANGED <<plan, facts, steps, position, dex, accepted, mishaps>>

(* At once, or, by the second script, after a receipt of success. *)
Save ==
  /\ unsaved
  /\ IsFinal(position) => sent[Len(sent)].outcome = "success"
  /\ steps' = [steps EXCEPT ![position] = Len(sent)]
  /\ unsaved' = FALSE
  /\ UNCHANGED <<plan, facts, sent, position, dex, accepted, mishaps>>

(* The script ends: the receipt says reverted, the estimate fails, or the  *)
(* DEX is awaited.                                                         *)
Throw ==
  /\ Running
  /\ \/ unsaved /\ IsFinal(position) /\ sent[Len(sent)].outcome = "reverted"
     \/ ~unsaved /\ steps[position] # 0 /\ sent[steps[position]].outcome = "reverted"
     \/ ~unsaved /\ steps[position] = 0 /\ ~Legal(Plan[position]) /\ ~Completed(position)
     \/ ~unsaved /\ IsGate(position) /\ ~dex
  /\ position' = 0 /\ unsaved' = FALSE
  /\ UNCHANGED <<plan, facts, sent, steps, dex, accepted, mishaps>>

Kill ==
  /\ Running /\ mishaps < MaxMishaps
  /\ mishaps' = mishaps + 1
  /\ position' = 0 /\ unsaved' = FALSE
  /\ UNCHANGED <<plan, facts, sent, steps, dex, accepted>>

(* The chain includes the next transaction of the account. *)
Mine(k) ==
  /\ sent[k].outcome = "pending"
  /\ \A j \in 1 .. k - 1 : sent[j].outcome # "pending"
  /\ LET s == Plan[sent[k].step]
     IN  \/ /\ Legal(s)
            /\ facts' = (facts \ s.takes) \cup s.gives
            /\ sent' = [sent EXCEPT ![k].outcome = "success"]
            /\ UNCHANGED mishaps
         \/ /\ ~Legal(s)
            /\ sent' = [sent EXCEPT ![k].outcome = "reverted"]
            /\ UNCHANGED <<facts, mishaps>>
         \/ /\ Legal(s) /\ mishaps < MaxMishaps
            /\ sent' = [sent EXCEPT ![k].outcome = "reverted"]
            /\ mishaps' = mishaps + 1
            /\ UNCHANGED facts
  /\ UNCHANGED <<plan, steps, position, unsaved, dex, accepted>>

DeployDex ==
  /\ ~dex /\ "runtime" \in facts
  /\ dex' = TRUE
  /\ UNCHANGED <<plan, facts, sent, steps, position, unsaved, accepted, mishaps>>

\* What the acceptance audit requires of the contracts, all at once.
Audited ==
  /\ {"minted", "owners", "limits", "forwarder", "factory set", "daos set", "daos", "price",
      "liquidity", "market", "deed 4 listed", "deed 5 listed"} \subseteq facts
  /\ facts \cap {"minter", "operators open", "treasury governed", "paymaster governed",
                "books unset", "excess"} = {}

\* What the security page requires.
Secure ==
  /\ {"timelock", "token", "runtime", "treasury", "paymaster", "forwarder", "daos set",
      "limits"} \subseteq facts
  /\ facts \cap {"operators open", "treasury governed", "paymaster governed"} = {}

(* Only V11 has the audit. *)
Audit ==
  /\ plan = "v11" /\ Audited /\ dex
  /\ accepted' = TRUE
  /\ UNCHANGED <<plan, facts, sent, steps, position, unsaved, dex, mishaps>>

CutoverNext ==
  \/ Audit
  \/ Run \/ Advance \/ SendTransaction \/ Save \/ Throw \/ Kill
  \/ \E k \in DOMAIN sent : Mine(k)
  \/ DeployDex

CutoverSpec == CutoverInit /\ [][CutoverNext]_cutoverVars

-----------------------------------------------------------------------------

Done == {sent[k].step : k \in {j \in DOMAIN sent : sent[j].outcome = "success"}}

(* No step of a release takes effect before every step of the plan before  *)
(* it has: governance is not handed over, nor the minter given away,       *)
(* before what needs them, however often the scripts die, are rerun, in    *)
(* either order, or have a transaction revert.  While nothing went wrong,  *)
(* every step finds what it requires: the order of the plan is one the     *)
(* contracts accept.  And so what is looked at is enough: a security page  *)
(* that is green means a release staged to its last step, an audit that    *)
(* passed that the second script has done its part too.                    *)
StagedInOrder ==
  LET done == Done
      Passes(i) == i \in done \/ IsGate(i)
  IN  /\ \A i \in done : ~IsFinal(i) => \A j \in 1 .. i - 1 : Passes(j)
      /\ (mishaps = 0 /\ Running /\ ~unsaved /\ ~IsFinal(position) /\ steps[position] = 0)
           => Legal(Plan[position])
      /\ Secure => \A i \in DOMAIN Stage : Passes(i)
      /\ accepted => \A i \in DOMAIN Plan : Passes(i)
=============================================================================
