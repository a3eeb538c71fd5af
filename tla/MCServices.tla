----------------------------- MODULE MCServices -----------------------------
(***************************************************************************)
(* The small services and jobs around the contracts.  They share no state: *)
(* a behaviour is one of one service, named in its initial state, while    *)
(* the others rest in one initial state of theirs.                         *)
(***************************************************************************)
EXTENDS Admission, Profiles, Market, Cutover, ChainDao, Claims, Keepers, Emissions, Scans,
        ChainCard, NftVault, SoftStaking, Directory

VARIABLE service

MCAmount == [e \in Emissions |-> IF e = "small" THEN 1 ELSE 2]

Services ==
  {"admission", "profiles", "market", "cutover", "dao", "claims", "keepers", "emissions",
   "scans", "card", "vault", "staking", "directory"}

MCRowKinds ==
  {[status |-> "live", terms |-> {"mine"}, txCount |-> 1, contractCount |-> 2, revenue |-> 1],
   [status |-> "paused", terms |-> {}, txCount |-> 2, contractCount |-> 0, revenue |-> 1]}

\* A service that rests starts in one of its initial states only.
Pinned(name, value, start) == service = name \/ value = start

(* Users and clients are interchangeable: one submission may have any. *)
ServicesInit ==
  /\ service \in Services
  /\ AdmissionInit
  /\ party[CHOOSE s \in Submissions : TRUE] = CHOOSE p \in [user : Users, client : Clients] : TRUE
  /\ Pinned("admission", party, CHOOSE p \in [Submissions -> [user : Users, client : Clients]] : TRUE)
  /\ ProfilesInit
  /\ MarketInit /\ Pinned("market", connected, CHOOSE a \in Accounts : TRUE)
  /\ CutoverInit /\ Pinned("cutover", plan, "v10")
  /\ DaoInit
  /\ Pinned("dao", <<deed.holder, account>>,
            <<CHOOSE v \in Voters : TRUE, CHOOSE v \in Voters : TRUE>>)
  /\ ClaimsInit
  /\ Pinned("claims", <<title, button.account, button.deed>>,
            <<[d \in Deeds |-> CHOOSE h \in Holders : TRUE], CHOOSE h \in Holders : TRUE,
              CHOOSE d \in Deeds : TRUE>>)
  /\ KeepersInit /\ Pinned("keepers", pool.price, CHOOSE p \in Prices : TRUE)
  /\ EmissionsInit
  /\ ScansInit
  /\ CardInit
  /\ LET visitor == CHOOSE v \in Visitors : TRUE
     IN  Pinned("card", <<editor, space.holder, [c \in Cards |-> cards[c].account], header.account>>,
                <<"account", visitor, [c \in Cards |-> visitor], visitor>>)
  /\ VaultInit /\ Pinned("vault", keeper, [n \in Nfts |-> "vault"])
  /\ StakingInit
  /\ DirectoryInit /\ Pinned("directory", rows, <<>>)

\* A step of one service leaves the others where they are.
Resting(names) ==
  /\ "admission" \in names => UNCHANGED admissionVars
  /\ "profiles" \in names => UNCHANGED profileVars
  /\ "market" \in names => UNCHANGED marketVars
  /\ "cutover" \in names => UNCHANGED cutoverVars
  /\ "dao" \in names => UNCHANGED daoVars
  /\ "claims" \in names => UNCHANGED claimVars
  /\ "keepers" \in names => UNCHANGED keeperVars
  /\ "emissions" \in names => UNCHANGED emissionVars
  /\ "scans" \in names => UNCHANGED scanVars
  /\ "card" \in names => UNCHANGED cardVars
  /\ "vault" \in names => UNCHANGED vaultVars
  /\ "staking" \in names => UNCHANGED stakingVars
  /\ "directory" \in names => UNCHANGED directoryVars
  /\ UNCHANGED service

Only(name) == service = name /\ Resting(Services \ {name})

ServicesNext ==
  \/ Only("admission") /\ AdmissionNext
  \/ Only("profiles") /\ ProfilesNext
  \/ Only("market") /\ MarketNext
  \/ Only("cutover") /\ CutoverNext
  \/ Only("dao") /\ DaoNext
  \/ Only("claims") /\ ClaimsNext
  \/ Only("keepers") /\ KeepersNext
  \/ Only("emissions") /\ EmissionsNext
  \/ Only("scans") /\ ScansNext
  \/ Only("card") /\ CardNext
  \/ Only("vault") /\ VaultNext
  \/ Only("staking") /\ StakingNext
  \/ Only("directory") /\ DirectoryNext

ServicesSpec ==
  ServicesInit /\ [][ServicesNext]_<<service, admissionVars, profileVars, marketVars, cutoverVars,
                                     daoVars, claimVars, keeperVars, emissionVars,
                                     scanVars, cardVars, vaultVars,
                                     stakingVars, directoryVars>>
=============================================================================
