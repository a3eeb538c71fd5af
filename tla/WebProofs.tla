----------------------------- MODULE WebProofs ------------------------------
(***************************************************************************)
(* What the pages, the routes and the scripts of the web application       *)
(* promise: for any number of accounts, browsers, requests, transactions   *)
(* and blocks, and however late an answer comes.                           *)
(*                                                                         *)
(* Each section is one module of the model: its inductive invariant, one   *)
(* lemma for each action that disturbs it, and the theorem.                *)
(***************************************************************************)
EXTENDS Market, Profiles, Admission, ChainCard, Scans, Directory, Cutover, Sums,
        SequenceTheorems

-----------------------------------------------------------------------------
(* Market: the page shows the answer to its newest refresh.                *)
(*                                                                         *)
(* What the page shows says nothing of the answers still on their way; the *)
(* invariant is about those: none carries a generation the page has not    *)
(* begun, and the one of the present generation, if the effect asked for   *)
(* it, is for the account now connected.                                   *)

Request == [gen : Nat, account : Accounts, by : {"effect", "trade"},
            answer : [at : Nat, release : Nat] \cup {Nothing}]

IsTrade(t) ==
  /\ t = [stage |-> t.stage, account |-> t.account, quote |-> t.quote]
  /\ t.account \in Accounts

Addressed ==
  /\ generation \in Nat /\ connected \in Accounts /\ seconds \in Nat /\ release \in Nat
  /\ trade # Nothing => IsTrade(trade)
  /\ requests \subseteq Request
  /\ \A r \in requests :
       /\ r.gen <= generation
       /\ r.gen = generation /\ r.by = "effect" => r.account = connected

MarketInv == Addressed /\ ShowsNewestAnswer

-----------------------------------------------------------------------------
(* A refresh outdates every request before it, and clears the page. *)
LEMMA FetchKeeps ==
  ASSUME MarketInv, NEW account \in Accounts, NEW by \in {"effect", "trade"}, NEW id \in Nat,
         id > generation, Fetch(account, by, id), connected' \in Accounts,
         by = "effect" => account = connected',
         UNCHANGED <<seconds, release>>, trade' # Nothing => IsTrade(trade')
  PROVE  MarketInv'
<1>1. PICK fresh : fresh = [gen |-> id, account |-> account, by |-> by, answer |-> Nothing]
  OBVIOUS
<1>2. /\ fresh \in Request
      /\ fresh.gen = id /\ fresh.account = account /\ fresh.by = by
  BY <1>1 DEF Request
<1>3. generation' = id /\ shown' = Nothing /\ requests' = requests \cup {fresh}
  BY <1>1 DEF Fetch
<1>4. \A r \in requests : r.gen \in Nat /\ r.gen < id
  BY DEF MarketInv, Addressed, Request
<1>5. Addressed'
  BY <1>2, <1>3, <1>4 DEF MarketInv, Addressed
<1>. QED BY <1>3, <1>5 DEF MarketInv, ShowsNewestAnswer

(* An answer is shown only if its generation is still the page's. *)
LEMMA AnswerKeeps ==
  ASSUME MarketInv, NEW r \in requests, Arrive(r) \/ Fail(r)
  PROVE  MarketInv'
<1>1. requests' = requests \ {r} /\ UNCHANGED <<seconds, release, connected, generation, trade>>
  BY DEF Arrive, Fail
<1>2. Addressed'
  BY <1>1 DEF MarketInv, Addressed
<1>3. \/ shown' = Nothing \/ shown' = shown
      \/ /\ r.gen = generation
         /\ shown' = [gen |-> r.gen, account |-> r.account, by |-> r.by, at |-> r.answer.at]
  BY DEF Arrive, Fail, Failed, AfterAnswer
<1>4. ShowsNewestAnswer'
  BY <1>1, <1>3 DEF MarketInv, Addressed, ShowsNewestAnswer
<1>. QED BY <1>2, <1>4 DEF MarketInv

LEMMA ServeKeeps ==
  ASSUME MarketInv, NEW r \in requests, Serve(r)
  PROVE  MarketInv'
<1>1. PICK served : served = [r EXCEPT !.answer = [at |-> seconds, release |-> release]]
  OBVIOUS
<1>2. r \in Request /\ seconds \in Nat /\ release \in Nat
  BY DEF MarketInv, Addressed
<1>3. served \in Request /\ served.gen = r.gen /\ served.account = r.account /\ served.by = r.by
  BY <1>1, <1>2 DEF Request
<1>4. /\ requests' = (requests \ {r}) \cup {served}
      /\ UNCHANGED <<seconds, release, connected, generation, shown, trade>>
  BY <1>1 DEF Serve
<1>5. Addressed'
  BY <1>3, <1>4 DEF MarketInv, Addressed
<1>. QED BY <1>4, <1>5 DEF MarketInv, ShowsNewestAnswer

LEMMA TradeKeeps ==
  ASSUME MarketInv, Press \/ CheckRelease \/ SignTrade \/ GiveUp
  PROVE  MarketInv'
<1>1. /\ UNCHANGED <<seconds, release, connected, generation, requests, shown>>
      /\ connected \in Accounts
  BY DEF Press, CheckRelease, SignTrade, GiveUp, MarketInv, Addressed
<1>2. trade' # Nothing => IsTrade(trade')
  <2>1. CASE trade' = Nothing
    BY <2>1
  <2>2. CASE Press
    BY <1>1, <2>2 DEF Press, IsTrade
  <2>3. CASE trade # Nothing /\ trade' \in {[trade EXCEPT !.stage = "sign"], [trade EXCEPT !.stage = "relay"]}
    <3>1. IsTrade(trade)
      BY <2>3 DEF MarketInv, Addressed
    <3>. QED BY <2>3, <3>1 DEF IsTrade
  <2>. QED BY <2>1, <2>2, <2>3 DEF CheckRelease, SignTrade, GiveUp
<1>. QED BY <1>1, <1>2 DEF MarketInv, Addressed, ShowsNewestAnswer

(* No slow answer, of an earlier poll or of the account left behind,       *)
(* replaces a newer one on the page (web/app/market/page.tsx:52-66).       *)
THEOREM PageShowsNewestAnswer == MarketSpec => []ShowsNewestAnswer
<1>1. MarketInit => MarketInv
  BY MarketAssumption DEF MarketInit, MarketInv, Addressed, ShowsNewestAnswer, MANIFEST_HASH
<1>2. MarketInv /\ [MarketNext]_marketVars => MarketInv'
  <2> SUFFICES ASSUME MarketInv, [MarketNext]_marketVars
               PROVE  MarketInv'
    OBVIOUS
  <2>0. generation \in Nat /\ connected \in Accounts
    BY DEF MarketInv, Addressed
  <2>1. CASE Poll
    BY <2>0, <2>1, FetchKeeps DEF Poll, MarketInv, Addressed
  <2>2. CASE SwitchAccount
    BY <2>0, <2>2, FetchKeeps DEF SwitchAccount, MarketInv, Addressed
  <2>3. CASE Confirm
    <3>1. trade.account \in Accounts
      BY <2>3 DEF Confirm, MarketInv, Addressed, IsTrade
    <3>. QED BY <2>0, <2>3, <3>1, FetchKeeps DEF Confirm
  <2>4. CASE \E r \in requests : Serve(r) \/ Arrive(r) \/ Fail(r)
    BY <2>4, ServeKeeps, AnswerKeeps
  <2>5. CASE Press \/ CheckRelease \/ SignTrade \/ GiveUp
    BY <2>5, TradeKeeps
  <2>6. CASE Drop
    BY <2>6 DEF Drop, MarketInv, Addressed, ShowsNewestAnswer
  <2>7. CASE Redeploy \/ Second
    BY <2>7 DEF Redeploy, Second, MarketInv, Addressed, ShowsNewestAnswer
  <2>8. CASE UNCHANGED marketVars
    BY <2>8 DEF marketVars, MarketInv, Addressed, ShowsNewestAnswer
  <2>. QED BY <2>1, <2>2, <2>3, <2>4, <2>5, <2>6, <2>7, <2>8 DEF MarketNext
<1>3. MarketInv => ShowsNewestAnswer
  BY DEF MarketInv
<1>. QED BY <1>1, <1>2, <1>3, PTL DEF MarketSpec

-----------------------------------------------------------------------------
(* Profiles: what is stored for an address is one signed profile.          *)

PostStage == {"unsent", "sent", "nonce", "row", "delete", "commit", "saved", "refused"}

(* One transaction has the row, one of each tab has inserted its nonce, and *)
(* the one about to commit has seen all the links there are.                *)
RowAndNonceHeld ==
  /\ \A d, e \in Deliveries : HasRow(d) /\ HasRow(e) => d = e
  /\ \A d, e \in Deliveries : Inserted(d) /\ Inserted(e) /\ d[1] = e[1] => d = e
  /\ \A d \in Deliveries : Inserted(d) => d[1] \notin nonces
  /\ \A d \in Deliveries : post[d] = "commit" => deleted[d] = socials

(* A tab signs once, and what it signed is a whole profile.                 *)
SignedForGood ==
  /\ \A t \in Tabs : tab[t] = "signed" =>
       signed[t] = [row |-> signed[t].row, socials |-> signed[t].socials]
  /\ \A d \in Deliveries : post[d] # "unsent" => tab[d[1]] = "signed"
  /\ \A t \in nonces : tab[t] = "signed"

ProfilesInv ==
  /\ nonces \subseteq Tabs /\ saves \in [Tabs -> Nat] /\ post \in [Deliveries -> PostStage]
  /\ DOMAIN tab = Tabs /\ DOMAIN signed = Tabs /\ DOMAIN deleted = Deliveries
  /\ RowAndNonceHeld /\ SignedForGood
  /\ \A t \in Tabs : saves[t] = IF t \in nonces THEN 1 ELSE 0
  /\ \/ row = NoRow /\ socials = {}
     \/ \E t \in nonces : signed[t] = [row |-> row, socials |-> socials]

LEMMA DeliveryTab == \A d \in Deliveries : d[1] \in Tabs
BY DEF Deliveries

\* Reading and signing a page leave the database and what a tab signed alone.
LEMMA TabStepKeeps ==
  ASSUME ProfilesInv, NEW t \in Tabs, LoadRow(t) \/ LoadSocials(t)
  PROVE  ProfilesInv'
<1>1. /\ UNCHANGED <<row, socials, nonces, saves, signed, post, deleted>>
      /\ tab[t] # "signed" /\ \E next : tab' = [tab EXCEPT ![t] = next] /\ next # "signed"
  BY DEF LoadRow, LoadSocials, database
<1>2. DOMAIN tab' = Tabs /\ \A u \in Tabs : tab'[u] = "signed" <=> tab[u] = "signed"
  BY <1>1 DEF ProfilesInv
<1>3. SignedForGood'
  BY <1>1, <1>2, DeliveryTab DEF SignedForGood, ProfilesInv
<1>4. RowAndNonceHeld'
  BY <1>1 DEF RowAndNonceHeld, ProfilesInv, HasRow, Inserted
<1>. QED BY <1>1, <1>2, <1>3, <1>4 DEF ProfilesInv

LEMMA SignKeeps ==
  ASSUME ProfilesInv, NEW t \in Tabs, NEW rowSigned, NEW linksSigned,
         Sign(t, [row |-> rowSigned, socials |-> linksSigned])
  PROVE  ProfilesInv'
<1> DEFINE profile == [row |-> rowSigned, socials |-> linksSigned]
<1>0. profile = [row |-> profile.row, socials |-> profile.socials]
  OBVIOUS
<1> HIDE DEF profile
<1>1. /\ UNCHANGED <<row, socials, nonces, saves, deleted>>
      /\ tab[t] = "open" /\ tab' = [tab EXCEPT ![t] = "signed"]
      /\ signed' = [signed EXCEPT ![t] = profile]
      /\ post' = [d \in Deliveries |-> IF d[1] = t THEN "sent" ELSE post[d]]
  BY DEF Sign, database, profile
<1>2. /\ DOMAIN tab' = Tabs /\ DOMAIN signed' = Tabs /\ t \notin nonces
      /\ post' \in [Deliveries -> PostStage]
      /\ tab'[t] = "signed" /\ signed'[t] = profile
      /\ \A u \in Tabs \ {t} : tab'[u] = tab[u] /\ signed'[u] = signed[u]
  BY <1>1 DEF ProfilesInv, SignedForGood, PostStage
<1>3. \A d \in Deliveries : d[1] = t => post[d] = "unsent"
  BY <1>1 DEF ProfilesInv, SignedForGood
<1>4. \A d \in Deliveries : /\ HasRow(d)' <=> HasRow(d)
                            /\ Inserted(d)' <=> Inserted(d)
                            /\ post'[d] = "commit" <=> post[d] = "commit"
                            /\ post'[d] = "unsent" => post[d] = "unsent" /\ d[1] # t
  BY <1>1, <1>3 DEF HasRow, Inserted
<1>5. RowAndNonceHeld'
  BY <1>1, <1>4 DEF RowAndNonceHeld, ProfilesInv
<1>6. SignedForGood'
  <2>1. \A u \in Tabs : tab'[u] = "signed" =>
          signed'[u] = [row |-> signed'[u].row, socials |-> signed'[u].socials]
    BY <1>0, <1>2 DEF SignedForGood, ProfilesInv
  <2>2. ASSUME NEW d \in Deliveries, post'[d] # "unsent" PROVE tab'[d[1]] = "signed"
    <3>1. CASE d[1] = t
      BY <1>2, <3>1
    <3>2. CASE d[1] # t
      BY <1>1, <1>2, <2>2, <3>2, DeliveryTab DEF SignedForGood, ProfilesInv
    <3>. QED BY <3>1, <3>2
  <2>. QED BY <1>1, <1>2, <2>1, <2>2 DEF SignedForGood, ProfilesInv
<1>7. \/ row' = NoRow /\ socials' = {}
      \/ \E u \in nonces' : signed'[u] = [row |-> row', socials |-> socials']
  BY <1>1, <1>2 DEF ProfilesInv
<1>. QED BY <1>1, <1>2, <1>5, <1>6, <1>7 DEF ProfilesInv

(* A step of one delivery that commits nothing. *)
LEMMA DeliveryStepKeeps ==
  ASSUME ProfilesInv, NEW d \in Deliveries, NEW next \in PostStage \ {"unsent"},
         post[d] # "unsent", Step(d, next),
         UNCHANGED <<row, socials, nonces, saves, tab, loaded, signed>>,
         DOMAIN deleted' = Deliveries,
         \A e \in Deliveries \ {d} : deleted'[e] = deleted[e],
         HasRow(d)' => HasRow(d) \/ (\A e \in Deliveries : ~HasRow(e)),
         Inserted(d)' => Inserted(d) \/ /\ d[1] \notin nonces
                                        /\ \A e \in Deliveries : Inserted(e) => e[1] # d[1],
         next = "commit" => deleted'[d] = socials
  PROVE  ProfilesInv'
<1>1. /\ post' \in [Deliveries -> PostStage] /\ post'[d] = next
      /\ \A e \in Deliveries \ {d} : post'[e] = post[e]
  BY DEF Step, ProfilesInv
<1>2. \A e \in Deliveries \ {d} : (HasRow(e)' <=> HasRow(e)) /\ (Inserted(e)' <=> Inserted(e))
  BY <1>1 DEF HasRow, Inserted
<1>3. RowAndNonceHeld'
  <2>1. \A e, f \in Deliveries : HasRow(e)' /\ HasRow(f)' => e = f
    BY <1>2 DEF ProfilesInv, RowAndNonceHeld
  <2>2. \A e, f \in Deliveries : Inserted(e)' /\ Inserted(f)' /\ e[1] = f[1] => e = f
    BY <1>2 DEF ProfilesInv, RowAndNonceHeld
  <2>3. \A e \in Deliveries : Inserted(e)' => e[1] \notin nonces'
    BY <1>2 DEF ProfilesInv, RowAndNonceHeld
  <2>4. \A e \in Deliveries : post'[e] = "commit" => deleted'[e] = socials'
    BY <1>1 DEF ProfilesInv, RowAndNonceHeld
  <2>. QED BY <2>1, <2>2, <2>3, <2>4 DEF RowAndNonceHeld
<1>4. SignedForGood'
  BY <1>1 DEF ProfilesInv, SignedForGood
<1>. QED BY <1>1, <1>3, <1>4 DEF ProfilesInv

(* The commit replaces the row it holds and every link there is. *)
LEMMA CommitKeeps ==
  ASSUME ProfilesInv, NEW d \in Deliveries, Commit(d)
  PROVE  ProfilesInv'
<1> DEFINE t == d[1]
<1>0. t \in Tabs
  BY DeliveryTab
<1>1. /\ post[d] = "commit" /\ HasRow(d) /\ Inserted(d)
      /\ t \notin nonces /\ deleted[d] = socials /\ tab[t] = "signed"
      /\ signed[t] = [row |-> signed[t].row, socials |-> signed[t].socials]
  BY <1>0 DEF Commit, HasRow, Inserted, ProfilesInv, RowAndNonceHeld, SignedForGood
<1>2. /\ row' = signed[t].row /\ socials' = signed[t].socials
      /\ nonces' = nonces \cup {t} /\ saves' = [saves EXCEPT ![t] = @ + 1]
      /\ UNCHANGED <<tab, loaded, signed>>
      /\ deleted' = [deleted EXCEPT ![d] = {}]
  BY <1>1 DEF Commit
<1>3. PICK answer \in {"saved", "refused"} : post' = [post EXCEPT ![d] = answer]
  BY DEF Commit, Step
<1>4. post' \in [Deliveries -> PostStage] /\ DOMAIN deleted' = Deliveries
  BY <1>2, <1>3 DEF ProfilesInv, PostStage
<1>5. /\ ~HasRow(d)' /\ ~Inserted(d)'
      /\ \A e \in Deliveries \ {d} : (HasRow(e)' <=> HasRow(e)) /\ (Inserted(e)' <=> Inserted(e))
                                     /\ post'[e] = post[e] /\ deleted'[e] = deleted[e]
  BY <1>2, <1>3 DEF HasRow, Inserted, ProfilesInv
<1>6. \A e \in Deliveries : ~HasRow(e)' /\ (Inserted(e)' => e[1] # t)
  BY <1>1, <1>5 DEF ProfilesInv, RowAndNonceHeld
<1>7. RowAndNonceHeld'
  <2>1. \A e, f \in Deliveries : Inserted(e)' /\ Inserted(f)' /\ e[1] = f[1] => e = f
    BY <1>5 DEF ProfilesInv, RowAndNonceHeld
  <2>2. \A e \in Deliveries : Inserted(e)' => e[1] \notin nonces'
    BY <1>2, <1>5, <1>6 DEF ProfilesInv, RowAndNonceHeld
  <2>3. \A e \in Deliveries : post'[e] # "commit"
    BY <1>6 DEF HasRow
  <2>. QED BY <1>6, <2>1, <2>2, <2>3 DEF RowAndNonceHeld
<1>8. SignedForGood'
  BY <1>1, <1>2, <1>3, <1>5 DEF ProfilesInv, SignedForGood
<1>9. saves' \in [Tabs -> Nat] /\ \A u \in Tabs : saves'[u] = IF u \in nonces' THEN 1 ELSE 0
  BY <1>0, <1>1, <1>2 DEF ProfilesInv
<1>10. signed'[t] = [row |-> row', socials |-> socials']
  BY <1>1, <1>2
<1>11. nonces' \subseteq Tabs /\ DOMAIN tab' = Tabs /\ DOMAIN signed' = Tabs
  BY <1>0, <1>2 DEF ProfilesInv
<1>. QED BY <1>2, <1>4, <1>7, <1>8, <1>9, <1>10, <1>11 DEF ProfilesInv

(* What is stored is one signed profile, whole, and no signature was saved *)
(* twice (web/lib/chains.ts, saveProfile), for any number of tabs.          *)
THEOREM ProfileStoredAsSigned == ProfilesSpec => []StoredAsSigned
<1>1. ProfilesInit => ProfilesInv
  BY DEF ProfilesInit, ProfilesInv, RowAndNonceHeld, SignedForGood, HasRow, Inserted, PostStage,
         Deliveries
<1>2. ProfilesInv /\ [ProfilesNext]_profileVars => ProfilesInv'
  <2> SUFFICES ASSUME ProfilesInv, [ProfilesNext]_profileVars PROVE ProfilesInv'
    OBVIOUS
  <2>1. CASE \E t \in Tabs : LoadRow(t) \/ LoadSocials(t)
    BY <2>1, TabStepKeeps
  <2>2. ASSUME NEW t \in FormTabs, SignForm(t) PROVE ProfilesInv'
    BY <2>2, SignKeeps DEF SignForm, Tabs
  <2>3. ASSUME NEW t \in AvatarTabs, SignAvatar(t) PROVE ProfilesInv'
    BY <2>3, SignKeeps DEF SignAvatar, Tabs
  <2>4. ASSUME NEW d \in Deliveries, Receive(d) PROVE ProfilesInv'
    BY <2>4, DeliveryStepKeeps DEF Receive, Step, database, HasRow, Inserted, PostStage, ProfilesInv
  <2>5. ASSUME NEW d \in Deliveries, ConsumeNonce(d) PROVE ProfilesInv'
    BY <2>5, DeliveryStepKeeps DEF ConsumeNonce, Step, database, HasRow, Inserted, PostStage, ProfilesInv
  <2>6. ASSUME NEW d \in Deliveries, UpsertProfile(d) PROVE ProfilesInv'
    BY <2>6, DeliveryStepKeeps DEF UpsertProfile, Step, database, HasRow, Inserted, PostStage, ProfilesInv
  <2>7. ASSUME NEW d \in Deliveries, DeleteSocials(d) PROVE ProfilesInv'
    BY <2>7, DeliveryStepKeeps DEF DeleteSocials, Step, database, HasRow, Inserted, PostStage, ProfilesInv
  <2>8. ASSUME NEW d \in Deliveries, Undo(d) PROVE ProfilesInv'
    BY <2>8, DeliveryStepKeeps DEF Undo, Step, database, HasRow, Inserted, PostStage, ProfilesInv
  <2>9. CASE UNCHANGED profileVars
    BY <2>9 DEF profileVars, ProfilesInv, RowAndNonceHeld, SignedForGood, HasRow, Inserted
  <2>. QED
    BY <2>1, <2>2, <2>3, <2>4, <2>5, <2>6, <2>7, <2>8, <2>9, CommitKeeps DEF ProfilesNext
<1>3. ProfilesInv => StoredAsSigned
  BY DEF ProfilesInv, StoredAsSigned, Blank
<1>. QED BY <1>1, <1>2, <1>3, PTL DEF ProfilesSpec

-----------------------------------------------------------------------------
(* Admission: the quota holds in every minute.                             *)

(* Of one user, and of one client, one transaction has got past the lock.  *)
OneAtATime ==
  \A p, q \in Submissions : p # q =>
    /\ HasUserLock(p) /\ HasUserLock(q) => party[p].user # party[q].user
    /\ HasClientLock(p) /\ HasClientLock(q) => party[p].client # party[q].client

(* So what was counted still bounds what there is to count, and nothing    *)
(* deleted was young enough for a transaction that may still record.       *)
CountedIsBound ==
  /\ \A s \in Submissions : stage[s] = "commit" => Cardinality(Recent(s)) <= counted[s]
  /\ \A s \in Submissions : stage[s] \in Open => began[s] <= moment /\ moment <= began[s] + PATIENCE
  /\ \A q \in recorded \ attempts :
       /\ began[q] + WINDOW <= moment
       /\ \A s \in Submissions : stage[s] \in Open => began[q] + WINDOW <= began[s]

AdmissionInv ==
  /\ moment \in Nat /\ began \in [Submissions -> Nat] /\ counted \in [Submissions -> Nat]
  /\ DOMAIN stage = Submissions
  /\ attempts \subseteq recorded /\ recorded \subseteq Submissions /\ IsFiniteSet(recorded)
  /\ \A s \in recorded : stage[s] \in {"admitted", "refused"}
  /\ OneAtATime /\ CountedIsBound /\ QuotaHolds

LEMMA RecentFinite ==
  ASSUME AdmissionInv, NEW s
  PROVE  IsFiniteSet(Recent(s)) /\ Cardinality(Recent(s)) \in Nat
<1>1. Recent(s) \in SUBSET recorded
  BY DEF AdmissionInv, Recent
<1>. QED BY <1>1, FS_Subset, FS_CardinalityType DEF AdmissionInv

\* A step of one transaction that records nothing.
LEMMA QuietStepKeeps ==
  ASSUME AdmissionInv, NEW s \in Submissions, NEW next,
         stage[s] \notin {"admitted", "refused"},
         Enter(s, next), UNCHANGED <<moment, party, attempts, recorded>>,
         began' \in [Submissions -> Nat], counted' \in [Submissions -> Nat],
         \A q \in Submissions \ {s} : began'[q] = began[q] /\ counted'[q] = counted[q],
         next \in Open => /\ began'[s] <= moment /\ moment <= began'[s] + PATIENCE
                          /\ (stage[s] \in Open /\ began'[s] = began[s]) \/ began'[s] = moment,
         next = "commit" => began'[s] = began[s] /\ Cardinality(Recent(s)) <= counted'[s],
         next \in {"user", "count", "commit"} =>
           \/ HasClientLock(s)
           \/ \A q \in Submissions : HasClientLock(q) => party[q].client # party[s].client,
         next \in {"count", "commit"} =>
           \/ HasUserLock(s)
           \/ \A q \in Submissions : HasUserLock(q) => party[q].user # party[s].user
  PROVE  AdmissionInv'
<1>1. /\ DOMAIN stage' = Submissions /\ stage'[s] = next
      /\ \A q \in Submissions \ {s} : stage'[q] = stage[q]
  BY DEF AdmissionInv, Enter
<1>2. s \notin recorded
  BY DEF AdmissionInv
<1>3. /\ (HasUserLock(s)' <=> next \in {"count", "commit"})
      /\ (HasClientLock(s)' <=> next \in {"user", "count", "commit"})
      /\ \A q \in Submissions \ {s} : (HasUserLock(q)' <=> HasUserLock(q))
                                      /\ (HasClientLock(q)' <=> HasClientLock(q))
  BY <1>1 DEF HasUserLock, HasClientLock
<1>4. OneAtATime'
  BY <1>3 DEF AdmissionInv, OneAtATime
<1>5. \A q \in recorded : began'[q] = began[q]
  BY <1>2 DEF AdmissionInv
<1>6. \A q \in Submissions : q # s \/ next = "commit" => Recent(q)' = Recent(q)
  BY <1>5 DEF Recent, AdmissionInv
<1>7. CountedIsBound'
  <2>1. ASSUME NEW q \in Submissions, stage'[q] = "commit"
        PROVE  Cardinality(Recent(q))' <= counted'[q]
    BY <1>1, <1>6, <2>1 DEF AdmissionInv, CountedIsBound
  <2>2. ASSUME NEW q \in Submissions, stage'[q] \in Open
        PROVE  began'[q] <= moment' /\ moment' <= began'[q] + PATIENCE
    BY <1>1, <2>2 DEF AdmissionInv, CountedIsBound
  <2>3. ASSUME NEW q \in recorded' \ attempts'
        PROVE  /\ began'[q] + WINDOW <= moment'
               /\ \A p \in Submissions : stage'[p] \in Open => began'[q] + WINDOW <= began'[p]
    BY <1>1, <1>5, <2>3 DEF AdmissionInv, CountedIsBound
  <2>. QED BY <2>1, <2>2, <2>3 DEF CountedIsBound
<1>8. QuotaHolds'
  <2>1. \A q \in recorded : MinuteFrom(q)' = MinuteFrom(q)
    BY <1>5 DEF MinuteFrom
  <2>. QED BY <2>1 DEF QuotaHolds, AdmissionInv
<1>9. \A q \in recorded' : stage'[q] \in {"admitted", "refused"}
  BY <1>1, <1>2 DEF AdmissionInv
<1>. QED BY <1>1, <1>4, <1>7, <1>8, <1>9 DEF AdmissionInv

(* The minute a record falls into: whatever else is in it was counted. *)
LEMMA MinuteOfRecord ==
  ASSUME AdmissionInv, NEW n \in Submissions, Record(n), NEW s \in recorded \cup {n},
         NEW T, T \subseteq MinuteFrom(s)', n \in T,
         \A q \in T : party[q].user = party[n].user \/ party[q].client = party[n].client
  PROVE  Cardinality(T) <= LIMIT
<1>1. /\ stage[n] = "commit" /\ counted[n] < LIMIT /\ recorded' = recorded \cup {n}
      /\ UNCHANGED <<began, party>>
  BY DEF Record
<1>2. n \notin recorded /\ stage[n] \in Open
  BY <1>1 DEF AdmissionInv, Open
<1>3. \A q \in T : /\ q \in recorded \cup {n}
                   /\ began[q] \in Nat /\ began[s] \in Nat
                   /\ began[s] <= began[q] /\ began[q] <= began[s] + WINDOW - 1
  BY <1>1 DEF MinuteFrom, AdmissionInv
<1>4. WINDOW \in Nat /\ LIMIT \in Nat /\ counted[n] \in Nat
  BY AdmissionAssumption DEF AdmissionInv
<1>5. ASSUME NEW q \in T \ {n} PROVE q \in Recent(n)
  <2>1. began[q] + WINDOW > began[n]
    BY <1>3, <1>4
  <2>2. q \in attempts
    <3>1. SUFFICES ASSUME q \notin attempts PROVE FALSE
      OBVIOUS
    <3>2. began[q] + WINDOW <= began[n]
      BY <1>2, <1>3, <3>1 DEF AdmissionInv, CountedIsBound
    <3>. QED BY <1>3, <1>4, <2>1, <3>2
  <2>. QED BY <2>1, <2>2 DEF Recent
<1>6. T \ {n} \in SUBSET Recent(n)
  BY <1>5
<1>7. /\ IsFiniteSet(T \ {n}) /\ Cardinality(T \ {n}) <= Cardinality(Recent(n))
      /\ Cardinality(T \ {n}) \in Nat
  BY <1>6, RecentFinite, FS_Subset, FS_CardinalityType
<1>8. Cardinality(Recent(n)) <= counted[n] /\ Cardinality(Recent(n)) \in Nat
  BY <1>1, RecentFinite DEF AdmissionInv, CountedIsBound
<1>9. (T \ {n}) \cup {n} = T
  OBVIOUS
<1>10. Cardinality(T) = Cardinality(T \ {n}) + 1
  BY <1>7, <1>9, FS_AddElement
<1>. QED BY <1>1, <1>4, <1>7, <1>8, <1>10

LEMMA RecordKeeps ==
  ASSUME AdmissionInv, NEW n \in Submissions, Record(n)
  PROVE  AdmissionInv'
<1>1. /\ stage[n] = "commit" /\ counted[n] < LIMIT /\ recorded' = recorded \cup {n}
      /\ attempts' = (attempts \ Old(n)) \cup {n} /\ counted' = [counted EXCEPT ![n] = 0]
      /\ UNCHANGED <<moment, began, party>>
  BY DEF Record, End
<1>2. PICK answer \in {"admitted", "refused"} : stage' = [stage EXCEPT ![n] = answer]
  BY DEF Record, End, Enter
<1>3. /\ DOMAIN stage' = Submissions /\ stage'[n] = answer
      /\ \A q \in Submissions \ {n} : stage'[q] = stage[q] /\ counted'[q] = counted[q]
      /\ counted' \in [Submissions -> Nat]
  BY <1>1, <1>2 DEF AdmissionInv
<1>4. /\ HasUserLock(n) /\ HasClientLock(n) /\ stage[n] \in Open
      /\ ~HasUserLock(n)' /\ ~HasClientLock(n)' /\ stage'[n] \notin Open
      /\ \A q \in Submissions \ {n} : (HasUserLock(q)' <=> HasUserLock(q))
                                      /\ (HasClientLock(q)' <=> HasClientLock(q))
  BY <1>1, <1>3 DEF HasUserLock, HasClientLock, Open, Waiting
<1>5. OneAtATime'
  BY <1>1, <1>4 DEF AdmissionInv, OneAtATime
<1>6. ASSUME NEW q \in Submissions, stage'[q] = "commit"
      PROVE  Cardinality(Recent(q))' <= counted'[q]
  <2>1. q # n /\ stage[q] = "commit" /\ HasUserLock(q) /\ HasClientLock(q)
    BY <1>3, <1>4, <1>6 DEF HasUserLock, HasClientLock
  <2>2. party[q].user # party[n].user /\ party[q].client # party[n].client
    BY <1>4, <2>1 DEF AdmissionInv, OneAtATime
  <2>3. Recent(q)' \in SUBSET Recent(q)
    BY <1>1, <2>2 DEF Recent
  <2>4. Cardinality(Recent(q)') <= Cardinality(Recent(q)) /\ Cardinality(Recent(q)') \in Nat
    BY <2>3, RecentFinite, FS_Subset, FS_CardinalityType
  <2>5. Cardinality(Recent(q)) <= counted[q] /\ counted[q] \in Nat /\ counted'[q] = counted[q]
    BY <1>3, <2>1 DEF AdmissionInv, CountedIsBound
  <2>. QED BY <2>4, <2>5, RecentFinite
<1>7. ASSUME NEW q \in recorded' \ attempts'
      PROVE  /\ began'[q] + WINDOW <= moment'
             /\ \A p \in Submissions : stage'[p] \in Open => began'[q] + WINDOW <= began'[p]
  <2>1. /\ WINDOW \in Nat /\ PATIENCE \in Nat /\ RETENTION \in Nat /\ RETENTION >= WINDOW + PATIENCE
        /\ moment \in Nat /\ \A p \in Submissions : began[p] \in Nat
    BY AdmissionAssumption DEF AdmissionInv
  <2>2. q \in recorded /\ q \in Submissions
    BY <1>1, <1>7 DEF AdmissionInv
  <2>3. \A p \in Submissions : stage'[p] \in Open =>
           stage[p] \in Open /\ began[p] <= moment /\ moment <= began[p] + PATIENCE
    BY <1>3, <1>4 DEF AdmissionInv, CountedIsBound
  <2>4. CASE q \notin attempts
    BY <1>1, <2>2, <2>3, <2>4 DEF AdmissionInv, CountedIsBound
  <2>5. CASE q \in Old(n)
    <3>1. began[q] + RETENTION < began[n]
      BY <2>5 DEF Old
    <3>2. began[n] <= moment
      BY <1>4 DEF AdmissionInv, CountedIsBound
    <3>. QED BY <1>1, <2>1, <2>2, <2>3, <3>1, <3>2
  <2>. QED BY <1>1, <1>7, <2>4, <2>5
<1>8. CountedIsBound'
  <2>1. ASSUME NEW q \in Submissions, stage'[q] \in Open
        PROVE  began'[q] <= moment' /\ moment' <= began'[q] + PATIENCE
    BY <1>1, <1>3, <1>4, <2>1 DEF AdmissionInv, CountedIsBound
  <2>. QED BY <1>6, <1>7, <2>1 DEF CountedIsBound
<1>9. IsFiniteSet(recorded') /\ recorded' \subseteq Submissions /\ attempts' \subseteq recorded'
  BY <1>1, FS_AddElement DEF AdmissionInv
<1>10. ASSUME NEW s \in recorded', NEW T, T \subseteq MinuteFrom(s)',
              n \in T \/ (s \in recorded /\ T \subseteq MinuteFrom(s)),
              \/ \A q \in T : party[q].user = party[s].user
              \/ \A q \in T : party[q].client = party[s].client
       PROVE  Cardinality(T) <= LIMIT
  <2>1. CASE n \in T
    BY <1>1, <1>10, <2>1, MinuteOfRecord
  <2>2. CASE s \in recorded /\ T \subseteq MinuteFrom(s)
    <3>1. ASSUME NEW U, U \subseteq recorded, T \subseteq U, Cardinality(U) <= LIMIT
          PROVE  Cardinality(T) <= LIMIT
      <4>1. IsFiniteSet(U) /\ Cardinality(U) \in Nat
        BY <3>1, FS_Subset, FS_CardinalityType DEF AdmissionInv
      <4>2. Cardinality(T) <= Cardinality(U) /\ Cardinality(T) \in Nat
        BY <3>1, <4>1, FS_Subset, FS_CardinalityType
      <4>. QED BY <3>1, <4>1, <4>2, AdmissionAssumption
    <3>2. CASE \A q \in T : party[q].user = party[s].user
      <4>1. T \subseteq {q \in MinuteFrom(s) : party[q].user = party[s].user}
        BY <2>2, <3>2
      <4>2. {q \in MinuteFrom(s) : party[q].user = party[s].user} \subseteq recorded
        BY DEF MinuteFrom
      <4>. QED BY <2>2, <3>1, <4>1, <4>2 DEF AdmissionInv, QuotaHolds
    <3>3. CASE \A q \in T : party[q].client = party[s].client
      <4>1. T \subseteq {q \in MinuteFrom(s) : party[q].client = party[s].client}
        BY <2>2, <3>3
      <4>2. {q \in MinuteFrom(s) : party[q].client = party[s].client} \subseteq recorded
        BY DEF MinuteFrom
      <4>. QED BY <2>2, <3>1, <4>1, <4>2 DEF AdmissionInv, QuotaHolds
    <3>. QED BY <1>10, <3>2, <3>3
  <2>. QED BY <1>10, <2>1, <2>2
<1>11. \A s \in recorded' : MinuteFrom(s)' \subseteq MinuteFrom(s) \cup {n}
  BY <1>1 DEF MinuteFrom
<1>12. n \in MinuteFrom(n)'
  BY <1>1, AdmissionAssumption DEF MinuteFrom, AdmissionInv
<1>13. QuotaHolds'
  <2>1. SUFFICES ASSUME NEW s \in recorded'
                 PROVE  /\ Cardinality({q \in MinuteFrom(s)' : party[q].user = party[s].user}) <= LIMIT
                        /\ Cardinality({q \in MinuteFrom(s)' : party[q].client = party[s].client}) <= LIMIT
    BY <1>1 DEF QuotaHolds
  <2>2. PICK T, U : /\ T = {q \in MinuteFrom(s)' : party[q].user = party[s].user}
                    /\ U = {q \in MinuteFrom(s)' : party[q].client = party[s].client}
    OBVIOUS
  <2>3. s = n \/ s \in recorded
    BY <1>1
  <2>4. n \in T \/ (s \in recorded /\ T \subseteq MinuteFrom(s))
    BY <1>11, <1>12, <2>2, <2>3
  <2>5. n \in U \/ (s \in recorded /\ U \subseteq MinuteFrom(s))
    BY <1>11, <1>12, <2>2, <2>3
  <2>6. Cardinality(T) <= LIMIT
    BY <1>10, <2>2, <2>4
  <2>7. Cardinality(U) <= LIMIT
    BY <1>10, <2>2, <2>5
  <2>. QED BY <2>2, <2>6, <2>7
<1>14. \A q \in recorded' : stage'[q] \in {"admitted", "refused"}
  BY <1>1, <1>3 DEF AdmissionInv
<1>. QED BY <1>1, <1>3, <1>5, <1>8, <1>9, <1>13, <1>14 DEF AdmissionInv

LEMMA PassTimeKeeps ==
  ASSUME AdmissionInv, PassTime
  PROVE  AdmissionInv'
<1>1. /\ moment' = moment + 1 /\ UNCHANGED <<stage, began, party, counted, attempts, recorded>>
      /\ \A s \in Submissions : stage[s] \in Open => moment < began[s] + PATIENCE
  BY DEF PassTime
<1>2. /\ moment \in Nat /\ PATIENCE \in Nat /\ WINDOW \in Nat
      /\ \A s \in Submissions : began[s] \in Nat
  BY AdmissionAssumption DEF AdmissionInv
<1>3. CountedIsBound'
  <2>1. ASSUME NEW s \in Submissions, stage'[s] = "commit"
        PROVE  Cardinality(Recent(s))' <= counted'[s]
    BY <1>1, <2>1 DEF AdmissionInv, CountedIsBound, Recent
  <2>2. ASSUME NEW s \in Submissions, stage'[s] \in Open
        PROVE  began'[s] <= moment' /\ moment' <= began'[s] + PATIENCE
    BY <1>1, <1>2, <2>2 DEF AdmissionInv, CountedIsBound
  <2>3. ASSUME NEW q \in recorded' \ attempts'
        PROVE  /\ began'[q] + WINDOW <= moment'
               /\ \A p \in Submissions : stage'[p] \in Open => began'[q] + WINDOW <= began'[p]
    BY <1>1, <1>2, <2>3 DEF AdmissionInv, CountedIsBound
  <2>. QED BY <2>1, <2>2, <2>3 DEF CountedIsBound
<1>4. OneAtATime' /\ QuotaHolds'
  BY <1>1 DEF AdmissionInv, OneAtATime, QuotaHolds, HasUserLock, HasClientLock, MinuteFrom
<1>. QED BY <1>1, <1>2, <1>3, <1>4 DEF AdmissionInv

(* In no minute are more than LIMIT attempts of one user or of one client  *)
(* recorded, for any number of submissions, whatever they waited for       *)
(* (web/lib/relay-guard.ts, reserveRelay; web/app/api/profile/route.ts,    *)
(* admitProfileWrite).                                                     *)
THEOREM QuotaHoldsInEveryMinute == AdmissionSpec => []QuotaHolds
<1>1. AdmissionInit => AdmissionInv
  BY FS_EmptySet DEF AdmissionInit, AdmissionInv, OneAtATime, CountedIsBound, QuotaHolds,
                     HasUserLock, HasClientLock, Open, Waiting
<1>2. AdmissionInv /\ [AdmissionNext]_admissionVars => AdmissionInv'
  <2> SUFFICES ASSUME AdmissionInv, [AdmissionNext]_admissionVars PROVE AdmissionInv'
    OBVIOUS
  <2>0. /\ began \in [Submissions -> Nat] /\ counted \in [Submissions -> Nat] /\ moment \in Nat
        /\ PATIENCE \in Nat
        /\ \A s \in Submissions : stage[s] \in Open => began[s] <= moment /\ moment <= began[s] + PATIENCE
    BY AdmissionAssumption DEF AdmissionInv, CountedIsBound
  <2>1. ASSUME NEW s \in Submissions, Begin(s) PROVE AdmissionInv'
    <3>1. /\ began' \in [Submissions -> Nat] /\ began'[s] = moment
          /\ \A q \in Submissions \ {s} : began'[q] = began[q]
      BY <2>0, <2>1 DEF Begin
    <3>. QED BY <2>0, <2>1, <3>1, QuietStepKeeps DEF Begin
  <2>2. ASSUME NEW s \in Submissions, LockClient(s) PROVE AdmissionInv'
    BY <2>0, <2>2, QuietStepKeeps DEF LockClient, Open, Waiting
  <2>3. ASSUME NEW s \in Submissions, LockUser(s) PROVE AdmissionInv'
    BY <2>0, <2>3, QuietStepKeeps DEF LockUser, Open, Waiting, HasClientLock
  <2>4. ASSUME NEW s \in Submissions, Count(s) PROVE AdmissionInv'
    <3>1. Cardinality(Recent(s)) \in Nat
      BY RecentFinite
    <3>2. /\ counted' \in [Submissions -> Nat] /\ counted'[s] = Cardinality(Recent(s))
          /\ \A q \in Submissions \ {s} : counted'[q] = counted[q]
      BY <2>0, <2>4, <3>1 DEF Count
    <3>. QED BY <2>0, <2>4, <3>1, <3>2, QuietStepKeeps DEF Count, Open, Waiting, HasClientLock, HasUserLock
  <2>5. ASSUME NEW s \in Submissions, TooMany(s) \/ RollBack(s) PROVE AdmissionInv'
    <3>1. /\ counted' = [counted EXCEPT ![s] = 0] /\ Enter(s, "refused") /\ stage[s] \in Open
          /\ UNCHANGED <<moment, began, party, attempts, recorded>>
      BY <2>5 DEF TooMany, RollBack, End, Open
    <3>2. /\ counted' \in [Submissions -> Nat]
          /\ \A q \in Submissions \ {s} : counted'[q] = counted[q]
      BY <2>0, <3>1
    <3>. QED BY <2>0, <3>1, <3>2, QuietStepKeeps DEF Open, Waiting
  <2>6. CASE UNCHANGED admissionVars
    BY <2>6 DEF admissionVars, AdmissionInv, OneAtATime, CountedIsBound, QuotaHolds, HasUserLock,
                HasClientLock, Recent, MinuteFrom
  <2>. QED BY <2>1, <2>2, <2>3, <2>4, <2>5, <2>6, RecordKeeps, PassTimeKeeps DEF AdmissionNext
<1>3. AdmissionInv => QuotaHolds
  BY DEF AdmissionInv
<1>. QED BY <1>1, <1>2, <1>3, PTL DEF AdmissionSpec

-----------------------------------------------------------------------------
(* ChainCard: what a card shows has been the chain's.                       *)

KindsOf ==
  CASE editor = "name" -> {"rename"}
    [] editor = "identity" -> {"setIdentity"}
    [] editor = "status" -> {"setActive", "activate"}
    [] editor = "account" -> {}

IsIdentity(v) == v = [about |-> v.about, links |-> v.links]

IsSpace(s) ==
  /\ s = [holder |-> s.holder, name |-> s.name, identity |-> s.identity, active |-> s.active,
          configured |-> s.configured, fee |-> s.fee, activator |-> s.activator]
  /\ s.configured \in BOOLEAN
  /\ IsIdentity(s.identity)

IsCard(card) ==
  card = [account |-> card.account, reading |-> card.reading, found |-> card.found,
          owner |-> card.owner, value |-> card.value, typed |-> card.typed, since |-> card.since,
          had |-> card.had, fee |-> card.fee, acknowledged |-> card.acknowledged,
          edit |-> card.edit]

\* An edit under way: if it succeeds, then with what the chain has been since
\* the card was opened; if it is the first activation, its fee was agreed to;
\* and what nobody has typed into an identity since is what it sends.
EditKnown(card, pairs) ==
  /\ card.edit = [step |-> card.edit.step, call |-> card.edit.call]
  /\ card.edit.step \in {"simulate", "sent", "success", "reverted"}
  /\ card.edit.call.kind \in KindsOf
  /\ card.edit.call.kind = "activate" => <<card.edit.call.by, card.edit.call.value>> \in pairs
  /\ card.edit.step = "success" => Saved(card.edit.call) \in card.had
  /\ editor = "identity" =>
       /\ card.reading = "done" /\ IsIdentity(card.value) /\ IsIdentity(card.edit.call.value)
       /\ \A f \in Fields \ card.since : card.value[f] = card.edit.call.value[f]

\* What is shown has been the chain's, but for what was typed.
Reflects(card) ==
  /\ \E v \in card.had : Shows(card, v)
  /\ editor \in {"identity", "status"} => card.reading = "done"
  /\ editor = "identity" => IsIdentity(card.value)

\* An open card could have read what the chain is now; a tick is of the owner
\* the card knows, for the fee it shows: nobody reads the owner again once the
\* form is shown.
CardKnown(card, pairs, now) ==
  /\ IsCard(card)
  /\ card.reading = "closed" => card.value = Unread /\ card.edit = NoEdit
  /\ card.reading # "closed" => editor # "account" /\ now \in card.had
  /\ card.value # Unread => Reflects(card)
  /\ card.acknowledged \in BOOLEAN
  /\ card.acknowledged => /\ editor = "status" /\ card.reading = "done"
                          /\ <<card.owner, card.fee>> \in pairs
  /\ card.edit = NoEdit \/ EditKnown(card, pairs)

CardInv ==
  /\ editor \in {"name", "identity", "status", "account"}
  /\ IsSpace(space)
  /\ space.configured => <<space.activator, space.fee>> \in agreed
  /\ DOMAIN cards = Cards
  /\ \A c \in Cards : CardKnown(cards[c], agreed, Value(space))
  /\ header = [account |-> header.account, profile |-> header.profile, awaited |-> header.awaited]
  /\ header.awaited # Unread => header.awaited = header.account
  /\ header.awaited = Unread => header.profile \in {Unread, header.account}

\* A card step: the other cards and the chain stay.
LEMMA SetKeeps ==
  ASSUME CardInv, NEW c \in Cards, NEW card, Set(c, card), CardKnown(card, agreed, Value(space))
  PROVE  CardInv'
<1>1. /\ UNCHANGED <<editor, space, others, agreed, header>> /\ DOMAIN cards' = Cards
      /\ cards'[c] = card /\ \A d \in Cards \ {c} : cards'[d] = cards[d]
  BY DEF Set, CardInv
<1>2. \A k, pairs, now : CardKnown(k, pairs, now)' <=> CardKnown(k, pairs, now)
  BY <1>1 DEF CardKnown, EditKnown, KindsOf, Reflects, Shows
<1>3. \A d \in Cards : CardKnown(cards'[d], agreed, Value(space))
  BY <1>1 DEF CardInv
<1>4. Value(space)' = Value(space)
  BY <1>1 DEF Value
<1>5. \A d \in Cards : CardKnown(cards[d], agreed, Value(space))'
  BY <1>1, <1>2, <1>3, <1>4
<1>. QED BY <1>1, <1>5 DEF CardInv

(* A card sees the chain become something, and more is agreed to. *)
LEMMA CardKnownThen ==
  ASSUME NEW card, NEW pairs, NEW now, CardKnown(card, pairs, now), card.reading # "closed",
         NEW more, NEW value
  PROVE  CardKnown([card EXCEPT !.had = @ \cup {value}], pairs \cup more, value)
<1>1. PICK seen : seen = [card EXCEPT !.had = @ \cup {value}]
  OBVIOUS
<1>2. /\ IsCard(seen) /\ seen.had = card.had \cup {value}
      /\ seen.account = card.account /\ seen.reading = card.reading /\ seen.owner = card.owner
      /\ seen.value = card.value /\ seen.fee = card.fee
      /\ seen.typed = card.typed /\ seen.since = card.since
      /\ seen.acknowledged = card.acknowledged /\ seen.edit = card.edit
  BY <1>1 DEF CardKnown, IsCard
<1>3. card.edit # NoEdit => EditKnown(seen, pairs \cup more)
  BY <1>2 DEF CardKnown, EditKnown
<1>4. card.value # Unread => Reflects(seen)
  BY <1>2 DEF CardKnown, Reflects, Shows
<1>5. CardKnown(seen, pairs \cup more, value)
  BY <1>2, <1>3, <1>4 DEF CardKnown
<1>. QED BY <1>1, <1>5

\* A card whose edit, and whatever the chain has been, stay.
LEMMA SameEdit ==
  ASSUME NEW k, NEW card, NEW pairs, NEW now, CardKnown(k, pairs, now), IsCard(card),
         card.edit = k.edit, card.had = k.had, k.reading # "closed", card.reading = k.reading,
         card.value = k.value, card.typed = k.typed, card.since = k.since,
         card.acknowledged \in BOOLEAN,
         card.acknowledged => /\ editor = "status" /\ card.reading = "done"
                              /\ <<card.owner, card.fee>> \in pairs
  PROVE  CardKnown(card, pairs, now)
<1>1. card.edit # NoEdit => EditKnown(card, pairs)
  BY DEF CardKnown, EditKnown
<1>2. card.value # Unread => Reflects(card)
  BY DEF CardKnown, Reflects, Shows
<1>. QED BY <1>1, <1>2 DEF CardKnown

LEMMA KindsAreKinds ==
  CardInv => KindsOf \subseteq {"rename", "setIdentity", "setActive", "activate"}
BY DEF KindsOf, CardInv

(* What a call that does not revert makes of the chain. *)
LEMMA CallEffect ==
  ASSUME CardInv, NEW call, call.kind \in {"rename", "setIdentity", "setActive", "activate"},
         Executes(call, space), NEW pairs, agreed \subseteq pairs,
         call.kind = "activate" => <<call.by, call.value>> \in pairs,
         call.kind = "setIdentity" => IsIdentity(call.value)
  PROVE  /\ IsSpace(Effects(call, space))
         /\ Effects(call, space).configured =>
              <<Effects(call, space).activator, Effects(call, space).fee>> \in pairs
         /\ call.kind \in KindsOf => Value(Effects(call, space)) = Saved(call)
<1>0. IsSpace(space) /\ (space.configured => <<space.activator, space.fee>> \in agreed)
  BY DEF CardInv
<1>1. PICK s : s = Effects(call, space)
  OBVIOUS
<1>2. CASE call.kind = "rename"
  <2>1. s = [space EXCEPT !.name = call.value]
    BY <1>1, <1>2 DEF Effects
  <2>2. call.kind \in KindsOf => editor = "name"
    BY <1>2 DEF KindsOf, CardInv
  <2>. QED BY <1>0, <1>1, <1>2, <2>1, <2>2 DEF IsSpace, Value, Saved
<1>3. CASE call.kind = "setIdentity"
  <2>1. s = [space EXCEPT !.identity = call.value]
    BY <1>1, <1>3 DEF Effects
  <2>2. call.kind \in KindsOf => editor = "identity"
    BY <1>3 DEF KindsOf, CardInv
  <2>. QED BY <1>0, <1>1, <1>3, <2>1, <2>2 DEF IsSpace, Value, Saved
<1>4. CASE call.kind = "setActive"
  <2>1. s = [space EXCEPT !.active = call.value] /\ space.configured
    BY <1>1, <1>4 DEF Effects, Executes
  <2>2. call.kind \in KindsOf => editor = "status"
    BY <1>4 DEF KindsOf, CardInv
  <2>3. space.configured = TRUE
    BY <1>0, <2>1 DEF IsSpace
  <2>4. IsSpace(s) /\ s.active = call.value /\ s.configured = TRUE /\ s.activator = space.activator
        /\ s.fee = space.fee
    BY <1>0, <2>1, <2>3 DEF IsSpace
  <2>5. call.kind \in KindsOf => Value(s) = Saved(call)
    BY <1>4, <2>2, <2>4 DEF Value, Saved
  <2>. QED BY <1>0, <1>1, <2>1, <2>4, <2>5
<1>5. CASE call.kind = "activate"
  <2>1. s = [space EXCEPT !.active = TRUE, !.configured = TRUE,
                          !.fee = call.value, !.activator = call.by]
    BY <1>1, <1>5 DEF Effects
  <2>2. call.kind \in KindsOf => editor = "status"
    BY <1>5 DEF KindsOf, CardInv
  <2>4. IsSpace(s) /\ s.active = TRUE /\ s.configured = TRUE /\ s.activator = call.by
        /\ s.fee = call.value
    BY <1>0, <2>1 DEF IsSpace
  <2>5. call.kind \in KindsOf => Value(s) = Saved(call)
    BY <1>5, <2>2, <2>4 DEF Value, Saved
  <2>. QED BY <1>1, <1>5, <2>4, <2>5
<1>. QED BY <1>2, <1>3, <1>4, <1>5

(* The chain changes elsewhere: every open card could have read it. *)
LEMMA BecomesKeeps ==
  ASSUME CardInv, NEW s, NEW more, Becomes(s), UNCHANGED <<editor, header>>,
         agreed' = agreed \cup more,
         IsSpace(s), s.configured => <<s.activator, s.fee>> \in agreed \cup more
  PROVE  CardInv'
<1>0. PICK value : value = Value(s)
  OBVIOUS
<1>1. /\ space' = s /\ DOMAIN cards' = Cards /\ Value(space)' = value
      /\ \A c \in Cards : cards'[c] = IF cards[c].reading = "closed" THEN cards[c]
                                      ELSE [cards[c] EXCEPT !.had = @ \cup {value}]
  BY <1>0 DEF Becomes, Value
<1>2. \A k, pairs, now : CardKnown(k, pairs, now)' <=> CardKnown(k, pairs, now)
  BY DEF CardKnown, EditKnown, KindsOf, Reflects, Shows
<1>3. ASSUME NEW c \in Cards PROVE CardKnown(cards'[c], agreed \cup more, value)
  <2>0. PICK now, card : now = Value(space) /\ card = cards[c]
    OBVIOUS
  <2>1. CardKnown(card, agreed, now)
    BY <2>0 DEF CardInv
  <2>2. CASE card.reading = "closed"
    <3>1. cards'[c] = card
      BY <1>1, <2>0, <2>2
    <3>2. card.edit = NoEdit /\ ~card.acknowledged
      BY <2>1, <2>2 DEF CardKnown
    <3>. QED BY <2>1, <2>2, <3>1, <3>2 DEF CardKnown
  <2>3. CASE card.reading # "closed"
    <3>1. CardKnown([card EXCEPT !.had = @ \cup {value}], agreed \cup more, value)
      BY <2>1, <2>3, CardKnownThen
    <3>. QED BY <1>1, <2>0, <2>3, <3>1
  <2>. QED BY <2>2, <2>3
<1>4. \A c \in Cards : CardKnown(cards[c], agreed, Value(space))'
  BY <1>1, <1>2, <1>3
<1>. QED BY <1>1, <1>4 DEF CardInv

(* The call of a card is carried out, or reverts. *)
LEMMA IncludeKeeps ==
  ASSUME CardInv, NEW c \in Cards, IncludeEdit(c)
  PROVE  CardInv'
<1>. PICK call, now : call = cards[c].edit.call /\ now = Value(space)
  OBVIOUS
<1>0. PICK s : s = IF Executes(call, space) THEN Effects(call, space) ELSE space
  OBVIOUS
<1>1. CardKnown(cards[c], agreed, now) /\ cards[c].edit.step = "sent" /\ cards[c].edit # NoEdit
  BY DEF CardInv, IncludeEdit, NoEdit
<1>2. /\ EditKnown(cards[c], agreed) /\ cards[c].reading # "closed"
      /\ call.kind \in KindsOf
      /\ call.kind \in {"rename", "setIdentity", "setActive", "activate"}
  BY <1>1, KindsAreKinds DEF CardKnown, EditKnown
<1>3. /\ call.kind = "activate" => <<call.by, call.value>> \in agreed
      /\ call.kind = "setIdentity" => IsIdentity(call.value)
  <2>1. call.kind = "setIdentity" => editor = "identity"
    BY <1>2 DEF KindsOf, CardInv
  <2>. QED BY <1>2, <2>1 DEF EditKnown
<1>4. /\ IsSpace(s) /\ (s.configured => <<s.activator, s.fee>> \in agreed)
      /\ Executes(call, space) => Value(s) = Saved(call)
  <2>1. CASE Executes(call, space)
    <3>1. s = Effects(call, space)
      BY <1>0, <2>1
    <3>. QED BY <1>2, <1>3, <2>1, <3>1, CallEffect
  <2>2. CASE ~Executes(call, space)
    BY <1>0, <2>2 DEF CardInv
  <2>. QED BY <2>1, <2>2
<1>5. PICK outcome, value : /\ outcome = IF Executes(call, space) THEN "success" ELSE "reverted"
                            /\ value = Value(s)
  OBVIOUS
<1> DEFINE seen(d) == IF cards[d].reading = "closed" THEN cards[d]
                      ELSE [cards[d] EXCEPT !.had = @ \cup {value}]
<1>6. /\ space' = s /\ UNCHANGED <<editor, others, agreed, header>>
      /\ cards' = [d \in Cards |-> IF d = c THEN [seen(d) EXCEPT !.edit.step = outcome] ELSE seen(d)]
  BY <1>0, <1>5 DEF IncludeEdit
<1>7. ASSUME NEW d \in Cards PROVE CardKnown(seen(d), agreed, value)
  <2>0. PICK card : card = cards[d]
    OBVIOUS
  <2>1. CardKnown(card, agreed, now)
    BY <2>0 DEF CardInv
  <2>2. CASE card.reading = "closed"
    <3>1. card.edit = NoEdit /\ ~card.acknowledged
      BY <2>1, <2>2 DEF CardKnown
    <3>. QED BY <2>0, <2>1, <2>2, <3>1 DEF CardKnown
  <2>3. CASE card.reading # "closed"
    <3>1. CardKnown([card EXCEPT !.had = @ \cup {value}], agreed \cup {}, value)
      BY <2>1, <2>3, CardKnownThen
    <3>. QED BY <2>0, <2>3, <3>1
  <2>. QED BY <2>2, <2>3
<1>8. PICK before : before = seen(c)
  OBVIOUS
<1>9. /\ CardKnown(before, agreed, value) /\ value \in before.had
      /\ before.edit = cards[c].edit /\ before.reading # "closed"
  <2>1. before = [cards[c] EXCEPT !.had = @ \cup {value}]
    BY <1>2, <1>8
  <2>. QED BY <1>1, <1>2, <1>7, <1>8, <2>1 DEF CardKnown, IsCard
<1>10. PICK after : after = [before EXCEPT !.edit.step = outcome]
  OBVIOUS
<1>11. CardKnown(after, agreed, value)
  <2>1. EditKnown(before, agreed)
    BY <1>1, <1>9 DEF CardKnown
  <2>2. PICK e : e = before.edit
    OBVIOUS
  <2>3. e = [step |-> e.step, call |-> e.call] /\ e.call = call
    BY <1>9, <2>1, <2>2 DEF EditKnown
  <2>4. [e EXCEPT !.step = outcome] = [step |-> outcome, call |-> call]
    BY <2>3
  <2>5. after = [before EXCEPT !.edit = [step |-> outcome, call |-> call]]
    BY <1>10, <2>2, <2>4
  <2>6. /\ IsCard(after) /\ after.edit = [step |-> outcome, call |-> call]
        /\ after.account = before.account /\ after.reading = before.reading
        /\ after.owner = before.owner /\ after.value = before.value /\ after.fee = before.fee
        /\ after.typed = before.typed /\ after.since = before.since
        /\ after.acknowledged = before.acknowledged /\ after.had = before.had
    BY <1>9, <2>5 DEF CardKnown, IsCard
  <2>7. EditKnown(after, agreed)
    BY <1>2, <1>3, <1>4, <1>5, <1>9, <2>1, <2>2, <2>3, <2>6 DEF EditKnown
  <2>8. before.value # Unread => Reflects(after)
    BY <1>9, <2>6 DEF CardKnown, Reflects, Shows
  <2>. QED BY <1>9, <2>6, <2>7, <2>8 DEF CardKnown
<1>12. \A d \in Cards : CardKnown(cards'[d], agreed, value)
  BY <1>6, <1>7, <1>8, <1>10, <1>11
<1>13. \A k, pairs, then : CardKnown(k, pairs, then)' <=> CardKnown(k, pairs, then)
  BY <1>6 DEF CardKnown, EditKnown, KindsOf, Reflects, Shows
<1>14. Value(space)' = value
  BY <1>5, <1>6 DEF Value
<1>15. DOMAIN cards' = Cards /\ \A d \in Cards : CardKnown(cards[d], agreed, Value(space))'
  BY <1>6, <1>12, <1>13, <1>14
<1>. QED BY <1>4, <1>6, <1>15 DEF CardInv

(* The steps of a card's reads. *)
LEMMA ReadsKeep ==
  ASSUME CardInv, NEW c \in Cards,
         OpenCard(c) \/ ReadOwner(c) \/ ReadValue(c) \/ ReadFails(c) \/ ChangeAccount(c)
  PROVE  CardInv'
<1>0. PICK k, value : k = cards[c] /\ value = Value(space)
  OBVIOUS
<1>1. CardKnown(k, agreed, value) /\ IsCard(k)
  BY <1>0 DEF CardInv, CardKnown
<1>3. CASE OpenCard(c)
  <2>1. PICK card : card = [k EXCEPT !.reading = "owner", !.had = {value}]
    OBVIOUS
  <2>2. /\ k.value = Unread /\ k.edit = NoEdit /\ k.acknowledged = FALSE
        /\ editor # "account"
    BY <1>0, <1>1, <1>3 DEF OpenCard, CardKnown
  <2>3. IsCard(card) /\ card.edit = NoEdit /\ card.had = {value} /\ card.reading = "owner"
        /\ card.value = Unread /\ card.acknowledged = FALSE
    BY <1>1, <2>1, <2>2 DEF IsCard
  <2>4. CardKnown(card, agreed, value)
    BY <2>2, <2>3 DEF CardKnown
  <2>. QED BY <1>0, <1>3, <2>1, <2>4, SetKeeps DEF OpenCard
<1>4. CASE ReadOwner(c)
  <2>1. PICK card : card = [k EXCEPT !.reading = "value", !.found = space.holder]
    OBVIOUS
  <2>2. /\ k.reading = "owner" /\ ~k.acknowledged
        /\ editor \in {"identity", "status"} => k.value = Unread
        /\ editor = "identity" => k.edit = NoEdit
    BY <1>0, <1>1, <1>4 DEF ReadOwner, CardKnown, EditKnown, Reflects
  <2>3. IsCard(card) /\ card.edit = k.edit /\ card.had = k.had /\ card.reading = "value"
        /\ card.value = k.value /\ card.acknowledged = k.acknowledged
        /\ card.typed = k.typed
    BY <1>1, <2>1 DEF IsCard
  <2>4. card.value # Unread => Reflects(card)
    BY <1>1, <2>2, <2>3 DEF CardKnown, Reflects, Shows
  <2>5. card.edit # NoEdit => EditKnown(card, agreed)
    BY <1>1, <2>2, <2>3 DEF CardKnown, EditKnown
  <2>6. CardKnown(card, agreed, value)
    BY <1>1, <2>2, <2>3, <2>4, <2>5 DEF CardKnown
  <2>. QED BY <1>0, <1>4, <2>1, <2>6, SetKeeps DEF ReadOwner
<1>5. CASE ReadValue(c)
  <2>0. PICK next : next = NextReading(c, value)
    OBVIOUS
  <2>1. PICK card : card = [k EXCEPT !.reading = next, !.found = Unread,
                                     !.owner = k.found, !.value = value]
    OBVIOUS
  <2>2. next \in {"owner", "done"} /\ (editor \in {"identity", "status"} => next = "done")
    BY <2>0 DEF NextReading
  <2>3. /\ k.reading = "value" /\ ~k.acknowledged /\ value \in k.had
        /\ editor = "identity" => k.edit = NoEdit
    BY <1>0, <1>1, <1>5 DEF ReadValue, CardKnown, EditKnown
  <2>4. IsCard(card) /\ card.edit = k.edit /\ card.had = k.had /\ card.reading = next
        /\ card.value = value /\ card.acknowledged = k.acknowledged
    BY <1>1, <2>1 DEF IsCard
  <2>5. Reflects(card)
    <3>1. Shows(card, value)
      BY <2>4 DEF Shows
    <3>2. editor = "identity" => IsIdentity(value)
      BY <1>0 DEF CardInv, IsSpace, Value
    <3>. QED BY <2>2, <2>3, <2>4, <3>1, <3>2 DEF Reflects
  <2>6. card.edit # NoEdit => EditKnown(card, agreed)
    BY <1>1, <2>3, <2>4 DEF CardKnown, EditKnown
  <2>7. CardKnown(card, agreed, value)
    BY <1>1, <2>2, <2>3, <2>4, <2>5, <2>6 DEF CardKnown
  <2>. QED BY <1>0, <1>5, <2>0, <2>1, <2>7, SetKeeps DEF ReadValue
<1>6. CASE ReadFails(c)
  <2>1. PICK card : card = [k EXCEPT !.reading = "done", !.found = Unread]
    OBVIOUS
  <2>2. k.reading \in {"owner", "value"}
    BY <1>0, <1>6 DEF ReadFails
  <2>3. IsCard(card) /\ card.edit = k.edit /\ card.had = k.had /\ card.reading = "done"
        /\ card.value = k.value /\ card.acknowledged = k.acknowledged
        /\ card.typed = k.typed /\ card.since = k.since
    BY <1>1, <2>1 DEF IsCard
  <2>4. card.value # Unread => Reflects(card)
    BY <1>1, <2>3 DEF CardKnown, Reflects, Shows
  <2>5. card.edit # NoEdit => EditKnown(card, agreed)
    BY <1>1, <2>3 DEF CardKnown, EditKnown
  <2>6. CardKnown(card, agreed, value)
    BY <1>1, <2>2, <2>3, <2>4, <2>5 DEF CardKnown
  <2>. QED BY <1>0, <1>6, <2>1, <2>6, SetKeeps DEF ReadFails
<1>7. CASE ChangeAccount(c)
  <2>1. PICK v : Set(c, [k EXCEPT !.account = v]) /\ k.reading # "closed"
    BY <1>0, <1>7 DEF ChangeAccount
  <2>2. PICK card : card = [k EXCEPT !.account = v]
    OBVIOUS
  <2>3. IsCard(card) /\ card.edit = k.edit /\ card.had = k.had /\ card.reading = k.reading
        /\ card.value = k.value /\ card.acknowledged = k.acknowledged
        /\ card.owner = k.owner /\ card.fee = k.fee
        /\ card.typed = k.typed /\ card.since = k.since
    BY <1>1, <2>2 DEF IsCard
  <2>4. CardKnown(card, agreed, value)
    BY <1>1, <2>1, <2>3, SameEdit DEF CardKnown
  <2>. QED BY <1>0, <2>1, <2>2, <2>4, SetKeeps
<1>. QED BY <1>3, <1>4, <1>5, <1>6, <1>7

(* The steps of the form and of the button. *)
LEMMA FormKeeps ==
  ASSUME CardInv, NEW c \in Cards,
         TypeIdentity(c) \/ TypeFee(c) \/ Acknowledge(c) \/ PressEdit(c)
  PROVE  CardInv'
<1>0. PICK k, value : k = cards[c] /\ value = Value(space)
  OBVIOUS
<1>1. CardKnown(k, agreed, value) /\ IsCard(k)
  BY <1>0 DEF CardInv, CardKnown
<1>2. CASE TypeFee(c)
  <2>1. PICK f : Set(c, [k EXCEPT !.fee = f, !.acknowledged = FALSE]) /\ k.value # Unread
    BY <1>0, <1>2 DEF TypeFee, FormShown
  <2>2. PICK card : card = [k EXCEPT !.fee = f, !.acknowledged = FALSE]
    OBVIOUS
  <2>3. IsCard(card) /\ card.edit = k.edit /\ card.had = k.had /\ card.reading = k.reading
        /\ card.value = k.value /\ card.acknowledged = FALSE
        /\ card.typed = k.typed /\ card.since = k.since
    BY <1>1, <2>2 DEF IsCard
  <2>4. k.reading # "closed"
    BY <1>1, <2>1 DEF CardKnown
  <2>5. CardKnown(card, agreed, value)
    BY <1>1, <2>3, <2>4, SameEdit
  <2>. QED BY <1>0, <2>1, <2>2, <2>5, SetKeeps
<1>3. CASE PressEdit(c)
  <2>1. PICK call \in Edits(c) :
          Set(c, [k EXCEPT !.edit = [step |-> "simulate", call |-> call], !.since = {}])
    BY <1>0, <1>3 DEF PressEdit
  <2>2. k.owner = k.account /\ k.value # Unread
    BY <1>0, <1>3 DEF PressEdit, Offers
  <2>3. PICK card : card = [k EXCEPT !.edit = [step |-> "simulate", call |-> call], !.since = {}]
    OBVIOUS
  <2>4. IsCard(card) /\ card.edit = [step |-> "simulate", call |-> call] /\ card.had = k.had
        /\ card.reading = k.reading /\ card.value = k.value /\ card.acknowledged = k.acknowledged
        /\ card.owner = k.owner /\ card.fee = k.fee /\ card.typed = k.typed
    BY <1>1, <2>3 DEF IsCard
  <2>5. call.kind \in KindsOf /\ (call.kind = "activate" => <<call.by, call.value>> \in agreed)
    <3>1. CASE editor = "name"
      BY <1>0, <2>1, <3>1 DEF Edits, KindsOf
    <3>2. CASE editor = "identity"
      BY <1>0, <2>1, <3>2 DEF Edits, KindsOf
    <3>3. CASE editor = "status"
      <4>1. CASE k.value.configured
        BY <1>0, <2>1, <3>3, <4>1 DEF Edits, KindsOf
      <4>2. CASE ~k.value.configured
        <5>1. /\ k.acknowledged
              /\ call = [kind |-> "activate", value |-> k.fee, by |-> k.account]
          BY <1>0, <2>1, <3>3, <4>2 DEF Edits
        <5>2. <<k.owner, k.fee>> \in agreed
          BY <1>1, <5>1 DEF CardKnown
        <5>. QED BY <2>2, <3>3, <5>1, <5>2 DEF KindsOf
      <4>. QED BY <4>1, <4>2
    <3>4. editor # "account"
      BY <1>1, <2>2 DEF CardKnown
    <3>. QED BY <3>1, <3>2, <3>3, <3>4 DEF CardInv
  <2>6. Reflects(k) /\ k.reading # "closed"
    BY <1>1, <2>2 DEF CardKnown
  <2>7. Reflects(card)
    BY <2>4, <2>6 DEF Reflects, Shows
  <2>8. editor = "identity" => k.value = call.value /\ IsIdentity(k.value) /\ k.reading = "done"
    BY <1>0, <2>1, <2>6 DEF Edits, Reflects
  <2>9. EditKnown(card, agreed)
    BY <2>4, <2>5, <2>8 DEF EditKnown
  <2>10. CardKnown(card, agreed, value)
    BY <1>1, <2>2, <2>4, <2>6, <2>7, <2>9 DEF CardKnown
  <2>. QED BY <1>0, <2>1, <2>3, <2>10, SetKeeps
<1>4. CASE Acknowledge(c)
  <2>1. PICK more : /\ agreed' = agreed \cup more
                    /\ ~k.acknowledged => <<k.account, k.fee>> \in more
    <3>1. PICK more : more = IF k.acknowledged THEN {} ELSE {<<k.account, k.fee>>}
      OBVIOUS
    <3>. QED BY <1>0, <1>4, <3>1 DEF Acknowledge
  <2>2. /\ UNCHANGED <<editor, space, header>> /\ cards' = [cards EXCEPT ![c].acknowledged = ~@]
        /\ editor = "status" /\ k.owner = k.account /\ k.value # Unread
    BY <1>0, <1>4 DEF Acknowledge, FormShown
  <2>3. PICK card : card = [k EXCEPT !.acknowledged = ~@]
    OBVIOUS
  <2>4. DOMAIN cards' = Cards /\ cards'[c] = card /\ \A d \in Cards \ {c} : cards'[d] = cards[d]
    BY <1>0, <2>2, <2>3 DEF CardInv
  <2>5. IsCard(card) /\ card.edit = k.edit /\ card.had = k.had /\ card.reading = k.reading
        /\ card.value = k.value /\ card.acknowledged = (~k.acknowledged)
        /\ card.owner = k.owner /\ card.fee = k.fee /\ card.typed = k.typed
    BY <1>1, <2>3 DEF IsCard
  <2>6. k.reading = "done" /\ Reflects(k)
    BY <1>1, <2>2 DEF CardKnown, Reflects
  <2>7. CardKnown(card, agreed', value)
    <3>1. Reflects(card)
      BY <2>5, <2>6 DEF Reflects, Shows
    <3>2. card.edit # NoEdit => EditKnown(card, agreed')
      BY <1>1, <2>1, <2>2, <2>5 DEF CardKnown, EditKnown
    <3>. QED BY <1>1, <2>1, <2>2, <2>5, <2>6, <3>1, <3>2 DEF CardKnown
  <2>8. ASSUME NEW d \in Cards PROVE CardKnown(cards'[d], agreed', value)
    <3>1. CASE d = c
      BY <2>4, <2>7, <3>1
    <3>2. CASE d # c
      <4>1. CardKnown(cards[d], agreed, value)
        BY <1>0 DEF CardInv
      <4>. QED BY <2>1, <2>4, <3>2, <4>1 DEF CardKnown, EditKnown
    <3>. QED BY <3>1, <3>2
  <2>9. \A other, pairs, now : CardKnown(other, pairs, now)' <=> CardKnown(other, pairs, now)
    BY <2>2 DEF CardKnown, EditKnown, KindsOf, Reflects, Shows
  <2>10. Value(space)' = value
    BY <1>0, <2>2 DEF Value
  <2>11. \A d \in Cards : CardKnown(cards[d], agreed, Value(space))'
    BY <2>8, <2>9, <2>10
  <2>. QED BY <2>1, <2>2, <2>4, <2>11 DEF CardInv
<1>5. CASE TypeIdentity(c)
  <2>1. PICK f \in Fields :
          Set(c, [k EXCEPT !.value[f] = c, !.typed = @ \cup {f}, !.since = @ \cup {f}])
    BY <1>0, <1>5 DEF TypeIdentity
  <2>2. editor = "identity" /\ k.value # Unread
    BY <1>0, <1>5 DEF TypeIdentity
  <2>3. Reflects(k) /\ k.reading = "done" /\ IsIdentity(k.value) /\ ~k.acknowledged
    BY <1>1, <2>2 DEF CardKnown, Reflects
  <2>4. PICK v, typed, since : /\ v = [k.value EXCEPT ![f] = c]
                               /\ typed = k.typed \cup {f} /\ since = k.since \cup {f}
    OBVIOUS
  <2>5. IsIdentity(v) /\ \A g \in Fields \ {f} : v[g] = k.value[g]
    BY <2>3, <2>4 DEF IsIdentity, Fields
  <2>6. PICK card : card = [k EXCEPT !.value = v, !.typed = typed, !.since = since]
    OBVIOUS
  <2>7. Set(c, card)
    BY <2>1, <2>4, <2>6
  <2>8. IsCard(card) /\ card.edit = k.edit /\ card.had = k.had /\ card.reading = k.reading
        /\ card.value = v /\ card.acknowledged = k.acknowledged
        /\ card.owner = k.owner /\ card.fee = k.fee /\ card.typed = typed /\ card.since = since
    BY <1>1, <2>6 DEF IsCard
  <2>9. Reflects(card)
    BY <2>2, <2>3, <2>4, <2>5, <2>8 DEF Reflects, Shows
  <2>10. card.edit # NoEdit => EditKnown(card, agreed)
    <3>1. SUFFICES ASSUME k.edit # NoEdit PROVE EditKnown(card, agreed)
      BY <2>8
    <3>2. EditKnown(k, agreed)
      BY <1>1, <3>1 DEF CardKnown
    <3>. QED BY <2>2, <2>3, <2>4, <2>5, <2>8, <3>2 DEF EditKnown
  <2>11. CardKnown(card, agreed, value)
    BY <1>1, <2>3, <2>8, <2>9, <2>10 DEF CardKnown
  <2>. QED BY <1>0, <2>7, <2>11, SetKeeps
<1>. QED BY <1>2, <1>3, <1>4, <1>5

LEMMA EditStepKeeps ==
  ASSUME CardInv, NEW c \in Cards,
         SendEdit(c) \/ EditFails(c) \/ EditReverted(c) \/ EditConfirmed(c)
  PROVE  CardInv'
<1>0. PICK k, value : k = cards[c] /\ value = Value(space)
  OBVIOUS
<1>1. CardKnown(k, agreed, value) /\ IsCard(k)
  BY <1>0 DEF CardInv, CardKnown
<1>2. k.edit.step \in {"simulate", "sent", "success", "reverted"} => k.edit # NoEdit
  BY DEF NoEdit
<1>3. k.edit # NoEdit => EditKnown(k, agreed) /\ k.reading # "closed"
  BY <1>1 DEF CardKnown
<1>4. CASE SendEdit(c)
  <2>1. k.edit.step = "simulate"
    BY <1>0, <1>4 DEF SendEdit
  <2>2. PICK card : card = [k EXCEPT !.edit = [step |-> "sent", call |-> k.edit.call]]
    OBVIOUS
  <2>3. EditKnown(k, agreed) /\ [k EXCEPT !.edit.step = "sent"] = card
    BY <1>2, <1>3, <2>1, <2>2 DEF EditKnown
  <2>4. IsCard(card) /\ card.edit = [step |-> "sent", call |-> k.edit.call] /\ card.had = k.had
        /\ card.reading = k.reading /\ card.value = k.value /\ card.acknowledged = k.acknowledged
        /\ card.owner = k.owner /\ card.fee = k.fee
        /\ card.typed = k.typed /\ card.since = k.since
    BY <1>1, <2>2 DEF IsCard
  <2>5. EditKnown(card, agreed)
    BY <2>3, <2>4 DEF EditKnown
  <2>6. CardKnown(card, agreed, value)
    <3>1. k.value # Unread => Reflects(card)
      BY <1>1, <2>4 DEF CardKnown, Reflects, Shows
    <3>. QED BY <1>1, <1>2, <1>3, <2>1, <2>4, <2>5, <3>1 DEF CardKnown
  <2>7. Set(c, card)
    BY <1>0, <1>4, <2>3 DEF SendEdit
  <2>. QED BY <1>0, <2>6, <2>7, SetKeeps
<1>5. CASE EditFails(c) \/ EditReverted(c)
  <2>1. PICK card : card = [k EXCEPT !.edit = NoEdit]
    OBVIOUS
  <2>2. Set(c, card)
    BY <1>0, <1>5, <2>1 DEF EditFails, EditReverted
  <2>3. IsCard(card) /\ card.edit = NoEdit /\ card.had = k.had
        /\ card.reading = k.reading /\ card.value = k.value /\ card.acknowledged = k.acknowledged
        /\ card.owner = k.owner /\ card.fee = k.fee /\ card.typed = k.typed
    BY <1>1, <2>1 DEF IsCard
  <2>4. CardKnown(card, agreed, value)
    <3>1. k.value # Unread => Reflects(card)
      BY <1>1, <2>3 DEF CardKnown, Reflects, Shows
    <3>. QED BY <1>1, <2>3, <3>1 DEF CardKnown
  <2>. QED BY <1>0, <2>2, <2>4, SetKeeps
<1>6. CASE EditConfirmed(c)
  <2>1. PICK saved, display, typed, next :
          /\ saved = Saved(k.edit.call) /\ display = Refreshed(k)
          /\ typed = k.since \ {"about"} /\ next = NextReading(c, display)
    OBVIOUS
  <2>2. PICK card : card = [k EXCEPT !.edit = NoEdit, !.value = display, !.typed = typed,
                                     !.acknowledged = FALSE, !.reading = next]
    OBVIOUS
  <2>3. k.edit.step = "success" /\ Set(c, card)
    BY <1>0, <1>6, <2>1, <2>2 DEF EditConfirmed
  <2>4. next \in {"owner", "done"} /\ (editor \in {"identity", "status"} => next = "done")
    BY <2>1 DEF NextReading
  <2>5. saved \in k.had /\ k.reading # "closed" /\ EditKnown(k, agreed)
    BY <1>2, <1>3, <2>1, <2>3 DEF EditKnown
  <2>6. IsCard(card) /\ card.edit = NoEdit /\ card.had = k.had /\ card.typed = typed
        /\ card.reading = next /\ card.value = display /\ card.acknowledged = FALSE
    BY <1>1, <2>2 DEF IsCard
  <2>7. Reflects(card)
    <3>1. CASE editor = "identity"
      <4>1. saved = k.edit.call.value
        BY <2>1, <2>5, <3>1 DEF EditKnown, KindsOf, Saved
      <4>2. IsIdentity(saved) /\ display = [saved EXCEPT !.links = k.value.links]
        BY <2>1, <2>5, <3>1, <4>1 DEF EditKnown, Refreshed
      <4>3. IsIdentity(display) /\ display.about = saved.about /\ display.links = k.value.links
        BY <4>2 DEF IsIdentity
      <4>4. "links" \notin k.since => k.value.links = saved.links
        BY <2>5, <3>1, <4>1 DEF EditKnown, Fields
      <4>5. Shows(card, saved)
        BY <2>1, <2>6, <3>1, <4>3, <4>4 DEF Shows, Fields
      <4>. QED BY <2>4, <2>5, <2>6, <3>1, <4>3, <4>5 DEF Reflects
    <3>2. CASE editor # "identity"
      <4>1. display = saved
        BY <2>1, <3>2 DEF Refreshed
      <4>2. Shows(card, saved)
        BY <2>6, <3>2, <4>1 DEF Shows
      <4>. QED BY <2>4, <2>5, <2>6, <3>2, <4>2 DEF Reflects
    <3>. QED BY <3>1, <3>2
  <2>8. CardKnown(card, agreed, value)
    BY <1>1, <2>4, <2>5, <2>6, <2>7 DEF CardKnown
  <2>. QED BY <1>0, <2>3, <2>8, SetKeeps
<1>. QED BY <1>4, <1>5, <1>6

(* A name or a status shown is what the chain has been since the card was  *)
(* opened, and so is, of one moment, what nobody typed into the form of an *)
(* identity since; the first fee of a chain is one its activator           *)
(* acknowledged; for any number of cards, visitors, sales and edits, those *)
(* declined or reverted among them (web/app/ChainsCard.tsx,                *)
(* ChainIdentityEditor.tsx:73, :83).                                       *)
THEOREM CardsTellTruth == CardSpec => []CardTellsTruth
<1>1. CardInit => CardInv
  <2> SUFFICES ASSUME CardInit PROVE CardInv
    OBVIOUS
  <2>1. IsSpace(space) /\ space.configured = FALSE
    BY DEF CardInit, IsSpace, IsIdentity, Untouched
  <2>2. ASSUME NEW c \in Cards, NEW now PROVE CardKnown(cards[c], {}, now)
    <3>1. PICK k : k = cards[c]
      OBVIOUS
    <3>2. /\ k.reading = "closed" /\ k.value = Unread /\ k.edit = NoEdit /\ k.acknowledged = FALSE
          /\ IsCard(k)
      BY <3>1 DEF CardInit, IsCard
    <3>. QED BY <3>1, <3>2 DEF CardKnown
  <2>3. /\ header = [account |-> header.account, profile |-> header.profile, awaited |-> header.awaited]
        /\ header.awaited = header.account /\ header.profile = Unread
    BY DEF CardInit
  <2>. QED BY <2>1, <2>2, <2>3 DEF CardInv, CardInit
<1>2. CardInv /\ [CardNext]_cardVars => CardInv'
  <2> SUFFICES ASSUME CardInv, [CardNext]_cardVars PROVE CardInv'
    OBVIOUS
  <2>1. CASE EditElsewhere
    <3>1. PICK call \in Elsewhere : /\ Becomes(Effects(call, space))
                                   /\ agreed' = agreed \cup (IF call.kind = "activate"
                                                             THEN {<<call.by, call.value>>} ELSE {})
      BY <2>1 DEF EditElsewhere
    <3>2. PICK more, s : /\ more = (IF call.kind = "activate" THEN {<<call.by, call.value>>} ELSE {})
                         /\ s = Effects(call, space)
      OBVIOUS
    <3>3. /\ Executes(call, space) /\ call.kind \in {"rename", "setIdentity", "setActive", "activate"}
          /\ call.kind = "setIdentity" => IsIdentity(call.value)
      BY DEF Elsewhere, IsIdentity, Untouched
    <3>4. call.kind = "activate" => <<call.by, call.value>> \in agreed \cup more
      BY <3>2
    <3>5. PICK pairs : pairs = agreed \cup more
      OBVIOUS
    <3>6. IsSpace(s) /\ (s.configured => <<s.activator, s.fee>> \in pairs)
      BY <3>2, <3>3, <3>4, <3>5, CallEffect
    <3>7. UNCHANGED <<editor, header>> /\ Becomes(s) /\ agreed' = agreed \cup more
      BY <2>1, <3>1, <3>2 DEF EditElsewhere
    <3>. QED BY <3>5, <3>6, <3>7, BecomesKeeps
  <2>2. CASE SellSpace
    <3>1. PICK v : Becomes([space EXCEPT !.holder = v]) /\ UNCHANGED <<editor, agreed, header>>
      BY <2>2 DEF SellSpace
    <3>2. PICK s : s = [space EXCEPT !.holder = v]
      OBVIOUS
    <3>3. IsSpace(s) /\ s.configured = space.configured /\ s.activator = space.activator
          /\ s.fee = space.fee
      BY <3>2 DEF CardInv, IsSpace
    <3>4. agreed' = agreed \cup {} /\ (s.configured => <<s.activator, s.fee>> \in agreed \cup {})
      BY <3>1, <3>3 DEF CardInv
    <3>. QED BY <3>1, <3>2, <3>3, <3>4, BecomesKeeps
  <2>3. ASSUME NEW c \in Cards,
               \/ OpenCard(c) \/ ReadOwner(c) \/ ReadValue(c) \/ ReadFails(c) \/ ChangeAccount(c)
               \/ TypeIdentity(c) \/ TypeFee(c) \/ Acknowledge(c)
               \/ PressEdit(c) \/ SendEdit(c) \/ EditFails(c) \/ IncludeEdit(c)
               \/ EditReverted(c) \/ EditConfirmed(c)
        PROVE  CardInv'
    BY <2>3, ReadsKeep, FormKeeps, EditStepKeeps, IncludeKeeps
  <2>4. CASE FollowAccount \/ ProfileArrives \/ UNCHANGED cardVars
    <3>1. UNCHANGED <<editor, space, cards, agreed>>
      BY <2>4 DEF FollowAccount, ProfileArrives, cardVars
    <3>2. \A k, pairs, now : CardKnown(k, pairs, now)' <=> CardKnown(k, pairs, now)
      BY <3>1 DEF CardKnown, EditKnown, KindsOf, Reflects, Shows
    <3>3. Value(space)' = Value(space)
      BY <3>1 DEF Value
    <3>4. \A c \in Cards : CardKnown(cards[c], agreed, Value(space))'
      BY <3>1, <3>2, <3>3 DEF CardInv
    <3>5. /\ header' = [account |-> header'.account, profile |-> header'.profile,
                        awaited |-> header'.awaited]
          /\ header'.awaited # Unread => header'.awaited = header'.account
          /\ header'.awaited = Unread => header'.profile \in {Unread, header'.account}
      <4>1. PICK h : h = header
        OBVIOUS
      <4>2. h = [account |-> h.account, profile |-> h.profile, awaited |-> h.awaited]
        BY <4>1 DEF CardInv
      <4>3. CASE FollowAccount
        <5>1. PICK v \in Visitors : header' = [h EXCEPT !.account = v, !.awaited = v]
          BY <4>1, <4>3 DEF FollowAccount
        <5>2. header' = [account |-> v, profile |-> h.profile, awaited |-> v]
          BY <4>2, <5>1
        <5>. QED BY <5>2, CardAssumption
      <4>4. CASE ProfileArrives
        <5>1. PICK p \in {h.awaited, Unread} : header' = [h EXCEPT !.profile = p, !.awaited = Unread]
          BY <4>1, <4>4 DEF ProfileArrives
        <5>2. header' = [account |-> h.account, profile |-> p, awaited |-> Unread]
          BY <4>2, <5>1
        <5>3. p \in {Unread, h.account}
          BY <4>1, <4>4 DEF ProfileArrives, CardInv
        <5>. QED BY <5>2, <5>3
      <4>5. CASE UNCHANGED cardVars
        BY <4>5 DEF cardVars, CardInv
      <4>. QED BY <2>4, <4>3, <4>4, <4>5
    <3>. QED BY <3>1, <3>4, <3>5 DEF CardInv
  <2>. QED BY <2>1, <2>2, <2>3, <2>4 DEF CardNext
<1>3. CardInv => CardTellsTruth
  BY DEF CardInv, CardTellsTruth, CardKnown, Reflects
<1>. QED BY <1>1, <1>2, <1>3, PTL DEF CardSpec

-----------------------------------------------------------------------------
(* The scans. *)

Events ==
  {<<"nothing">>}
    \cup {<<"registered", x>> : x \in ListedApps}
    \cup {<<"unregistered", x>> : x \in ListedApps}
    \cup {<<"transfer", g, h>> : g \in TokenHolders \cup {"nobody"}, h \in TokenHolders}
Blocks == [id : Nat, event : Events]

MadeBy(p, m) == \A i \in DOMAIN p : p[i].id <= m

(* The chain p is what the chain c was at p's height.                      *)
IsOn(p, c) == Len(p) <= Len(c) /\ SubSeq(c, 1, Len(p)) = p

(* The blocks of p below "from".                                           *)
Below(p, from) == SubSeq(p, 1, IF from - 1 <= Len(p) THEN from - 1 ELSE Len(p))

(* A pass has read what its pinned chain says, if that chain is canonical: *)
(* one that is abandoned does not come back.                               *)
MonitorSound(m, c, made0) ==
  \/ m = Idle
  \/ \E n \in Nat \ {0} : m = [step |-> "compare", confirmed |-> n]
  \/ \E n \in Nat \ {0}, from \in 1 .. Len(c) + 1 :
       /\ from - 1 <= n
       /\ m = [step |-> "pin", confirmed |-> n, from |-> from,
               known |-> AppsAfter({}, SubSeq(c, 1, from - 1))]
  \/ \E p \in Seq(Blocks), from \in Nat \ {0}, known \in SUBSET ListedApps :
       /\ Len(p) # 0 /\ MadeBy(p, made0)
       /\ IsOn(p, c) => known = AppsAfter({}, Below(p, from))
       /\ m = [step |-> "logs", confirmed |-> Len(p), from |-> from, known |-> known,
               pinned |-> p]
  \/ \E p \in Seq(Blocks) :
       m = [step |-> "write", confirmed |-> Len(p), known |-> AppsAfter({}, p), pinned |-> p]

InventorySound(m, c, made0) ==
  \/ m = Idle
  \/ \E p \in Seq(Blocks), from \in Nat \ {0}, l \in Seq(Blocks), r \in Seq(Blocks) :
       /\ Len(p) # 0 /\ MadeBy(p, made0)
       /\ IsOn(p, c) => l = Below(p, from)
       /\ r = <<>>
       /\ m = [step |-> "ledger", number |-> Len(p), pinned |-> p, from |-> from,
               ledger |-> l, apps |-> r]
  \/ \E p \in Seq(Blocks), from \in Nat \ {0}, l \in Seq(Blocks), r \in Seq(Blocks) :
       /\ Len(p) # 0 /\ MadeBy(p, made0)
       /\ IsOn(p, c) => l = p /\ r = Below(p, from)
       /\ m = [step |-> "apps", number |-> Len(p), pinned |-> p, from |-> from,
               ledger |-> l, apps |-> r]

MonitorFileSound(f) ==
  \/ f = NoFile
  \/ \E p \in Seq(Blocks) : f = [cursor |-> Len(p), hash |-> p, apps |-> AppsAfter({}, p)]

InventoryFileSound(f) ==
  \/ f = NoFile
  \/ \E p \in Seq(Blocks) :
       f = [hash |-> p, balances |-> Ledger(p), apps |-> AppsListed(p)]

ScansInv ==
  /\ canon \in Seq(Blocks) /\ Len(canon) # 0 /\ made \in Nat /\ MadeBy(canon, made)
  /\ straddled \in BOOLEAN
  /\ ~straddled => MonitorSound(monitor, canon, made) /\ MonitorFileSound(monitorFile)
  /\ InventorySound(inventory, canon, made) /\ InventoryFileSound(inventoryFile)

(* A part of a chain is its blocks in their order.                         *)
LEMMA PartOf ==
  ASSUME NEW c \in Seq(Blocks), NEW m \in Nat \ {0}, NEW n \in Nat, n <= Len(c)
  PROVE  /\ SubSeq(c, m, n) \in Seq(Blocks)
         /\ Len(SubSeq(c, m, n)) = IF m <= n THEN n - m + 1 ELSE 0
         /\ \A i \in 1 .. n - m + 1 : SubSeq(c, m, n)[i] = c[m + i - 1]
<1>1. m \in Int /\ n \in Int /\ \A i \in m .. n : c[i] \in Blocks
  <2>1. PICK len \in Nat : len = Len(c) /\ \A i \in 1 .. len : c[i] \in Blocks
    OBVIOUS
  <2>2. \A i \in m .. n : i \in 1 .. len
    BY <2>1
  <2>. QED BY <2>1, <2>2
<1>. QED BY ONLY <1>1, SubSeqProperties

(* The part from the bottom, of a chain, of a part and of a chain that has *)
(* grown.                                                                  *)
LEMMA Bottom ==
  ASSUME NEW c \in Seq(Blocks), NEW k \in Nat, k <= Len(c)
  PROVE  /\ SubSeq(c, 1, k) \in Seq(Blocks) /\ Len(SubSeq(c, 1, k)) = k
         /\ \A i \in 1 .. k : SubSeq(c, 1, k)[i] = c[i]
<1>1. /\ SubSeq(c, 1, k) \in Seq(Blocks)
      /\ Len(SubSeq(c, 1, k)) = IF 1 <= k THEN k - 1 + 1 ELSE 0
      /\ \A i \in 1 .. k - 1 + 1 : SubSeq(c, 1, k)[i] = c[1 + i - 1]
  BY PartOf
<1>2. (IF 1 <= k THEN k - 1 + 1 ELSE 0) = k /\ k - 1 + 1 = k /\ \A i \in 1 .. k : 1 + i - 1 = i
  OBVIOUS
<1>. QED BY <1>1, <1>2

LEMMA BottomOfPart ==
  ASSUME NEW c \in Seq(Blocks), NEW n \in Nat, n <= Len(c), NEW k \in Nat, k <= n
  PROVE  SubSeq(SubSeq(c, 1, n), 1, k) = SubSeq(c, 1, k)
<1>1. PICK d \in Seq(Blocks) : d = SubSeq(c, 1, n) /\ Len(d) = n /\ \A i \in 1 .. n : d[i] = c[i]
  BY Bottom
<1>2. /\ SubSeq(d, 1, k) \in Seq(Blocks) /\ Len(SubSeq(d, 1, k)) = k
      /\ \A i \in 1 .. k : SubSeq(d, 1, k)[i] = d[i]
  BY <1>1, Bottom
<1>3. k <= Len(c)
  OBVIOUS
<1>4. /\ SubSeq(c, 1, k) \in Seq(Blocks) /\ Len(SubSeq(c, 1, k)) = k
      /\ \A i \in 1 .. k : SubSeq(c, 1, k)[i] = c[i]
  BY <1>3, Bottom
<1>5. \A i \in 1 .. k : i \in 1 .. n
  OBVIOUS
<1>6. SubSeq(d, 1, k) = SubSeq(c, 1, k)
  BY <1>1, <1>2, <1>4, <1>5, SeqEqual
<1>. QED BY <1>1, <1>6

LEMMA BottomOfGrown ==
  ASSUME NEW c \in Seq(Blocks), NEW b \in Blocks, NEW k \in Nat, k <= Len(c)
  PROVE  SubSeq(Append(c, b), 1, k) = SubSeq(c, 1, k)
<1>1. PICK len \in Nat : len = Len(c)
  OBVIOUS
<1>2. PICK d : d = Append(c, b)
  OBVIOUS
<1>3. d \in Seq(Blocks) /\ Len(d) = len + 1 /\ \A i \in 1 .. len : d[i] = c[i]
  BY <1>1, <1>2, AppendProperties
<1>4. k <= Len(d)
  BY <1>1, <1>3
<1>5. /\ SubSeq(d, 1, k) \in Seq(Blocks) /\ Len(SubSeq(d, 1, k)) = k
      /\ \A i \in 1 .. k : SubSeq(d, 1, k)[i] = d[i]
  BY <1>3, <1>4, Bottom
<1>6. /\ SubSeq(c, 1, k) \in Seq(Blocks) /\ Len(SubSeq(c, 1, k)) = k
      /\ \A i \in 1 .. k : SubSeq(c, 1, k)[i] = c[i]
  BY Bottom
<1>7. \A i \in 1 .. k : i \in 1 .. len
  BY <1>1
<1>. QED BY <1>2, <1>3, <1>5, <1>6, <1>7, SeqEqual

(* What is on a chain was on it before its last block was made, and is on  *)
(* the chain some of whose blocks are abandoned.                           *)
LEMMA OnGrown ==
  ASSUME NEW c \in Seq(Blocks), NEW b \in Blocks, NEW p \in Seq(Blocks), NEW m \in Nat,
         MadeBy(p, m), b.id = m + 1, IsOn(p, Append(c, b))
  PROVE  IsOn(p, c)
<1>1. PICK len \in Nat, k \in Nat : len = Len(c) /\ k = Len(p) /\ DOMAIN p = 1 .. k
  OBVIOUS
<1>2. PICK d : d = Append(c, b)
  OBVIOUS
<1>3. d \in Seq(Blocks) /\ Len(d) = len + 1 /\ d[len + 1] = b
  BY <1>1, <1>2, AppendProperties
<1>4. k <= len + 1 /\ SubSeq(d, 1, k) = p
  BY <1>1, <1>2, <1>3 DEF IsOn
<1>5. k # len + 1
  <2>1. SUFFICES ASSUME k = len + 1 PROVE FALSE
    OBVIOUS
  <2>2. p[k] = d[k] /\ k \in 1 .. k
    BY <1>3, <1>4, <2>1, Bottom
  <2>3. p[k].id <= m
    BY <1>1, <2>2 DEF MadeBy
  <2>. QED BY <1>3, <2>1, <2>2, <2>3
<1>6. k <= Len(c)
  BY <1>1, <1>4, <1>5
<1>7. SubSeq(d, 1, k) = SubSeq(c, 1, k)
  BY <1>2, <1>6, BottomOfGrown
<1>. QED BY <1>1, <1>4, <1>6, <1>7 DEF IsOn

LEMMA OnCut ==
  ASSUME NEW c \in Seq(Blocks), NEW n \in Nat, n <= Len(c), NEW p \in Seq(Blocks),
         IsOn(p, SubSeq(c, 1, n))
  PROVE  IsOn(p, c)
<1>1. PICK d \in Seq(Blocks) : d = SubSeq(c, 1, n) /\ Len(d) = n
  BY Bottom
<1>2. PICK k \in Nat : k = Len(p) /\ k <= n /\ SubSeq(d, 1, k) = p
  <2>1. Len(p) \in Nat /\ Len(p) <= Len(d) /\ SubSeq(d, 1, Len(p)) = p
    BY <1>1 DEF IsOn
  <2>. QED BY <1>1, <2>1
<1>3. SubSeq(d, 1, k) = SubSeq(c, 1, k)
  BY <1>1, <1>2, BottomOfPart
<1>. QED BY <1>2, <1>3 DEF IsOn

(* A range of logs of a chain that the pinned one is on continues what was *)
(* read below it.                                                          *)
LEMMA LogsContinue ==
  ASSUME canon \in Seq(Blocks), NEW p \in Seq(Blocks), NEW from \in Nat \ {0}, from <= Len(p)
  PROVE  /\ IsOn(p, canon) =>
              /\ Logs(from, Len(p)) \in Seq(Blocks) /\ Below(p, from) \in Seq(Blocks)
              /\ Below(p, from) \o Logs(from, Len(p)) = Below(p, from + RANGE)
         /\ Logs(from, Len(p)) \in Seq(Blocks)
<1>1. PICK c \in Seq(Blocks), len \in Nat : c = canon /\ len = Len(c)
  OBVIOUS
<1>2. PICK k \in Nat : k = Len(p)
  OBVIOUS
<1>3. PICK range \in Nat \ {0} : range = RANGE
  BY ScansAssumption
<1>4. PICK top \in Nat : top = from + range - 1
  BY <1>3
<1>5. PICK last \in {top, k, len} : \A m \in {top, k, len} : last <= m
  <2>1. {top, k, len} \in SUBSET Nat /\ {top, k, len} # {}
    OBVIOUS
  <2>. QED BY ONLY <2>1, NatMin
<1>6. Logs(from, k) = SubSeq(c, from, last)
  <2>1. \A n \in {top, k, len} : (\A m \in {top, k, len} : n <= m) => n = last
    BY <1>5
  <2>2. (CHOOSE n \in {top, k, len} : \A m \in {top, k, len} : n <= m) = last
    BY <1>5, <2>1
  <2>. QED BY <1>1, <1>3, <1>4, <2>2 DEF Logs
<1>7. last \in Nat /\ last <= top /\ last <= k /\ last <= len
  BY <1>5
<1>8. SubSeq(c, from, last) \in Seq(Blocks)
  BY <1>1, <1>7, PartOf
<1>9. ASSUME IsOn(p, canon)
      PROVE  /\ Below(p, from) \in Seq(Blocks)
             /\ Below(p, from) \o Logs(from, k) = Below(p, from + range)
  <2>1. k <= len /\ SubSeq(c, 1, k) = p
    BY <1>1, <1>2, <1>9 DEF IsOn
  <2>2. last = IF top <= k THEN top ELSE k
    BY <1>5, <2>1
  <2>3. from <= last /\ from - 1 \in Nat /\ from - 1 <= k
    BY <1>2, <1>3, <1>4, <2>2
  <2>4. \A i \in 1 .. k : p[i] = c[i]
    BY <1>1, <2>1, Bottom
  <2>5. SubSeq(c, from, last) = SubSeq(p, from, last)
    <3>1. /\ SubSeq(c, from, last) \in Seq(Blocks)
          /\ Len(SubSeq(c, from, last)) = last - from + 1
          /\ \A i \in 1 .. last - from + 1 : SubSeq(c, from, last)[i] = c[from + i - 1]
      BY <1>1, <1>7, <2>3, PartOf
    <3>2. /\ SubSeq(p, from, last) \in Seq(Blocks)
          /\ Len(SubSeq(p, from, last)) = last - from + 1
          /\ \A i \in 1 .. last - from + 1 : SubSeq(p, from, last)[i] = p[from + i - 1]
      BY <1>2, <1>7, <2>3, PartOf
    <3>3. \A i \in 1 .. last - from + 1 : from + i - 1 \in 1 .. k
      BY <1>7
    <3>. QED BY <2>4, <3>1, <3>2, <3>3, SeqEqual
  <2>6. Below(p, from) = SubSeq(p, 1, from - 1)
    BY <1>2, <2>3 DEF Below
  <2>7. Below(p, from + range) = SubSeq(p, 1, last)
    BY <1>2, <1>4, <2>2 DEF Below
  <2>8. SubSeq(p, 1, from - 1) \o SubSeq(p, (from - 1) + 1, last) = SubSeq(p, 1, last)
    <3>1. 1 \in 1 .. Len(p) + 1 /\ from - 1 \in 1 - 1 .. Len(p) /\ last \in from - 1 .. Len(p)
      BY <1>2, <1>7, <2>3
    <3>. QED BY ONLY <3>1, p \in Seq(Blocks), ConcatAdjacentSubSeq
  <2>9. (from - 1) + 1 = from
    OBVIOUS
  <2>10. SubSeq(p, 1, from - 1) \in Seq(Blocks)
    BY <1>2, <2>3, Bottom
  <2>. QED BY <1>6, <2>5, <2>6, <2>7, <2>8, <2>9, <2>10
<1>. QED BY <1>2, <1>3, <1>6, <1>8, <1>9

(* The applications after two parts of a chain, one after the other.       *)
LEMMA AppsAfterBoth ==
  ASSUME NEW s \in Seq(Blocks), NEW t \in Seq(Blocks)
  PROVE  AppsAfter(AppsAfter({}, s), t) = AppsAfter({}, s \o t)
<1>1. PICK m \in Nat, n \in Nat : m = Len(s) /\ n = Len(t) /\ DOMAIN s = 1 .. m /\ DOMAIN t = 1 .. n
  OBVIOUS
<1>2. PICK u : u = s \o t
  OBVIOUS
<1>3. /\ DOMAIN u = 1 .. m + n
      /\ \A i \in 1 .. m + n : u[i] = IF i <= m THEN s[i] ELSE t[i - m]
  BY <1>1, <1>2, ConcatProperties
<1>4. ASSUME NEW x \in ListedApps
      PROVE  x \in AppsAfter(AppsAfter({}, s), t) <=> x \in AppsAfter({}, u)
  <2>1. PICK as, rs, at, rt, au, ru :
          /\ as = EventsOf(s, <<"registered", x>>) /\ rs = EventsOf(s, <<"unregistered", x>>)
          /\ at = EventsOf(t, <<"registered", x>>) /\ rt = EventsOf(t, <<"unregistered", x>>)
          /\ au = EventsOf(u, <<"registered", x>>) /\ ru = EventsOf(u, <<"unregistered", x>>)
    OBVIOUS
  <2>2. as \subseteq 1 .. m /\ rs \subseteq 1 .. m /\ at \subseteq 1 .. n /\ rt \subseteq 1 .. n
        /\ au \subseteq 1 .. m + n /\ ru \subseteq 1 .. m + n
    BY <1>1, <1>3, <2>1 DEF EventsOf
  <2>3. ASSUME NEW i \in 1 .. m PROVE (i \in au <=> i \in as) /\ (i \in ru <=> i \in rs)
    <3>1. i \in 1 .. m + n /\ u[i] = s[i]
      BY <1>3
    <3>. QED BY <1>1, <1>3, <2>1, <3>1 DEF EventsOf
  <2>4. ASSUME NEW i \in 1 .. n PROVE (m + i \in au <=> i \in at) /\ (m + i \in ru <=> i \in rt)
    <3>1. m + i \in 1 .. m + n /\ ~ (m + i <= m) /\ (m + i) - m = i
      OBVIOUS
    <3>2. u[m + i] = t[i]
      BY <1>3, <3>1
    <3>. QED BY <1>1, <1>3, <2>1, <3>1, <3>2 DEF EventsOf
  <2>5. ASSUME NEW j \in 1 .. m + n PROVE j \in 1 .. m \/ \E i \in 1 .. n : j = m + i
    <3>1. CASE j > m
      <4>1. j - m \in 1 .. n /\ j = m + (j - m)
        BY <3>1
      <4>. QED BY <4>1
    <3>. QED BY <3>1
  <2>6. x \in AppsAfter({}, s) <=> \E i \in as : \A j \in rs : j < i
    BY <2>1 DEF AppsAfter
  <2>7. x \in AppsAfter(AppsAfter({}, s), t)
          <=> \/ \E i \in at : \A j \in rt : j < i
              \/ (\E i \in as : \A j \in rs : j < i) /\ rt = {}
    BY <2>1, <2>6 DEF AppsAfter
  <2>8. x \in AppsAfter({}, u) <=> \E i \in au : \A j \in ru : j < i
    BY <2>1 DEF AppsAfter
  <2>9. ASSUME NEW i \in at, \A j \in rt : j < i PROVE \E k \in au : \A j \in ru : j < k
    <3>1. m + i \in au
      BY <2>2, <2>4
    <3>2. ASSUME NEW j \in ru PROVE j < m + i
      <4>1. CASE j \in 1 .. m
        BY <2>2, <4>1
      <4>2. CASE \E h \in 1 .. n : j = m + h
        <5>1. PICK h \in 1 .. n : j = m + h
          BY <4>2
        <5>2. h \in rt
          BY <2>4, <5>1
        <5>3. h < i /\ i \in 1 .. n
          BY <2>2, <2>9, <5>2
        <5>. QED BY <5>1, <5>3
      <4>. QED BY <2>2, <2>5, <4>1, <4>2
    <3>. QED BY <3>1, <3>2
  <2>10. ASSUME NEW i \in as, \A j \in rs : j < i, rt = {}
         PROVE  \E k \in au : \A j \in ru : j < k
    <3>1. i \in au
      BY <2>2, <2>3
    <3>2. ASSUME NEW j \in ru PROVE j < i
      BY <2>2, <2>3, <2>4, <2>5, <2>10
    <3>. QED BY <3>1, <3>2
  <2>11. ASSUME NEW k \in au, \A j \in ru : j < k
         PROVE  \/ \E i \in at : \A j \in rt : j < i
                \/ (\E i \in as : \A j \in rs : j < i) /\ rt = {}
    <3>1. CASE k \in 1 .. m
      <4>1. k \in as
        BY <2>3, <3>1
      <4>2. \A j \in rs : j < k
        BY <2>2, <2>3, <2>11
      <4>3. ASSUME NEW j \in rt PROVE FALSE
        <5>1. m + j \in ru /\ j \in 1 .. n
          BY <2>2, <2>4
        <5>2. m + j < k
          BY <2>11, <5>1
        <5>. QED BY <3>1, <5>1, <5>2
      <4>. QED BY <4>1, <4>2, <4>3
    <3>2. CASE k \notin 1 .. m
      <4>1. PICK i \in 1 .. n : k = m + i
        BY <2>2, <2>5, <3>2
      <4>2. i \in at
        BY <2>4, <4>1
      <4>3. ASSUME NEW j \in rt PROVE j < i
        <5>1. m + j \in ru /\ j \in 1 .. n
          BY <2>2, <2>4
        <5>2. m + j < m + i
          BY <2>11, <4>1, <5>1
        <5>. QED BY <5>1, <5>2
      <4>. QED BY <4>2, <4>3
    <3>. QED BY <3>1, <3>2
  <2>. QED BY <2>7, <2>8, <2>9, <2>10, <2>11
<1>5. AppsAfter(AppsAfter({}, s), t) \subseteq ListedApps /\ AppsAfter({}, u) \subseteq ListedApps
  BY DEF AppsAfter
<1>. QED BY <1>2, <1>4, <1>5

LEMMA MadeByMore ==
  ASSUME NEW m0 \in Nat, NEW m1 \in Nat, m0 <= m1, NEW p \in Seq(Blocks), MadeBy(p, m0)
  PROVE  MadeBy(p, m1)
<1>1. ASSUME NEW i \in DOMAIN p PROVE p[i].id <= m1
  <2>1. p[i] \in Blocks
    OBVIOUS
  <2>2. p[i].id \in Nat
    BY <2>1 DEF Blocks
  <2>3. p[i].id <= m0
    BY <1>1 DEF MadeBy
  <2>. QED BY <2>2, <2>3
<1>. QED BY <1>1 DEF MadeBy

(* The chain grows or is cut: the taking of the inventory goes on.         *)
LEMMA InventoryGoesOn ==
  ASSUME NEW c \in Seq(Blocks), NEW d \in Seq(Blocks), NEW m0 \in Nat, NEW m1 \in Nat, m0 <= m1,
         \A p \in Seq(Blocks) : MadeBy(p, m0) /\ IsOn(p, d) => IsOn(p, c),
         NEW v, InventorySound(v, c, m0)
  PROVE  InventorySound(v, d, m1)
<1>1. \A p \in Seq(Blocks) : MadeBy(p, m0) => MadeBy(p, m1)
  BY MadeByMore
<1>. QED BY <1>1 DEF InventorySound

(* So does the monitor, if what its pass goes on from is left alone.       *)
LEMMA MonitorGoesOn ==
  ASSUME NEW c \in Seq(Blocks), NEW d \in Seq(Blocks), NEW m0 \in Nat, NEW m1 \in Nat, m0 <= m1,
         \A p \in Seq(Blocks) : MadeBy(p, m0) /\ IsOn(p, d) => IsOn(p, c),
         NEW m, MonitorSound(m, c, m0),
         m.step = "pin" =>
           m.from - 1 <= Len(d) /\ SubSeq(d, 1, m.from - 1) = SubSeq(c, 1, m.from - 1)
  PROVE  MonitorSound(m, d, m1)
<1>1. \A p \in Seq(Blocks) : MadeBy(p, m0) => MadeBy(p, m1)
  BY MadeByMore
<1>2. MonitorSound(m, d, m1)
  <2>1. CASE m = Idle \/ \E n \in Nat \ {0} : m = [step |-> "compare", confirmed |-> n]
    BY <2>1 DEF MonitorSound
  <2>2. CASE \E n \in Nat \ {0}, from \in 1 .. Len(c) + 1 :
               /\ from - 1 <= n
               /\ m = [step |-> "pin", confirmed |-> n, from |-> from,
                       known |-> AppsAfter({}, SubSeq(c, 1, from - 1))]
    <3>1. PICK n \in Nat \ {0}, from \in 1 .. Len(c) + 1 :
            /\ from - 1 <= n
            /\ m = [step |-> "pin", confirmed |-> n, from |-> from,
                    known |-> AppsAfter({}, SubSeq(c, 1, from - 1))]
      BY <2>2
    <3>2. m.step = "pin" /\ m.from = from
      BY <3>1
    <3>3. from - 1 <= Len(d) /\ SubSeq(d, 1, from - 1) = SubSeq(c, 1, from - 1)
      BY <3>2
    <3>4. from \in 1 .. Len(d) + 1
      BY <3>3
    <3>. QED BY <3>1, <3>3, <3>4 DEF MonitorSound
  <2>3. CASE \E p \in Seq(Blocks), from \in Nat \ {0}, known \in SUBSET ListedApps :
               /\ Len(p) # 0 /\ MadeBy(p, m0)
               /\ IsOn(p, c) => known = AppsAfter({}, Below(p, from))
               /\ m = [step |-> "logs", confirmed |-> Len(p), from |-> from, known |-> known,
                       pinned |-> p]
    BY <1>1, <2>3 DEF MonitorSound
  <2>4. CASE \E p \in Seq(Blocks) :
               m = [step |-> "write", confirmed |-> Len(p), known |-> AppsAfter({}, p), pinned |-> p]
    BY <2>4 DEF MonitorSound
  <2>. QED BY <2>1, <2>2, <2>3, <2>4 DEF MonitorSound
<1>. QED BY <1>2

LEMMA GrowKeeps ==
  ASSUME ScansInv, Grow
  PROVE  ScansInv'
<1>1. PICK c \in Seq(Blocks), m \in Nat : c = canon /\ m = made
  BY DEF ScansInv
<1>2. /\ MadeBy(c, m) /\ InventorySound(inventory, c, m) /\ InventoryFileSound(inventoryFile)
      /\ straddled \in BOOLEAN
      /\ ~straddled => MonitorSound(monitor, c, m) /\ MonitorFileSound(monitorFile)
  BY <1>1 DEF ScansInv
<1>3. PICK e \in Events : canon' = Append(c, [id |-> m + 1, event |-> e]) /\ made' = m + 1
  <2>1. PICK e \in Happens : canon' = Append(c, [id |-> m + 1, event |-> e]) /\ made' = m + 1
    BY <1>1 DEF Grow
  <2>2. AppsAfter({}, canon) \subseteq ListedApps
    BY DEF AppsAfter
  <2>3. e \in Events
    BY <2>2 DEF Happens, Events
  <2>. QED BY <2>1, <2>3
<1>4. PICK b \in Blocks : b = [id |-> m + 1, event |-> e] /\ b.id = m + 1
  <2>1. [id |-> m + 1, event |-> e] \in Blocks
    BY DEF Blocks
  <2>. QED BY <2>1
<1>5. PICK d : d = Append(c, b)
  OBVIOUS
<1>6. d \in Seq(Blocks) /\ Len(d) = Len(c) + 1 /\ (\A i \in 1 .. Len(c) : d[i] = c[i])
      /\ d[Len(c) + 1] = b
  BY <1>5, AppendProperties
<1>7. \A p \in Seq(Blocks) : MadeBy(p, m) /\ IsOn(p, d) => IsOn(p, c)
  BY <1>4, <1>5, OnGrown
<1>8. ~straddled /\ monitor.step = "pin" =>
        monitor.from - 1 <= Len(d) /\ SubSeq(d, 1, monitor.from - 1) = SubSeq(c, 1, monitor.from - 1)
  <2>1. SUFFICES ASSUME ~straddled, monitor.step = "pin"
                 PROVE  monitor.from - 1 <= Len(d)
                        /\ SubSeq(d, 1, monitor.from - 1) = SubSeq(c, 1, monitor.from - 1)
    OBVIOUS
  <2>2. PICK from \in 1 .. Len(c) + 1 : monitor.from = from
    BY <1>2, <2>1 DEF MonitorSound, Idle
  <2>3. from - 1 \in Nat /\ from - 1 <= Len(c)
    OBVIOUS
  <2>4. SubSeq(d, 1, from - 1) = SubSeq(c, 1, from - 1)
    BY <1>5, <2>3, BottomOfGrown
  <2>. QED BY <1>6, <2>2, <2>3, <2>4
<1>9. PICK mon, inv : mon = monitor /\ inv = inventory
  OBVIOUS
<1>10. InventorySound(inv, d, m + 1) /\ (~straddled => MonitorSound(mon, d, m + 1))
  <2>1. m + 1 \in Nat /\ m <= m + 1
    OBVIOUS
  <2>2. InventorySound(inv, d, m + 1)
    BY <1>2, <1>6, <1>7, <1>9, <2>1, InventoryGoesOn
  <2>3. ASSUME ~straddled PROVE MonitorSound(mon, d, m + 1)
    BY <1>2, <1>6, <1>7, <1>8, <1>9, <2>1, <2>3, MonitorGoesOn
  <2>. QED BY <2>2, <2>3
<1>11. MadeBy(d, m + 1)
  <2>1. ASSUME NEW i \in DOMAIN d PROVE d[i].id <= m + 1
    <3>1. CASE i = Len(c) + 1
      BY <1>4, <1>6, <3>1
    <3>2. CASE i # Len(c) + 1
      <4>1. i \in 1 .. Len(c) /\ d[i] = c[i] /\ i \in DOMAIN c
        BY <1>6, <3>2
      <4>2. c[i] \in Blocks
        BY <4>1
      <4>3. c[i].id \in Nat
        BY <4>2 DEF Blocks
      <4>4. c[i].id <= m
        BY <1>2, <4>1 DEF MadeBy
      <4>. QED BY <4>1, <4>3, <4>4
    <3>. QED BY <3>1, <3>2
  <2>. QED BY <2>1 DEF MadeBy
<1>12. canon' = d /\ made' = m + 1 /\ monitor' = mon /\ inventory' = inv
       /\ monitorFile' = monitorFile /\ inventoryFile' = inventoryFile
       /\ straddled' = straddled
  BY <1>3, <1>4, <1>5, <1>9 DEF Grow
<1>13. Len(d) # 0 /\ m + 1 \in Nat
  BY <1>6
<1>. QED BY <1>2, <1>6, <1>10, <1>11, <1>12, <1>13 DEF ScansInv

LEMMA AbandonKeeps ==
  ASSUME ScansInv, NEW n \in Int, AbandonAbove(n)
  PROVE  ScansInv'
<1>1. PICK c \in Seq(Blocks), m \in Nat : c = canon /\ m = made
  BY DEF ScansInv
<1>2. /\ MadeBy(c, m) /\ InventorySound(inventory, c, m) /\ InventoryFileSound(inventoryFile)
      /\ straddled \in BOOLEAN
      /\ ~straddled => MonitorSound(monitor, c, m) /\ MonitorFileSound(monitorFile)
  BY <1>1 DEF ScansInv
<1>3. /\ n \in Nat /\ n # 0 /\ n <= Len(c) /\ straddled' \in BOOLEAN
      /\ ~straddled' => ~straddled /\ ~(monitor.step = "pin" /\ n < monitor.from - 1)
  <2>1. n \in Nat /\ n # 0 /\ n <= Len(c)
    BY <1>1 DEF AbandonAbove
  <2>2. straddled' = (straddled \/ (monitor.step = "pin" /\ n < monitor.from - 1))
    BY DEF AbandonAbove
  <2>. QED BY <2>1, <2>2, Zenon
<1>4. PICK d \in Seq(Blocks) : d = SubSeq(c, 1, n) /\ Len(d) = n /\ \A i \in 1 .. n : d[i] = c[i]
  BY <1>3, Bottom
<1>5. \A p \in Seq(Blocks) : MadeBy(p, m) /\ IsOn(p, d) => IsOn(p, c)
  BY <1>3, <1>4, OnCut
<1>6. ~straddled' /\ monitor.step = "pin" =>
        monitor.from - 1 <= Len(d) /\ SubSeq(d, 1, monitor.from - 1) = SubSeq(c, 1, monitor.from - 1)
  <2>1. SUFFICES ASSUME ~straddled', monitor.step = "pin"
                 PROVE  monitor.from - 1 <= Len(d)
                        /\ SubSeq(d, 1, monitor.from - 1) = SubSeq(c, 1, monitor.from - 1)
    OBVIOUS
  <2>2. PICK from \in 1 .. Len(c) + 1 : monitor.from = from
    BY <1>2, <1>3, <2>1 DEF MonitorSound, Idle
  <2>3. from - 1 \in Nat /\ from - 1 <= n
    BY <1>3, <2>1, <2>2
  <2>4. SubSeq(d, 1, from - 1) = SubSeq(c, 1, from - 1)
    BY <1>3, <1>4, <2>3, BottomOfPart
  <2>. QED BY <1>4, <2>2, <2>3, <2>4
<1>7. PICK mon, inv : mon = monitor /\ inv = inventory
  OBVIOUS
<1>8. InventorySound(inv, d, m) /\ (~straddled' => MonitorSound(mon, d, m))
  <2>1. m <= m
    OBVIOUS
  <2>2. InventorySound(inv, d, m)
    BY <1>2, <1>5, <1>7, <2>1, InventoryGoesOn
  <2>3. ASSUME ~straddled' PROVE MonitorSound(mon, d, m)
    <3>1. mon.step = "pin" =>
            mon.from - 1 <= Len(d) /\ SubSeq(d, 1, mon.from - 1) = SubSeq(c, 1, mon.from - 1)
      BY <1>6, <1>7, <2>3
    <3>. QED BY <1>2, <1>3, <1>5, <1>7, <2>1, <2>3, <3>1, MonitorGoesOn
  <2>. QED BY <2>2, <2>3
<1>9. MadeBy(d, m)
  <2>1. ASSUME NEW i \in DOMAIN d PROVE d[i].id <= m
    <3>1. i \in 1 .. n /\ d[i] = c[i] /\ i \in DOMAIN c
      BY <1>3, <1>4
    <3>. QED BY <1>2, <3>1 DEF MadeBy
  <2>. QED BY <2>1 DEF MadeBy
<1>10. canon' = d /\ made' = m /\ monitor' = mon /\ inventory' = inv
       /\ monitorFile' = monitorFile /\ inventoryFile' = inventoryFile
  BY <1>1, <1>4, <1>7 DEF AbandonAbove, Hash
<1>. QED BY <1>2, <1>3, <1>4, <1>8, <1>9, <1>10 DEF ScansInv

(* A pass of the monitor.                                                  *)
LEMMA MonitorKeeps ==
  ASSUME ScansInv,
         \/ StartMonitor \/ Compare \/ Pin \/ ReadLogs \/ Recheck \/ WriteState \/ MonitorFails
  PROVE  ScansInv'
<1>1. PICK c \in Seq(Blocks), k \in Nat : c = canon /\ k = made
  BY DEF ScansInv
<1>3. SUFFICES ASSUME ~straddled
               PROVE  /\ MonitorSound(monitor', c, k) /\ MonitorFileSound(monitorFile')
                      /\ UNCHANGED <<canon, made, inventory, inventoryFile>>
  <2>1. UNCHANGED <<canon, made, inventory, inventoryFile, straddled>>
    BY DEF StartMonitor, Compare, Pin, ReadLogs, Recheck, WriteState, MonitorFails
  <2>. QED BY <1>1, <2>1 DEF ScansInv
<1>2. /\ MadeBy(c, k) /\ MonitorSound(monitor, c, k) /\ InventorySound(inventory, c, k)
      /\ MonitorFileSound(monitorFile) /\ InventoryFileSound(inventoryFile) /\ Len(c) # 0
  BY <1>1, <1>3 DEF ScansInv
<1>4. UNCHANGED <<canon, made, inventory, inventoryFile>>
  BY DEF StartMonitor, Compare, Pin, ReadLogs, Recheck, WriteState, MonitorFails
<1>5. CASE StartMonitor
  <2>1. PICK n : n = Len(c) - CONFIRMED
    OBVIOUS
  <2>2. n \in Nat \ {0}
    BY <1>1, <1>5, <2>1, ScansAssumption DEF StartMonitor
  <2>3. monitor' = [step |-> "compare", confirmed |-> n]
    BY <1>1, <1>5, <2>1 DEF StartMonitor
  <2>4. MonitorSound(monitor', c, k)
    BY <2>2, <2>3 DEF MonitorSound
  <2>. QED BY <1>2, <1>4, <1>5, <2>4 DEF StartMonitor
<1>6. CASE Compare
  <2>1. PICK n \in Nat \ {0} : monitor = [step |-> "compare", confirmed |-> n]
    BY <1>2, <1>6 DEF MonitorSound, Compare, Idle
  <2>2. monitor.confirmed = n
    BY <2>1
  <2>3. CASE Resumes(n)
    <3>1. PICK p \in Seq(Blocks) :
            monitorFile = [cursor |-> Len(p), hash |-> p, apps |-> AppsAfter({}, p)]
      BY <1>2, <2>3 DEF Resumes, MonitorFileSound
    <3>2. PICK h \in Nat : h = Len(p) /\ h <= n /\ h <= Len(c) /\ SubSeq(c, 1, h) = p
      <4>1. monitorFile.cursor = Len(p) /\ monitorFile.hash = p
        BY <3>1
      <4>2. Len(p) <= n /\ Len(p) \in DOMAIN c /\ SubSeq(c, 1, Len(p)) = p
        BY <1>1, <2>3, <4>1 DEF Resumes, Exists, Hash
      <4>3. Len(p) \in Nat /\ Len(p) <= Len(c)
        BY <4>2
      <4>. QED BY <4>2, <4>3, Zenon
    <3>3. monitor' = [step |-> "pin", confirmed |-> n, from |-> h + 1,
                      known |-> AppsAfter({}, SubSeq(c, 1, h))]
      BY <1>6, <2>2, <2>3, <3>1, <3>2 DEF Compare
    <3>4. h + 1 \in 1 .. Len(c) + 1 /\ (h + 1) - 1 = h
      BY <3>2
    <3>5. MonitorSound(monitor', c, k)
      BY <3>2, <3>3, <3>4 DEF MonitorSound
    <3>. QED BY <1>2, <1>4, <1>6, <3>5 DEF Compare
  <2>4. CASE ~ Resumes(n)
    <3>1. monitor' = [step |-> "pin", confirmed |-> n, from |-> 1, known |-> {}]
      BY <1>6, <2>2, <2>4 DEF Compare
    <3>2. SubSeq(c, 1, 1 - 1) = <<>>
      BY SubSeqEmpty
    <3>3. AppsAfter({}, <<>>) = {}
      BY DEF AppsAfter, EventsOf
    <3>4. 1 \in 1 .. Len(c) + 1 /\ 1 - 1 <= n
      OBVIOUS
    <3>5. MonitorSound(monitor', c, k)
      BY <3>1, <3>2, <3>3, <3>4 DEF MonitorSound
    <3>. QED BY <1>2, <1>4, <1>6, <3>5 DEF Compare
  <2>. QED BY <2>3, <2>4
<1>7. CASE Pin
  <2>1. PICK n \in Nat \ {0}, from \in 1 .. Len(c) + 1 :
          /\ from - 1 <= n
          /\ monitor = [step |-> "pin", confirmed |-> n, from |-> from,
                        known |-> AppsAfter({}, SubSeq(c, 1, from - 1))]
    BY <1>2, <1>7 DEF MonitorSound, Pin, Idle
  <2>2. n <= Len(c)
    BY <1>1, <1>7, <2>1 DEF Pin, Exists
  <2>3. PICK p \in Seq(Blocks) : p = SubSeq(c, 1, n) /\ Len(p) = n /\ \A i \in 1 .. n : p[i] = c[i]
    BY <2>2, Bottom
  <2>4. PICK known \in SUBSET ListedApps : known = AppsAfter({}, SubSeq(c, 1, from - 1))
    BY DEF AppsAfter
  <2>5. monitor' = [step |-> "logs", confirmed |-> Len(p), from |-> from, known |-> known,
                    pinned |-> p]
    BY <1>1, <1>7, <2>1, <2>3, <2>4 DEF Pin, Hash
  <2>6. from - 1 \in Nat /\ from \in Nat \ {0} /\ Len(p) # 0
    BY <2>3
  <2>7. Below(p, from) = SubSeq(c, 1, from - 1)
    <3>1. Below(p, from) = SubSeq(p, 1, from - 1)
      BY <2>1, <2>3 DEF Below
    <3>. QED BY <2>1, <2>2, <2>3, <2>6, <3>1, BottomOfPart
  <2>8. MadeBy(p, k)
    <3>1. \A i \in DOMAIN p : p[i] = c[i] /\ i \in DOMAIN c
      BY <2>2, <2>3
    <3>. QED BY <1>2, <3>1 DEF MadeBy
  <2>9. MonitorSound(monitor', c, k)
    BY <2>4, <2>5, <2>6, <2>7, <2>8 DEF MonitorSound
  <2>. QED BY <1>2, <1>4, <1>7, <2>9 DEF Pin
<1>8. CASE ReadLogs
  <2>1. PICK p \in Seq(Blocks), from \in Nat \ {0}, known \in SUBSET ListedApps :
          /\ Len(p) # 0 /\ MadeBy(p, k)
          /\ IsOn(p, c) => known = AppsAfter({}, Below(p, from))
          /\ monitor = [step |-> "logs", confirmed |-> Len(p), from |-> from, known |-> known,
                        pinned |-> p]
    BY <1>2, <1>8 DEF MonitorSound, ReadLogs, Idle
  <2>2. from <= Len(p)
    BY <1>8, <2>1 DEF ReadLogs
  <2>3. PICK read \in Seq(Blocks) : read = Logs(from, Len(p))
    BY <1>1, <2>2, LogsContinue
  <2>4. PICK more \in SUBSET ListedApps : more = AppsAfter(known, read)
    BY DEF AppsAfter
  <2>5. PICK next \in Nat \ {0} : next = from + RANGE
    BY ScansAssumption
  <2>6. monitor' = [step |-> "logs", confirmed |-> Len(p), from |-> next, known |-> more,
                    pinned |-> p]
    <3>1. monitor.from = from /\ monitor.confirmed = Len(p) /\ monitor.known = known
      BY <2>1
    <3>2. monitor' = [monitor EXCEPT !.known = more, !.from = next]
      BY <1>8, <2>3, <2>4, <2>5, <3>1 DEF ReadLogs
    <3>. QED BY <2>1, <3>2
  <2>7. ASSUME IsOn(p, c) PROVE more = AppsAfter({}, Below(p, next))
    <3>1. /\ Below(p, from) \in Seq(Blocks)
          /\ Below(p, from) \o read = Below(p, next)
      BY <1>1, <2>2, <2>3, <2>5, <2>7, LogsContinue
    <3>2. AppsAfter(AppsAfter({}, Below(p, from)), read) = AppsAfter({}, Below(p, from) \o read)
      BY <3>1, AppsAfterBoth
    <3>. QED BY <2>1, <2>4, <2>7, <3>1, <3>2
  <2>8. MonitorSound(monitor', c, k)
    BY <2>1, <2>6, <2>7 DEF MonitorSound
  <2>. QED BY <1>2, <1>4, <1>8, <2>8 DEF ReadLogs
<1>9. CASE Recheck
  <2>1. PICK p \in Seq(Blocks), from \in Nat \ {0}, known \in SUBSET ListedApps :
          /\ Len(p) # 0 /\ MadeBy(p, k)
          /\ IsOn(p, c) => known = AppsAfter({}, Below(p, from))
          /\ monitor = [step |-> "logs", confirmed |-> Len(p), from |-> from, known |-> known,
                        pinned |-> p]
    BY <1>2, <1>9 DEF MonitorSound, Recheck, Idle
  <2>2. from > Len(p) /\ Len(p) \in DOMAIN c /\ SubSeq(c, 1, Len(p)) = p
    BY <1>1, <1>9, <2>1 DEF Recheck, Exists, Hash
  <2>3. IsOn(p, c)
    BY <2>2 DEF IsOn
  <2>4. Below(p, from) = p
    <3>1. (IF from - 1 <= Len(p) THEN from - 1 ELSE Len(p)) = Len(p)
      BY <2>2
    <3>. QED BY <3>1, SubSeqFull DEF Below
  <2>5. monitor' = [step |-> "write", confirmed |-> Len(p), known |-> AppsAfter({}, p),
                    pinned |-> p]
    BY <1>9, <2>1, <2>3, <2>4 DEF Recheck
  <2>6. MonitorSound(monitor', c, k)
    BY <2>5 DEF MonitorSound
  <2>. QED BY <1>2, <1>4, <1>9, <2>6 DEF Recheck
<1>10. CASE WriteState
  <2>1. PICK p \in Seq(Blocks) :
          monitor = [step |-> "write", confirmed |-> Len(p), known |-> AppsAfter({}, p),
                     pinned |-> p]
    BY <1>2, <1>10 DEF MonitorSound, WriteState, Idle
  <2>2. monitorFile' = [cursor |-> Len(p), hash |-> p, apps |-> AppsAfter({}, p)]
        /\ monitor' = Idle
    BY <1>10, <2>1 DEF WriteState
  <2>. QED BY <1>4, <2>2 DEF MonitorSound, MonitorFileSound
<1>11. CASE MonitorFails
  BY <1>2, <1>4, <1>11 DEF MonitorFails, MonitorSound
<1>. QED BY <1>5, <1>6, <1>7, <1>8, <1>9, <1>10, <1>11

(* The taking of the inventory.                                            *)
LEMMA InventoryKeeps ==
  ASSUME ScansInv,
         \/ PinInventory \/ ReadRange("ledger") \/ Reconcile \/ ReadRange("apps") \/ Publish
         \/ InventoryFails
  PROVE  ScansInv'
<1>1. PICK c \in Seq(Blocks), k \in Nat : c = canon /\ k = made
  BY DEF ScansInv
<1>2. /\ MadeBy(c, k) /\ InventorySound(inventory, c, k)
      /\ InventoryFileSound(inventoryFile) /\ Len(c) # 0
  BY <1>1 DEF ScansInv
<1>3. SUFFICES /\ InventorySound(inventory', c, k) /\ InventoryFileSound(inventoryFile')
               /\ UNCHANGED <<canon, made, monitor, monitorFile, straddled>>
  BY <1>1, <1>2 DEF ScansInv
<1>4. UNCHANGED <<canon, made, monitor, monitorFile, straddled>>
  BY DEF PinInventory, ReadRange, Reconcile, Publish, InventoryFails
<1>5. CASE PinInventory
  <2>1. PICK n : n = Len(c) - CONFIRMED
    OBVIOUS
  <2>2. n \in Nat \ {0} /\ n <= Len(c)
    BY <1>1, <1>5, <2>1, ScansAssumption DEF PinInventory
  <2>3. PICK p \in Seq(Blocks) : p = SubSeq(c, 1, n) /\ Len(p) = n /\ \A i \in 1 .. n : p[i] = c[i]
    BY <2>2, Bottom
  <2>4. PICK l \in Seq(Blocks) : l = <<>>
    BY EmptySeq
  <2>5. inventory' = [step |-> "ledger", number |-> Len(p), pinned |-> p, from |-> 1,
                      ledger |-> l, apps |-> l]
    BY <1>1, <1>5, <2>1, <2>3, <2>4 DEF PinInventory, Hash
  <2>6. Below(p, 1) = <<>>
    <3>1. (IF 1 - 1 <= Len(p) THEN 1 - 1 ELSE Len(p)) = 0
      BY <2>2, <2>3
    <3>. QED BY <3>1, SubSeqEmpty DEF Below
  <2>7. MadeBy(p, k)
    <3>1. \A i \in DOMAIN p : p[i] = c[i] /\ i \in DOMAIN c
      BY <2>2, <2>3
    <3>. QED BY <1>2, <3>1 DEF MadeBy
  <2>8. 1 \in Nat \ {0} /\ Len(p) # 0
    BY <2>2, <2>3
  <2>9. InventorySound(inventory', c, k)
    BY <2>4, <2>5, <2>6, <2>7, <2>8 DEF InventorySound
  <2>. QED BY <1>2, <1>4, <1>5, <2>9 DEF PinInventory
<1>6. CASE ReadRange("ledger")
  <2>1. PICK p \in Seq(Blocks), from \in Nat \ {0}, l \in Seq(Blocks), r \in Seq(Blocks) :
          /\ Len(p) # 0 /\ MadeBy(p, k)
          /\ IsOn(p, c) => l = Below(p, from)
          /\ r = <<>>
          /\ inventory = [step |-> "ledger", number |-> Len(p), pinned |-> p, from |-> from,
                          ledger |-> l, apps |-> r]
    BY <1>2, <1>6 DEF InventorySound, ReadRange, Idle
  <2>2. from <= Len(p)
    BY <1>6, <2>1 DEF ReadRange
  <2>3. PICK read \in Seq(Blocks) : read = Logs(from, Len(p))
    BY <1>1, <2>2, LogsContinue
  <2>4. PICK more \in Seq(Blocks) : more = l \o read
    BY ConcatProperties
  <2>5. PICK next \in Nat \ {0} : next = from + RANGE
    BY ScansAssumption
  <2>6. inventory' = [step |-> "ledger", number |-> Len(p), pinned |-> p, from |-> next,
                      ledger |-> more, apps |-> r]
    <3>1. inventory.from = from /\ inventory.number = Len(p) /\ inventory.ledger = l
      BY <2>1
    <3>2. inventory' = [inventory EXCEPT !.ledger = more, !.from = next]
      BY <1>6, <2>3, <2>4, <2>5, <3>1 DEF ReadRange
    <3>. QED BY <2>1, <3>2
  <2>7. IsOn(p, c) => more = Below(p, next)
    BY <1>1, <2>1, <2>2, <2>3, <2>4, <2>5, LogsContinue
  <2>8. InventorySound(inventory', c, k)
    BY <2>1, <2>6, <2>7 DEF InventorySound
  <2>. QED BY <1>2, <1>4, <1>6, <2>8 DEF ReadRange
<1>7. CASE Reconcile
  <2>1. PICK p \in Seq(Blocks), from \in Nat \ {0}, l \in Seq(Blocks), r \in Seq(Blocks) :
          /\ Len(p) # 0 /\ MadeBy(p, k)
          /\ IsOn(p, c) => l = Below(p, from)
          /\ r = <<>>
          /\ inventory = [step |-> "ledger", number |-> Len(p), pinned |-> p, from |-> from,
                          ledger |-> l, apps |-> r]
    BY <1>2, <1>7 DEF InventorySound, Reconcile, Idle
  <2>2. from > Len(p)
    BY <1>7, <2>1 DEF Reconcile
  <2>3. Below(p, from) = p
    <3>1. (IF from - 1 <= Len(p) THEN from - 1 ELSE Len(p)) = Len(p)
      BY <2>2
    <3>. QED BY <3>1, SubSeqFull DEF Below
  <2>4. Below(p, 1) = <<>>
    <3>1. (IF 1 - 1 <= Len(p) THEN 1 - 1 ELSE Len(p)) = 0
      OBVIOUS
    <3>. QED BY <3>1, SubSeqEmpty DEF Below
  <2>5. inventory' = [step |-> "apps", number |-> Len(p), pinned |-> p, from |-> 1,
                      ledger |-> l, apps |-> r]
    BY <1>7, <2>1 DEF Reconcile
  <2>6. 1 \in Nat \ {0}
    OBVIOUS
  <2>7. InventorySound(inventory', c, k)
    BY <2>1, <2>3, <2>4, <2>5, <2>6 DEF InventorySound
  <2>. QED BY <1>2, <1>4, <1>7, <2>7 DEF Reconcile
<1>8. CASE ReadRange("apps")
  <2>1. PICK p \in Seq(Blocks), from \in Nat \ {0}, l \in Seq(Blocks), r \in Seq(Blocks) :
          /\ Len(p) # 0 /\ MadeBy(p, k)
          /\ IsOn(p, c) => l = p /\ r = Below(p, from)
          /\ inventory = [step |-> "apps", number |-> Len(p), pinned |-> p, from |-> from,
                          ledger |-> l, apps |-> r]
    BY <1>2, <1>8 DEF InventorySound, ReadRange, Idle
  <2>2. from <= Len(p)
    BY <1>8, <2>1 DEF ReadRange
  <2>3. PICK read \in Seq(Blocks) : read = Logs(from, Len(p))
    BY <1>1, <2>2, LogsContinue
  <2>4. PICK more \in Seq(Blocks) : more = r \o read
    BY ConcatProperties
  <2>5. PICK next \in Nat \ {0} : next = from + RANGE
    BY ScansAssumption
  <2>6. inventory' = [step |-> "apps", number |-> Len(p), pinned |-> p, from |-> next,
                      ledger |-> l, apps |-> more]
    <3>1. inventory.from = from /\ inventory.number = Len(p) /\ inventory.apps = r
      BY <2>1
    <3>2. inventory' = [inventory EXCEPT !.apps = more, !.from = next]
      BY <1>8, <2>3, <2>4, <2>5, <3>1 DEF ReadRange
    <3>. QED BY <2>1, <3>2
  <2>7. IsOn(p, c) => l = p /\ more = Below(p, next)
    BY <1>1, <2>1, <2>2, <2>3, <2>4, <2>5, LogsContinue
  <2>8. InventorySound(inventory', c, k)
    BY <2>1, <2>6, <2>7 DEF InventorySound
  <2>. QED BY <1>2, <1>4, <1>8, <2>8 DEF ReadRange
<1>9. CASE Publish
  <2>1. PICK p \in Seq(Blocks), from \in Nat \ {0}, l \in Seq(Blocks), r \in Seq(Blocks) :
          /\ Len(p) # 0 /\ MadeBy(p, k)
          /\ IsOn(p, c) => l = p /\ r = Below(p, from)
          /\ inventory = [step |-> "apps", number |-> Len(p), pinned |-> p, from |-> from,
                          ledger |-> l, apps |-> r]
    BY <1>2, <1>9 DEF InventorySound, Publish, Idle
  <2>2. from > Len(p) /\ Len(p) \in DOMAIN c /\ SubSeq(c, 1, Len(p)) = p
    BY <1>1, <1>9, <2>1 DEF Publish, Exists, Hash
  <2>3. IsOn(p, c)
    BY <2>2 DEF IsOn
  <2>4. Below(p, from) = p
    <3>1. (IF from - 1 <= Len(p) THEN from - 1 ELSE Len(p)) = Len(p)
      BY <2>2
    <3>. QED BY <3>1, SubSeqFull DEF Below
  <2>5. inventoryFile' = [hash |-> p, balances |-> Ledger(p), apps |-> AppsListed(p)]
        /\ inventory' = Idle
    BY <1>9, <2>1, <2>3, <2>4 DEF Publish
  <2>. QED BY <1>4, <2>5 DEF InventorySound, InventoryFileSound
<1>10. CASE InventoryFails
  BY <1>2, <1>4, <1>10 DEF InventoryFails, InventorySound
<1>. QED BY <1>5, <1>6, <1>7, <1>8, <1>9, <1>10

LEMMA ScansInitHolds == ScansInit => ScansInv
<1>1. SUFFICES ASSUME ScansInit PROVE ScansInv
  OBVIOUS
<1>2. PICK b \in Blocks : b = Deployed /\ b.id = 1
  <2>1. <<"transfer", "nobody", FirstHolder>> \in Events
    BY ScansAssumption DEF Events
  <2>2. [id |-> 1, event |-> <<"transfer", "nobody", FirstHolder>>] \in Blocks
    BY <2>1 DEF Blocks
  <2>3. Deployed.id = 1
    BY DEF Deployed
  <2>. QED BY <2>2, <2>3 DEF Deployed
<1>3. PICK c \in Seq(Blocks) : c = <<b>> /\ Len(c) = 1 /\ c[1] = b /\ DOMAIN c = {1}
  <2>1. <<b>> \in Seq(Blocks) /\ Len(<<b>>) = 1 /\ <<b>>[1] = b /\ DOMAIN <<b>> = {1}
    OBVIOUS
  <2>. QED BY <2>1
<1>4. canon = c /\ made = 1 /\ monitor = Idle /\ monitorFile = NoFile
      /\ inventory = Idle /\ inventoryFile = NoFile /\ straddled = FALSE
  BY <1>1, <1>2, <1>3 DEF ScansInit
<1>5. MadeBy(c, 1)
  BY <1>2, <1>3 DEF MadeBy
<1>6. MonitorSound(monitor, c, 1) /\ MonitorFileSound(monitorFile)
  BY <1>4 DEF MonitorSound, MonitorFileSound
<1>7. InventorySound(inventory, c, 1) /\ InventoryFileSound(inventoryFile)
  BY <1>4 DEF InventorySound, InventoryFileSound
<1>8. Len(c) # 0 /\ 1 \in Nat
  BY <1>3
<1>9. straddled \in BOOLEAN
  BY <1>4
<1>. QED BY <1>4, <1>5, <1>6, <1>7, <1>8, <1>9, Zenon DEF ScansInv

(* The balances the inventory has published are those at the block whose   *)
(* hash it names, its applications those registered up to it, whatever is  *)
(* abandoned while the logs are read; the monitor's applications are those *)
(* at its block as long as no block it goes on from was abandoned between  *)
(* its hash and the pin (script/monitor-public-v11.ts:34, :40;             *)
(* script/snapshot-testnet-v11.ts).                                        *)
THEOREM ScansTellTheirBlock == ScansSpec => []PublishedAtItsHash
<1>1. ScansInit => ScansInv
  BY ScansInitHolds
<1>2. ScansInv /\ [ScansNext]_scanVars => ScansInv'
  <2>1. SUFFICES ASSUME ScansInv, [ScansNext]_scanVars PROVE ScansInv'
    OBVIOUS
  <2>2. CASE UNCHANGED scanVars
    BY <2>1, <2>2 DEF scanVars, ScansInv
  <2>3. CASE Grow
    BY <2>1, <2>3, GrowKeeps
  <2>4. ASSUME NEW n \in 1 .. MaxHeight, AbandonAbove(n) PROVE ScansInv'
    BY <2>1, <2>4, AbandonKeeps
  <2>5. CASE \/ StartMonitor \/ Compare \/ Pin \/ ReadLogs \/ Recheck \/ WriteState \/ MonitorFails
    BY <2>1, <2>5, MonitorKeeps
  <2>6. CASE \/ PinInventory \/ ReadRange("ledger") \/ Reconcile \/ ReadRange("apps") \/ Publish
             \/ InventoryFails
    BY <2>1, <2>6, InventoryKeeps
  <2>. QED BY <2>1, <2>2, <2>3, <2>4, <2>5, <2>6 DEF ScansNext
<1>3. ScansInv => PublishedAtItsHash
  <2>1. SUFFICES ASSUME ScansInv PROVE PublishedAtItsHash
    OBVIOUS
  <2>2. ASSUME ~straddled, monitorFile # NoFile
        PROVE  /\ monitorFile.apps = AppsAfter({}, monitorFile.hash)
               /\ monitorFile.cursor = Len(monitorFile.hash)
    <3>1. PICK p \in Seq(Blocks) :
            monitorFile = [cursor |-> Len(p), hash |-> p, apps |-> AppsAfter({}, p)]
      BY <2>1, <2>2 DEF ScansInv, MonitorFileSound
    <3>. QED BY <3>1
  <2>3. ASSUME inventoryFile # NoFile
        PROVE  /\ inventoryFile.balances = Ledger(inventoryFile.hash)
               /\ inventoryFile.apps = AppsListed(inventoryFile.hash)
    <3>1. PICK p \in Seq(Blocks) :
            inventoryFile = [hash |-> p, balances |-> Ledger(p), apps |-> AppsListed(p)]
      BY <2>1, <2>3 DEF ScansInv, InventoryFileSound
    <3>. QED BY <3>1
  <2>. QED BY <2>2, <2>3 DEF PublishedAtItsHash
<1>. QED BY <1>1, <1>2, <1>3, PTL DEF ScansSpec

-----------------------------------------------------------------------------
(* Directory: a search, an order or a turned page never hides what was     *)
(* found.                                                                  *)
(*                                                                         *)
(* The invariant is the types: the page may be any number, since a search  *)
(* leaves the one before.  The work is in the list: that a finite set in a *)
(* strict total order can be sorted in exactly one way, and that each      *)
(* element then stands behind those before it in the order.                *)

(* Between finite sets of one size an injection misses nothing.             *)
LEMMA EnoughPlaces ==
  ASSUME NEW S, NEW T, IsFiniteSet(T), NEW f \in [S -> T],
         \A x, y \in S : f[x] = f[y] => x = y,
         IsFiniteSet(S), Cardinality(S) = Cardinality(T)
  PROVE  \A t \in T : \E x \in S : f[x] = t
<1>1. f \in Injection(S, T)
  BY DEF Injection, IsInjective
<1>2. f \in Surjection(S, T)
  BY <1>1, FS_Injection
<1>. QED BY <1>2 DEF Surjection

(* A strict total order on S. *)
OrderOn(R, S) ==
  /\ \A x \in S : <<x, x>> \notin R
  /\ \A x, y, z \in S : <<x, y>> \in R /\ <<y, z>> \in R => <<x, z>> \in R
  /\ \A x, y \in S : x = y \/ <<x, y>> \in R \/ <<y, x>> \in R

Sorted(s, R, S) ==
  /\ s \in [1 .. Cardinality(S) -> S]
  /\ \A m, n \in DOMAIN s : m < n => <<s[m], s[n]>> \in R

(* In a sorted list of all of S, each element stands behind those before it *)
(* in the order, and none is missing.                                       *)
LEMMA SortedRanks ==
  ASSUME NEW S, IsFiniteSet(S), NEW R, OrderOn(R, S), NEW s, Sorted(s, R, S)
  PROVE  /\ \A x \in S : \E n \in 1 .. Cardinality(S) : s[n] = x
         /\ \A n \in 1 .. Cardinality(S) :
              Cardinality({x \in S : <<x, s[n]>> \in R}) = n - 1
<1>0. Cardinality(S) \in Nat
  BY FS_CardinalityType
<1> DEFINE I == 1 .. Cardinality(S)
<1>1. s \in [I -> S] /\ \A m, n \in I : m < n => <<s[m], s[n]>> \in R
  BY DEF Sorted
<1>2. \A m, n \in I : s[m] = s[n] => m = n
  <2> SUFFICES ASSUME NEW m \in I, NEW n \in I, s[m] = s[n], m # n
               PROVE  FALSE
    OBVIOUS
  <2>1. m < n \/ n < m
    BY <1>0
  <2>2. <<s[m], s[n]>> \in R \/ <<s[n], s[m]>> \in R
    BY <1>1, <2>1
  <2>3. s[m] \in S
    BY <1>1
  <2>. QED BY <2>2, <2>3 DEF OrderOn
<1>3. IsFiniteSet(I) /\ Cardinality(I) = Cardinality(S)
  BY <1>0, FS_Interval
<1>4. \A x \in S : \E n \in I : s[n] = x
  <2> HIDE DEF I
  <2>. QED BY <1>1, <1>2, <1>3, EnoughPlaces
<1>5. ASSUME NEW n \in I
      PROVE  Cardinality({x \in S : <<x, s[n]>> \in R}) = n - 1
  <2> DEFINE J == 1 .. n - 1
             B == {x \in S : <<x, s[n]>> \in R}
             f == [m \in J |-> s[m]]
  <2>1. J \subseteq I /\ n \in Nat /\ n >= 1
    BY <1>0
  <2>2. f \in [J -> B]
    <3> SUFFICES ASSUME NEW m \in J PROVE s[m] \in B
      OBVIOUS
    <3>1. m \in I /\ m < n
      BY <1>0
    <3>. QED BY <1>1, <3>1
  <2>3. \A m, k \in J : f[m] = f[k] => m = k
    BY <1>2, <2>1
  <2>4. \A b \in B : \E m \in J : f[m] = b
    <3> SUFFICES ASSUME NEW b \in B PROVE \E m \in J : s[m] = b
      OBVIOUS
    <3>1. PICK m \in I : s[m] = b
      BY <1>4
    <3>2. ~ (n < m) /\ m # n
      <4>1. b \in S /\ s[n] \in S /\ <<b, s[n]>> \in R
        BY <1>1
      <4>2. <<s[n], b>> \notin R /\ b # s[n]
        BY <4>1 DEF OrderOn
      <4>. QED BY <1>1, <3>1, <4>2
    <3>3. m \in J
      BY <1>0, <3>2
    <3>. QED BY <3>1, <3>3
  <2>5. f \in Bijection(J, B)
    <3> HIDE DEF f, J, B
    <3>. QED BY <2>2, <2>3, <2>4 DEF Bijection, Injection, IsInjective, Surjection
  <2>6. IsFiniteSet(J) /\ Cardinality(J) = n - 1
    <3>1. n - 1 \in Int /\ n - 1 >= 0
      BY <2>1
    <3>. QED BY <3>1, FS_Interval
  <2>7. ExistsBijection(J, B)
    BY <2>5 DEF ExistsBijection
  <2>. QED BY <2>6, <2>7, FS_Bijection
<1>. QED BY <1>4, <1>5

(* A finite set can be sorted: each element goes where its rank says.       *)
LEMMA SortedExists ==
  ASSUME NEW S, IsFiniteSet(S), NEW R, OrderOn(R, S)
  PROVE  \E s : Sorted(s, R, S)
<1> DEFINE B(x) == {y \in S : <<y, x>> \in R}
           I == 1 .. Cardinality(S)
           place == [x \in S |-> Cardinality(B(x)) + 1]
<1>0. Cardinality(S) \in Nat
  BY FS_CardinalityType
<1>1. ASSUME NEW x \in S
      PROVE  IsFiniteSet(B(x)) /\ Cardinality(B(x)) \in Nat /\ place[x] \in I
  <2>1. B(x) \in SUBSET (S \ {x})
    BY DEF OrderOn
  <2>2. IsFiniteSet(S \ {x}) /\ Cardinality(S \ {x}) = Cardinality(S) - 1
    BY FS_RemoveElement
  <2>3. IsFiniteSet(B(x)) /\ Cardinality(B(x)) <= Cardinality(S \ {x})
    BY <2>1, <2>2, FS_Subset
  <2>4. Cardinality(B(x)) \in Nat
    BY <2>3, FS_CardinalityType
  <2>. QED BY <1>0, <2>2, <2>3, <2>4
<1>2. ASSUME NEW x \in S, NEW y \in S, <<x, y>> \in R
      PROVE  place[x] < place[y]
  <2>1. B(x) \in SUBSET B(y) /\ x \in B(y) /\ x \notin B(x)
    BY <1>2 DEF OrderOn
  <2>2. B(x) # B(y) /\ IsFiniteSet(B(y))
    BY <1>1, <2>1
  <2>3. Cardinality(B(x)) <= Cardinality(B(y)) /\ Cardinality(B(x)) # Cardinality(B(y))
    <3> HIDE DEF B
    <3>. QED BY <2>1, <2>2, FS_Subset
  <2>. QED BY <1>1, <2>3
<1> HIDE DEF B
<1>3. place \in [S -> I]
  BY <1>1
<1>4. \A x, y \in S : place[x] = place[y] => x = y
  <2> SUFFICES ASSUME NEW x \in S, NEW y \in S, place[x] = place[y], x # y PROVE FALSE
    OBVIOUS
  <2>1. <<x, y>> \in R \/ <<y, x>> \in R
    BY DEF OrderOn
  <2>2. place[x] \in Nat /\ place[y] \in Nat
    BY <1>1
  <2> HIDE DEF place
  <2>. QED BY <1>2, <2>1, <2>2
<1>5. IsFiniteSet(I) /\ Cardinality(I) = Cardinality(S)
  BY <1>0, FS_Interval
<1> HIDE DEF place
<1>6. \A n \in I : \E x \in S : place[x] = n
  <2> HIDE DEF I
  <2>. QED BY <1>3, <1>4, <1>5, EnoughPlaces
<1> DEFINE s == [n \in I |-> CHOOSE x \in S : place[x] = n]
<1>7. \A n \in I : s[n] \in S /\ place[s[n]] = n
  BY <1>6
<1>8. s \in [I -> S]
  BY <1>7
<1>9. ASSUME NEW m \in I, NEW n \in I, m < n
      PROVE  <<s[m], s[n]>> \in R
  <2>1. s[m] \in S /\ s[n] \in S /\ place[s[m]] = m /\ place[s[n]] = n /\ m \in Nat /\ n \in Nat
    BY <1>0, <1>7
  <2>2. s[m] # s[n] /\ <<s[n], s[m]>> \notin R
    <3> HIDE DEF s
    <3>. QED BY <1>2, <1>9, <2>1
  <2>. QED BY <2>1, <2>2 DEF OrderOn
<1>10. Sorted(s, R, S)
  <2>1. DOMAIN s = I
    OBVIOUS
  <2> HIDE DEF s
  <2>. QED BY <1>8, <1>9, <2>1 DEF Sorted
<1>. QED BY <1>10

DirectoryInv ==
  /\ rows \in UNION {[ids -> RowKinds] : ids \in SUBSET (1 .. TOTAL_CHAINS)}
  /\ query \in Queries /\ sort \in SortKeys /\ page \in Nat

FoundOrder == {p \in Found \X Found : Before(p[1], p[2])}

\* What is found is a finite set of chains.
LEMMA FoundFinite ==
  /\ IsFiniteSet(Found) /\ Cardinality(Found) \in Nat /\ Found \subseteq 1 .. TOTAL_CHAINS
  /\ Found # {} => Cardinality(Found) >= 1
<1>0. IsFiniteSet(1 .. TOTAL_CHAINS)
  BY DirectoryAssumption, FS_Interval
<1>1. IsFiniteSet(1 .. TOTAL_CHAINS) /\ Found \in SUBSET (1 .. TOTAL_CHAINS)
  BY <1>0 DEF Found
<1>2. IsFiniteSet(Found) /\ Cardinality(Found) \in Nat
  BY <1>1, FS_Subset, FS_CardinalityType
<1>3. Found # {} => Cardinality(Found) # 0
  BY <1>2, FS_EmptySet
<1>. QED BY <1>1, <1>2, <1>3

\* Every chain has a number to be sorted by.
LEMMA HasSortValue ==
  ASSUME DirectoryInv, NEW i \in 1 .. TOTAL_CHAINS
  PROVE  SortValue(Listing(i)) \in Int
<1>1. Listing(i) \in RowKinds \cup {ReservedRow}
  <2>1. \A j \in DOMAIN rows : rows[j] \in RowKinds
    BY DEF DirectoryInv
  <2>. QED BY <2>1 DEF Listing
<1>2. /\ Listing(i).status \in {"live", "created", "paused", "reserved"}
      /\ Listing(i).txCount \in Nat /\ Listing(i).contractCount \in Nat /\ Listing(i).revenue \in Nat
  BY <1>1, DirectoryAssumption DEF ReservedRow
<1>3. STATUS_ORDER[Listing(i).status] \in Int
  BY <1>2 DEF STATUS_ORDER
<1>4. sort \in {"state", "transactions", "apps", "revenue"}
  BY DEF DirectoryInv, SortKeys
<1>. QED BY <1>2, <1>3, <1>4 DEF SortValue

\* Value first and number second is an order with no ties.
LEMMA FoundOrdered ==
  ASSUME DirectoryInv
  PROVE  OrderOn(FoundOrder, Found)
<1> DEFINE v(i) == SortValue(Listing(i))
<1>1. \A i \in Found : v(i) \in Int /\ i \in Int
  BY HasSortValue, FoundFinite
<1>2. \A i, j \in Found : <<i, j>> \in FoundOrder <=> v(i) < v(j) \/ (v(i) = v(j) /\ i < j)
  BY DEF FoundOrder, Before
<1> HIDE DEF v
<1>3. \A x \in Found : <<x, x>> \notin FoundOrder
  BY <1>1, <1>2
<1>4. \A x, y, z \in Found : <<x, y>> \in FoundOrder /\ <<y, z>> \in FoundOrder
        => <<x, z>> \in FoundOrder
  BY <1>1, <1>2
<1>5. \A x, y \in Found : x = y \/ <<x, y>> \in FoundOrder \/ <<y, x>> \in FoundOrder
  <2> TAKE x \in Found, y \in Found
  <2>1. x < y \/ y < x \/ x = y
    BY <1>1
  <2>2. v(x) < v(y) \/ v(y) < v(x) \/ v(x) = v(y)
    BY <1>1
  <2>. QED BY <1>2, <2>1, <2>2
<1>. QED BY <1>3, <1>4, <1>5 DEF OrderOn

\* The list exists and is sorted.
LEMMA OrderedIsSorted ==
  ASSUME DirectoryInv
  PROVE  Sorted(Ordered, FoundOrder, Found)
<1> DEFINE D == [1 .. Cardinality(Found) -> Found]
           P(s) == \A m, n \in DOMAIN s : m < n => Before(s[m], s[n])
<1>1. \A s \in D : P(s) <=> Sorted(s, FoundOrder, Found)
  <2> TAKE s \in D
  <2>1. \A m, n \in DOMAIN s : Before(s[m], s[n]) <=> <<s[m], s[n]>> \in FoundOrder
    BY DEF FoundOrder
  <2>. QED BY <2>1 DEF Sorted
<1>2. \E s \in D : P(s)
  <2>1. PICK s : Sorted(s, FoundOrder, Found)
    BY FoundOrdered, FoundFinite, SortedExists
  <2>2. s \in D
    BY <2>1 DEF Sorted
  <2>. QED BY <1>1, <2>1, <2>2
<1>3. Ordered \in D /\ P(Ordered)
  BY <1>2 DEF Ordered
<1>. QED BY <1>1, <1>3

\* The chain at place n has n - 1 found chains before it, and none is left out.
LEMMA OrderedRanks ==
  ASSUME DirectoryInv
  PROVE  /\ Ordered \in Seq(Found) /\ Len(Ordered) = Cardinality(Found)
         /\ \A n \in 1 .. Len(Ordered) : Ordered[n] \in Found /\ Rank(Ordered[n]) = n - 1
         /\ \A i \in Found : \E n \in 1 .. Len(Ordered) : Ordered[n] = i
<1>1. /\ Sorted(Ordered, FoundOrder, Found) /\ OrderOn(FoundOrder, Found)
      /\ IsFiniteSet(Found) /\ Cardinality(Found) \in Nat
  BY OrderedIsSorted, FoundOrdered, FoundFinite
<1>2. Ordered \in [1 .. Cardinality(Found) -> Found]
  BY <1>1 DEF Sorted
<1>3. Ordered \in Seq(Found) /\ Len(Ordered) = Cardinality(Found)
  <2>1. Ordered \in Seq(Found)
    BY <1>1, <1>2, SeqDef
  <2>2. DOMAIN Ordered = 1 .. Len(Ordered) /\ Len(Ordered) \in Nat
    BY <2>1, LenProperties
  <2>. QED BY <1>1, <1>2, <2>1, <2>2
<1>4. \A i \in Found : \E n \in 1 .. Cardinality(Found) : Ordered[n] = i
  BY <1>1, SortedRanks
<1>5. ASSUME NEW n \in 1 .. Cardinality(Found)
      PROVE  Rank(Ordered[n]) = n - 1
  <2>1. Cardinality({x \in Found : <<x, Ordered[n]>> \in FoundOrder}) = n - 1
    BY <1>1, SortedRanks
  <2>2. Ordered[n] \in Found
    BY <1>2
  <2>3. {x \in Found : <<x, Ordered[n]>> \in FoundOrder} = {x \in Found : Before(x, Ordered[n])}
    BY <2>2 DEF FoundOrder
  <2>. QED BY <2>1, <2>3 DEF Rank
<1>. QED BY <1>2, <1>3, <1>4, <1>5

\* Fewer pages hold no more rows.
LEMMA SmallerPages ==
  ASSUME NEW k \in Nat \ {0}, NEW a \in Nat, NEW b \in Nat, a <= b
  PROVE  a * k \in Nat /\ b * k \in Nat /\ a * k <= b * k
OBVIOUS

\* The page rendered begins inside the list, however far the reader had turned.
LEMMA CurrentInside ==
  ASSUME DirectoryInv
  PROVE  /\ Current \in Nat
         /\ Found # {} => Current * PER_PAGE < Cardinality(Found)
<1> DEFINE n == Cardinality(Found)
<1>0. PER_PAGE \in Nat \ {0} /\ n \in Nat /\ page \in Nat /\ (Found # {} => n >= 1)
  BY DirectoryAssumption, FoundFinite DEF DirectoryInv
<1>1. CASE Found = {}
  BY <1>0, <1>1 DEF Current, Pages
<1>2. CASE Found # {}
  <2> HIDE DEF n
  <2>1. PICK q \in Nat : q = (n + PER_PAGE - 1) \div PER_PAGE
    <3>1. n + PER_PAGE - 1 \in Nat
      BY <1>0
    <3>. QED BY <1>0, <3>1, QuotientNat
  <2>2. q * PER_PAGE <= n + PER_PAGE - 1 /\ n + PER_PAGE - 1 < (q + 1) * PER_PAGE
    BY <1>0, <2>1
  <2>3. q # 0
    BY <1>0, <1>2, <2>2
  <2>4. Pages = q
    BY <1>2, <2>1 DEF Pages, n
  <2>5. Current \in Nat /\ Current <= q - 1
    BY <1>0, <2>3, <2>4 DEF Current
  <2>6. q - 1 \in Nat
    BY <2>3
  <2>7. Current * PER_PAGE <= (q - 1) * PER_PAGE /\ Current * PER_PAGE \in Nat
    BY <1>0, <2>5, <2>6, SmallerPages
  <2>8. (q - 1) * PER_PAGE = q * PER_PAGE - PER_PAGE
    BY <1>0
  <2>9. q * PER_PAGE \in Nat
    BY <1>0
  <2>. QED BY <1>0, <2>2, <2>5, <2>7, <2>8, <2>9 DEF n
<1>. QED BY <1>1, <1>2

\* A number in the page's stretch has the page for its quotient, and no other.
LEMMA OnThePage ==
  ASSUME NEW k \in Nat \ {0}, NEW r \in Nat, NEW c \in Nat, r \div k = c
  PROVE  c * k \in Nat /\ c * k <= r /\ r < c * k + k
<1>1. k * c <= r /\ r < k * (c + 1)
  OBVIOUS
<1>. QED BY <1>1

\* The page rendered is its stretch of the list.
LEMMA DirectoryLists ==
  ASSUME DirectoryInv
  PROVE  DirectoryListsWhatItFound
<1>0. PER_PAGE \in Nat \ {0} /\ Current \in Nat /\ Len(Ordered) = Cardinality(Found)
      /\ Cardinality(Found) \in Nat /\ Ordered \in Seq(Found)
  BY DirectoryAssumption, CurrentInside, OrderedRanks, FoundFinite
<1>1. PICK a \in Nat : a = Current * PER_PAGE
  BY <1>0
<1>2. PICK l \in Nat : l = IF a + PER_PAGE < Len(Ordered) THEN a + PER_PAGE ELSE Len(Ordered)
  BY <1>0
<1>3. Shown = SubSeq(Ordered, a + 1, l)
  BY <1>1, <1>2 DEF Shown
<1>4. \A n \in a + 1 .. l : n \in 1 .. Len(Ordered) /\ Ordered[n] \in Found
  BY <1>0, <1>2, OrderedRanks
<1>5. /\ Shown \in Seq(Found)
      /\ Len(Shown) = IF a + 1 <= l THEN l - (a + 1) + 1 ELSE 0
      /\ \A k \in 1 .. l - (a + 1) + 1 : Shown[k] = Ordered[a + 1 + k - 1]
  <2>1. PICK from \in Int : from = a + 1
    OBVIOUS
  <2>2. l \in Int /\ \A n \in from .. l : Ordered[n] \in Found
    BY <1>0, <1>2, <1>4, <2>1
  <2>3. /\ SubSeq(Ordered, from, l) \in Seq(Found)
        /\ Len(SubSeq(Ordered, from, l)) = IF from <= l THEN l - from + 1 ELSE 0
        /\ \A k \in 1 .. l - from + 1 : SubSeq(Ordered, from, l)[k] = Ordered[from + k - 1]
    BY <2>2, SubSeqProperties
  <2>. QED BY <1>3, <2>1, <2>3, Zenon
<1>6. DOMAIN Shown = 1 .. Len(Shown)
  BY <1>5, LenProperties
<1>7. \A k \in DOMAIN Shown : k \in Int /\ a + k \in a + 1 .. l /\ Shown[k] = Ordered[a + k]
  BY <1>5, <1>6
<1>8. \A n \in a + 1 .. l : n - a \in DOMAIN Shown /\ Shown[n - a] = Ordered[n]
  <2> TAKE n \in a + 1 .. l
  <2>1. n - a \in 1 .. l - (a + 1) + 1 /\ n - a \in 1 .. Len(Shown)
    BY <1>5
  <2>2. Shown[n - a] = Ordered[a + 1 + (n - a) - 1] /\ a + 1 + (n - a) - 1 = n
    BY <1>5, <2>1
  <2>. QED BY <1>6, <2>1, <2>2
<1>9. Found # {} => Shown # <<>>
  <2>1. HAVE Found # {}
  <2>2. a < Len(Ordered)
    BY <1>0, <1>1, <2>1, CurrentInside
  <2>3. a + 1 \in a + 1 .. l
    BY <1>0, <1>2, <2>2
  <2>4. DOMAIN Shown # {}
    BY <1>8, <2>3
  <2>. QED BY <2>4
<1>10. \A k \in DOMAIN Shown : Shown[k] \in Found /\ Rank(Shown[k]) = a + k - 1
  <2> TAKE k \in DOMAIN Shown
  <2>1. k \in Int /\ a + k \in 1 .. Len(Ordered) /\ Shown[k] = Ordered[a + k]
    BY <1>4, <1>7
  <2>2. Ordered[a + k] \in Found /\ Rank(Ordered[a + k]) = (a + k) - 1
    BY <2>1, OrderedRanks
  <2>. QED BY <2>1, <2>2
<1>11. ASSUME NEW i \in Found, Rank(i) \div PER_PAGE = Current
       PROVE  \E k \in DOMAIN Shown : Shown[k] = i
  <2>1. PICK n \in 1 .. Len(Ordered) : Ordered[n] = i
    BY OrderedRanks
  <2>2. Rank(i) = n - 1 /\ n - 1 \in Nat
    BY <1>0, <2>1, OrderedRanks
  <2>3. a <= n - 1 /\ n - 1 < a + PER_PAGE
    BY <1>0, <1>1, <1>11, <2>2, OnThePage
  <2>4. n \in a + 1 .. l
    BY <1>0, <1>2, <2>3
  <2>. QED BY <1>8, <2>1, <2>4
<1>. QED BY <1>1, <1>9, <1>10, <1>11 DEF DirectoryListsWhatItFound

\* The page is sent with no query and its first page shown.
LEMMA DirectoryStarts ==
  ASSUME DirectoryInit
  PROVE  DirectoryInv
<1>1. query \in Queries
  <2>1. query = [number |-> 0, term |-> ""]
    BY DEF DirectoryInit, NoQuery
  <2>2. 0 \in Numbers
    BY DirectoryAssumption DEF Numbers
  <2>. QED BY <2>1, <2>2 DEF Queries
<1>2. sort \in SortKeys /\ page \in Nat
  BY DEF DirectoryInit, SortKeys
<1>3. rows \in UNION {[ids -> RowKinds] : ids \in SUBSET (1 .. TOTAL_CHAINS)}
  BY DEF DirectoryInit
<1>. QED BY <1>1, <1>2, <1>3 DEF DirectoryInv

\* Every action keeps the types; nothing else is needed.
LEMMA DirectoryKeeps ==
  ASSUME DirectoryInv, [DirectoryNext]_directoryVars
  PROVE  DirectoryInv'
<1>1. CASE Search
  BY <1>1 DEF Search, DirectoryInv, Queries, SortKeys
<1>2. CASE ShowFirstPage
  BY <1>2 DEF ShowFirstPage, DirectoryInv, Queries, SortKeys
<1>3. CASE OrderBy
  BY <1>3 DEF OrderBy, DirectoryInv, Queries, SortKeys
<1>4. CASE TurnPage
  <2>1. Current \in Nat
    BY CurrentInside
  <2>2. page' \in Nat
    BY <1>4, <2>1 DEF TurnPage
  <2>. QED BY <1>4, <2>2 DEF TurnPage, DirectoryInv, Queries, SortKeys
<1>5. CASE UNCHANGED directoryVars
  BY <1>5 DEF directoryVars, DirectoryInv, Queries, SortKeys
<1>. QED BY <1>1, <1>2, <1>3, <1>4, <1>5 DEF DirectoryNext

(* For any number of chains, rows, terms and page size, and whatever page   *)
(* the reader was on: a search that finds something shows something, and    *)
(* its pages list each chain found once and in order (web/app/ChainsCard).  *)
THEOREM DirectoryListsAll == DirectorySpec => []DirectoryListsWhatItFound
<1>1. DirectoryInit => DirectoryInv
  BY DirectoryStarts
<1>2. DirectoryInv /\ [DirectoryNext]_directoryVars => DirectoryInv'
  BY DirectoryKeeps
<1>3. DirectoryInv => DirectoryListsWhatItFound
  BY DirectoryLists
<1>. QED BY <1>1, <1>2, <1>3, PTL DEF DirectorySpec

-----------------------------------------------------------------------------
(* Cutover: a release takes effect in the order of its plan.               *)
(*                                                                         *)
(* First the plans, which are data: for each step, that the plan gives     *)
(* what it uses before it and that nothing before it uses that up.  Then   *)
(* the invariant: what is in the file was sent for its step; a stage step  *)
(* is sent only when all before it are done; every fact was given by a     *)
(* step that is done, and what a step that is done gave is there or used   *)
(* up by one that is done; and without a mishap nothing of the stage was   *)
(* sent and not saved.                                                     *)

IsList(s, n) == s = [i \in 1 .. n |-> s[i]]

\* u is s and then t.
IsJoined(u, s, n, t, m) ==
  /\ IsList(u, n + m)
  /\ \A i \in 1 .. n : u[i] = s[i]
  /\ \A i \in 1 .. m : u[n + i] = t[i]

\* A function over 1 .. n is a sequence of n elements.
LEMMA ListIsSequence ==
  ASSUME NEW s, NEW n \in Nat, IsList(s, n), NEW S, \A i \in 1 .. n : s[i] \in S
  PROVE  Len(s) = n /\ DOMAIN s = 1 .. n /\ s \in Seq(S)
<1>1. DOMAIN s = 1 .. n
  BY DEF IsList
<1>2. s \in [1 .. n -> S]
  BY DEF IsList
<1>3. s \in Seq(S)
  BY <1>2, SeqDef
<1>4. DOMAIN s = 1 .. Len(s) /\ Len(s) \in Nat
  BY <1>3, LenProperties
<1>. QED BY <1>1, <1>3, <1>4

LEMMA ListLen ==
  ASSUME NEW s, NEW n \in Nat, IsList(s, n)
  PROVE  Len(s) = n /\ DOMAIN s = 1 .. n
<1>1. \A i \in 1 .. n : s[i] \in {s[j] : j \in 1 .. n}
  OBVIOUS
<1>. QED BY <1>1, ListIsSequence

\* What \o does, place by place.
LEMMA Joined ==
  ASSUME NEW s, NEW t, NEW n \in Nat, NEW m \in Nat, IsList(s, n), IsList(t, m)
  PROVE  IsJoined(s \o t, s, n, t, m)
<1> DEFINE S == {s[i] : i \in 1 .. n} \cup {t[i] : i \in 1 .. m}
           u == s \o t
<1>1. (\A i \in 1 .. n : s[i] \in S) /\ (\A i \in 1 .. m : t[i] \in S)
  OBVIOUS
<1> HIDE DEF S
<1>2. s \in Seq(S) /\ Len(s) = n /\ t \in Seq(S) /\ Len(t) = m
  BY <1>1, ListIsSequence
<1>3. /\ u \in Seq(S) /\ Len(u) = n + m
      /\ \A i \in 1 .. n + m : u[i] = IF i <= n THEN s[i] ELSE t[i - n]
  BY <1>2, ConcatProperties
<1> HIDE DEF u
<1>4. IsList(u, n + m)
  <2>1. u \in [1 .. n + m -> S]
    BY <1>3, LenProperties
  <2>. QED BY <2>1 DEF IsList
<1>5. \A i \in 1 .. n : u[i] = s[i]
  BY <1>3
<1>6. ASSUME NEW i \in 1 .. m PROVE u[n + i] = t[i]
  <2>1. n + i \in 1 .. n + m /\ ~ (n + i <= n) /\ (n + i) - n = i
    OBVIOUS
  <2>. QED BY <1>3, <2>1
<1>. QED BY <1>4, <1>5, <1>6 DEF IsJoined, u

\* How long the blocks are that the plans are put together from.
LEMMA BlockLists ==
  /\ IsList(Core, 11) /\ IsList(Wiring, 5) /\ IsList(DeedSteps, 4) /\ IsList(Genesis, 7)
  /\ IsList(Handover, 2) /\ IsList(Finalization, 2)
<1>1. IsList(Core, 11)
  BY DEF IsList, Core
<1>2. IsList(Wiring, 5)
  BY DEF IsList, Wiring
<1>3. IsList(DeedSteps, 4)
  BY DEF IsList, DeedSteps
<1>4. IsList(Genesis, 7)
  BY DEF IsList, Genesis
<1>5. IsList(Handover, 2) /\ IsList(Finalization, 2)
  BY DEF IsList, Handover, Finalization
<1>. QED BY <1>1, <1>2, <1>3, <1>4, <1>5

\* Which block stands where: first in either plan, then in the one that is staged.
LEMMA PlanV10At ==
  /\ IsList(PlanV10, 33)
  /\ \A i \in 1 .. 11 : PlanV10[i] = Core[i]
  /\ PlanV10[12] = DaoFactory /\ PlanV10[13] = SetDaoFactory
  /\ \A i \in 1 .. 5 : PlanV10[13 + i] = Wiring[i]
  /\ PlanV10[19] = CreateDaos
  /\ \A i \in 1 .. 4 : PlanV10[19 + i] = DeedSteps[i]
  /\ \A i \in 1 .. 7 : PlanV10[23 + i] = Genesis[i]
  /\ PlanV10[31] = Bootstrap
  /\ \A i \in 1 .. 2 : PlanV10[31 + i] = Handover[i]
<1> DEFINE t1 == <<DaoFactory, SetDaoFactory>>
           t2 == <<CreateDaos>>
           t3 == <<Bootstrap>>
           p1 == Core \o t1
           p2 == p1 \o Wiring
           p3 == p2 \o t2
           p4 == p3 \o DeedSteps
           p5 == p4 \o Genesis
           p6 == p5 \o t3
<1>1. PlanV10 = p6 \o Handover
  BY DEF PlanV10
<1>2. IsList(t1, 2) /\ IsList(t2, 1) /\ IsList(t3, 1)
  BY DEF IsList
<1>3. /\ t1[1] = DaoFactory /\ t1[2] = SetDaoFactory
      /\ t2[1] = CreateDaos
      /\ t3[1] = Bootstrap
  OBVIOUS
<1> HIDE DEF t1, t2, t3
<1>4. IsJoined(p1, Core, 11, t1, 2)
  BY <1>2, BlockLists, Joined
<1> HIDE DEF p1
<1>5. IsJoined(p2, p1, 13, Wiring, 5)
  <2>1. IsList(p1, 13)
    BY <1>4 DEF IsJoined
  <2>. QED BY <1>2, <2>1, BlockLists, Joined
<1> HIDE DEF p2
<1>6. IsJoined(p3, p2, 18, t2, 1)
  <2>1. IsList(p2, 18)
    BY <1>5 DEF IsJoined
  <2>. QED BY <1>2, <2>1, BlockLists, Joined
<1> HIDE DEF p3
<1>7. IsJoined(p4, p3, 19, DeedSteps, 4)
  <2>1. IsList(p3, 19)
    BY <1>6 DEF IsJoined
  <2>. QED BY <1>2, <2>1, BlockLists, Joined
<1> HIDE DEF p4
<1>8. IsJoined(p5, p4, 23, Genesis, 7)
  <2>1. IsList(p4, 23)
    BY <1>7 DEF IsJoined
  <2>. QED BY <1>2, <2>1, BlockLists, Joined
<1> HIDE DEF p5
<1>9. IsJoined(p6, p5, 30, t3, 1)
  <2>1. IsList(p5, 30)
    BY <1>8 DEF IsJoined
  <2>. QED BY <1>2, <2>1, BlockLists, Joined
<1> HIDE DEF p6
<1>10. IsJoined(PlanV10, p6, 31, Handover, 2)
  <2>1. IsList(p6, 31)
    BY <1>9 DEF IsJoined
  <2>. QED BY <1>1, <1>2, <2>1, BlockLists, Joined
<1>11. \A i \in 1 .. 11 : PlanV10[i] = Core[i]
  BY <1>4, <1>5, <1>6, <1>7, <1>8, <1>9, <1>10 DEF IsJoined
<1>12. \A i \in 1 .. 2 : PlanV10[11 + i] = t1[i]
  BY <1>4, <1>5, <1>6, <1>7, <1>8, <1>9, <1>10 DEF IsJoined
<1>13. PlanV10[12] = t1[1] /\ PlanV10[13] = t1[2]
  <2>1. PlanV10[11 + 1] = t1[1] /\ PlanV10[11 + 2] = t1[2]
    BY <1>12
  <2>. QED BY <2>1
<1>14. \A i \in 1 .. 5 : PlanV10[13 + i] = Wiring[i]
  BY <1>5, <1>6, <1>7, <1>8, <1>9, <1>10 DEF IsJoined
<1>15. \A i \in 1 .. 1 : PlanV10[18 + i] = t2[i]
  BY <1>6, <1>7, <1>8, <1>9, <1>10 DEF IsJoined
<1>16. PlanV10[19] = t2[1]
  <2>1. PlanV10[18 + 1] = t2[1]
    BY <1>15
  <2>. QED BY <2>1
<1>17. \A i \in 1 .. 4 : PlanV10[19 + i] = DeedSteps[i]
  BY <1>7, <1>8, <1>9, <1>10 DEF IsJoined
<1>18. \A i \in 1 .. 7 : PlanV10[23 + i] = Genesis[i]
  BY <1>8, <1>9, <1>10 DEF IsJoined
<1>19. \A i \in 1 .. 1 : PlanV10[30 + i] = t3[i]
  BY <1>9, <1>10 DEF IsJoined
<1>20. PlanV10[31] = t3[1]
  <2>1. PlanV10[30 + 1] = t3[1]
    BY <1>19
  <2>. QED BY <2>1
<1>21. \A i \in 1 .. 2 : PlanV10[31 + i] = Handover[i]
  BY <1>10 DEF IsJoined
<1>22. IsList(PlanV10, 33)
  BY <1>10 DEF IsJoined
<1>. QED BY <1>3, <1>11, <1>13, <1>14, <1>16, <1>17, <1>18, <1>20, <1>21, <1>22

LEMMA PlanV11At ==
  /\ IsList(PlanV11, 36)
  /\ \A i \in 1 .. 11 : PlanV11[i] = Core[i]
  /\ \A i \in 1 .. 5 : PlanV11[11 + i] = Wiring[i]
  /\ \A i \in 1 .. 4 : PlanV11[16 + i] = DeedSteps[i]
  /\ \A i \in 1 .. 7 : PlanV11[20 + i] = Genesis[i]
  /\ PlanV11[28] = ImportAccounting /\ PlanV11[29] = SweepLegacyExcess /\ PlanV11[30] = Bootstrap /\ PlanV11[31] = Gate
  /\ PlanV11[32] = DaoFactory /\ PlanV11[33] = SetDaoFactory /\ PlanV11[34] = CreateDaos
  /\ \A i \in 1 .. 2 : PlanV11[34 + i] = Handover[i]
<1> DEFINE t1 == <<ImportAccounting, SweepLegacyExcess, Bootstrap, Gate>>
           t2 == <<DaoFactory, SetDaoFactory, CreateDaos>>
           p1 == Core \o Wiring
           p2 == p1 \o DeedSteps
           p3 == p2 \o Genesis
           p4 == p3 \o t1
           p5 == p4 \o t2
<1>1. PlanV11 = p5 \o Handover
  BY DEF PlanV11
<1>2. IsList(t1, 4) /\ IsList(t2, 3)
  BY DEF IsList
<1>3. /\ t1[1] = ImportAccounting /\ t1[2] = SweepLegacyExcess /\ t1[3] = Bootstrap /\ t1[4] = Gate
      /\ t2[1] = DaoFactory /\ t2[2] = SetDaoFactory /\ t2[3] = CreateDaos
  OBVIOUS
<1> HIDE DEF t1, t2
<1>4. IsJoined(p1, Core, 11, Wiring, 5)
  BY <1>2, BlockLists, Joined
<1> HIDE DEF p1
<1>5. IsJoined(p2, p1, 16, DeedSteps, 4)
  <2>1. IsList(p1, 16)
    BY <1>4 DEF IsJoined
  <2>. QED BY <1>2, <2>1, BlockLists, Joined
<1> HIDE DEF p2
<1>6. IsJoined(p3, p2, 20, Genesis, 7)
  <2>1. IsList(p2, 20)
    BY <1>5 DEF IsJoined
  <2>. QED BY <1>2, <2>1, BlockLists, Joined
<1> HIDE DEF p3
<1>7. IsJoined(p4, p3, 27, t1, 4)
  <2>1. IsList(p3, 27)
    BY <1>6 DEF IsJoined
  <2>. QED BY <1>2, <2>1, BlockLists, Joined
<1> HIDE DEF p4
<1>8. IsJoined(p5, p4, 31, t2, 3)
  <2>1. IsList(p4, 31)
    BY <1>7 DEF IsJoined
  <2>. QED BY <1>2, <2>1, BlockLists, Joined
<1> HIDE DEF p5
<1>9. IsJoined(PlanV11, p5, 34, Handover, 2)
  <2>1. IsList(p5, 34)
    BY <1>8 DEF IsJoined
  <2>. QED BY <1>1, <1>2, <2>1, BlockLists, Joined
<1>10. \A i \in 1 .. 11 : PlanV11[i] = Core[i]
  BY <1>4, <1>5, <1>6, <1>7, <1>8, <1>9 DEF IsJoined
<1>11. \A i \in 1 .. 5 : PlanV11[11 + i] = Wiring[i]
  BY <1>4, <1>5, <1>6, <1>7, <1>8, <1>9 DEF IsJoined
<1>12. \A i \in 1 .. 4 : PlanV11[16 + i] = DeedSteps[i]
  BY <1>5, <1>6, <1>7, <1>8, <1>9 DEF IsJoined
<1>13. \A i \in 1 .. 7 : PlanV11[20 + i] = Genesis[i]
  BY <1>6, <1>7, <1>8, <1>9 DEF IsJoined
<1>14. \A i \in 1 .. 4 : PlanV11[27 + i] = t1[i]
  BY <1>7, <1>8, <1>9 DEF IsJoined
<1>15. PlanV11[28] = t1[1] /\ PlanV11[29] = t1[2] /\ PlanV11[30] = t1[3] /\ PlanV11[31] = t1[4]
  <2>1. PlanV11[27 + 1] = t1[1] /\ PlanV11[27 + 2] = t1[2] /\ PlanV11[27 + 3] = t1[3] /\ PlanV11[27 + 4] = t1[4]
    BY <1>14
  <2>. QED BY <2>1
<1>16. \A i \in 1 .. 3 : PlanV11[31 + i] = t2[i]
  BY <1>8, <1>9 DEF IsJoined
<1>17. PlanV11[32] = t2[1] /\ PlanV11[33] = t2[2] /\ PlanV11[34] = t2[3]
  <2>1. PlanV11[31 + 1] = t2[1] /\ PlanV11[31 + 2] = t2[2] /\ PlanV11[31 + 3] = t2[3]
    BY <1>16
  <2>. QED BY <2>1
<1>18. \A i \in 1 .. 2 : PlanV11[34 + i] = Handover[i]
  BY <1>9 DEF IsJoined
<1>19. IsList(PlanV11, 36)
  BY <1>9 DEF IsJoined
<1>. QED BY <1>3, <1>10, <1>11, <1>12, <1>13, <1>15, <1>17, <1>18, <1>19

(* Where the blocks start in the plan that is staged. *)
V10 == plan = "v10"
AtWiring == IF V10 THEN 13 ELSE 11
AtDeeds == IF V10 THEN 19 ELSE 16
AtGenesis == IF V10 THEN 23 ELSE 20
AtBootstrap == IF V10 THEN 31 ELSE 30
AtDaos == IF V10 THEN 11 ELSE 31
AtCreate == IF V10 THEN 19 ELSE 34
AtHandover == IF V10 THEN 31 ELSE 34
Staged == IF V10 THEN 33 ELSE 36

AtAll == 
  /\ \A i \in 1 .. 11 : Plan[i] = Core[i]
  /\ \A i \in 1 .. 5 : Plan[AtWiring + i] = Wiring[i]
  /\ \A i \in 1 .. 4 : Plan[AtDeeds + i] = DeedSteps[i]
  /\ \A i \in 1 .. 7 : Plan[AtGenesis + i] = Genesis[i]
  /\ Plan[AtBootstrap] = Bootstrap /\ Plan[AtCreate] = CreateDaos
  /\ Plan[AtDaos + 1] = DaoFactory /\ Plan[AtDaos + 2] = SetDaoFactory
  /\ ~V10 => Plan[28] = ImportAccounting /\ Plan[29] = SweepLegacyExcess /\ Plan[31] = Gate
  /\ \A i \in 1 .. 2 : Plan[AtHandover + i] = Handover[i]
  /\ \A i \in 1 .. 2 : Plan[Staged + i] = Finalization[i]

\* The plan that is staged has each block where the offsets say.
LEMMA Placed ==
  ASSUME plan \in {"v10", "v11"}
  PROVE  /\ Len(Stage) = Staged /\ Len(Plan) = Staged + 2 /\ DOMAIN Plan = 1 .. Staged + 2
         /\ DOMAIN Stage = 1 .. Staged
         /\ AtAll
<1>1. CASE V10
  <2>1. Stage = PlanV10 /\ IsList(Stage, 33)
    BY <1>1, PlanV10At DEF V10, Stage
  <2>2. IsJoined(Plan, Stage, 33, Finalization, 2)
    BY <2>1, BlockLists, Joined DEF Plan
  <2>3. IsList(Plan, 35)
    BY <2>2 DEF IsJoined
  <2>4. Len(Stage) = 33 /\ Len(Plan) = 35 /\ DOMAIN Plan = 1 .. 35 /\ DOMAIN Stage = 1 .. 33
    <3>1. 33 \in Nat /\ 35 \in Nat
      OBVIOUS
    <3>. QED BY <2>1, <2>3, <3>1, ListLen
  <2>5. \A i \in 1 .. 33 : Plan[i] = PlanV10[i]
    BY <2>1, <2>2 DEF IsJoined
  <2>6. \A i \in 1 .. 2 : Plan[33 + i] = Finalization[i]
    BY <2>2 DEF IsJoined
  <2>7. AtAll
    BY <1>1, <2>5, <2>6, PlanV10At
       DEF AtAll, AtWiring, AtDeeds, AtGenesis, AtBootstrap, AtDaos, AtCreate, AtHandover, Staged
  <2>. QED BY <1>1, <2>4, <2>7 DEF Staged
<1>2. CASE ~V10
  <2>1. Stage = PlanV11 /\ IsList(Stage, 36)
    BY <1>2, PlanV11At DEF V10, Stage
  <2>2. IsJoined(Plan, Stage, 36, Finalization, 2)
    BY <2>1, BlockLists, Joined DEF Plan
  <2>3. IsList(Plan, 38)
    BY <2>2 DEF IsJoined
  <2>4. Len(Stage) = 36 /\ Len(Plan) = 38 /\ DOMAIN Plan = 1 .. 38 /\ DOMAIN Stage = 1 .. 36
    <3>1. 36 \in Nat /\ 38 \in Nat
      OBVIOUS
    <3>. QED BY <2>1, <2>3, <3>1, ListLen
  <2>5. \A i \in 1 .. 36 : Plan[i] = PlanV11[i]
    BY <2>1, <2>2 DEF IsJoined
  <2>6. \A i \in 1 .. 2 : Plan[36 + i] = Finalization[i]
    BY <2>2 DEF IsJoined
  <2>7. AtAll
    BY <1>2, <2>5, <2>6, PlanV11At
       DEF AtAll, AtWiring, AtDeeds, AtGenesis, AtBootstrap, AtDaos, AtCreate, AtHandover, Staged
  <2>. QED BY <1>2, <2>4, <2>7 DEF Staged
<1>. QED BY <1>1, <1>2

(* Which step uses a fact up. *)
LastUse(f) ==
  CASE f = "forwarder unset" -> AtWiring + 1
    [] f = "factory unset" -> AtWiring + 2
    [] f = "operators open" -> AtWiring + 3
    [] f = "unminted" -> AtDeeds + 1
    [] f = "deeds held" -> AtDeeds + 4
    [] f = "controller unset" -> AtGenesis + 2
    [] f = "supply in escrow" -> AtGenesis + 3
    [] f = "market unset" -> AtGenesis + 4
    [] f = "minter" -> AtGenesis + 5
    [] f = "unfunded" -> AtGenesis + 6
    [] f = "books unset" -> 28
    [] f = "excess" -> 29
    [] f = "unobserved" -> AtBootstrap
    [] f = "daos unset" -> AtDaos + 2
    [] f = "treasury governed" -> AtHandover + 1
    [] f = "paymaster governed" -> AtHandover + 2
    [] f = "deed 4 donated" -> Staged + 1
    [] f = "deed 5 donated" -> Staged + 2
    [] OTHER -> Staged + 3

\* The plan gives each fact of U before its step p, and no step before p uses it up.
Provided(U, p) == \A f \in U : \E g \in 1 .. p - 1 : f \in Plan[g].gives
Unspent(U, p) ==
  \A f \in U : p <= LastUse(f) /\ (p <= Staged => LastUse(f) \notin {Staged + 1, Staged + 2})

Fits(s, p) ==
  /\ Provided(s.needs \cup s.takes, p) /\ Unspent(s.needs \cup s.takes, p)
  /\ \A f \in s.takes : LastUse(f) = p
  /\ s.label = "dex" => s.needs = {} /\ s.takes = {} /\ s.gives = {}
  /\ "forwarder" \in s.gives => p = AtWiring + 1
  /\ "deed 4 listed" \in s.gives => p = Staged + 1
  /\ "deed 5 listed" \in s.gives => p = Staged + 2

\* No step uses these up.
LEMMA Unused ==
  /\ LastUse("escrow") = Staged + 3 /\ LastUse("timelock") = Staged + 3
  /\ LastUse("token") = Staged + 3 /\ LastUse("pool") = Staged + 3
  /\ LastUse("deed") = Staged + 3 /\ LastUse("treasury") = Staged + 3
  /\ LastUse("runtime") = Staged + 3 /\ LastUse("oracle") = Staged + 3
  /\ LastUse("paymaster") = Staged + 3 /\ LastUse("appFactory") = Staged + 3
  /\ LastUse("factory set") = Staged + 3 /\ LastUse("market") = Staged + 3
  /\ LastUse("owners") = Staged + 3 /\ LastUse("mintContract") = Staged + 3
  /\ LastUse("vaults") = Staged + 3 /\ LastUse("distributed") = Staged + 3
  /\ LastUse("controller") = Staged + 3 /\ LastUse("price") = Staged + 3
  /\ LastUse("forwarder") = Staged + 3 /\ LastUse("liquidity") = Staged + 3
  /\ LastUse("daos set") = Staged + 3 /\ LastUse("daoFactory") = Staged + 3
BY DEF LastUse

\* In either plan the blocks come in this order, the DAOs anywhere after the core.
LEMMA AtOrder ==
  /\ AtWiring \in Nat /\ AtDeeds \in Nat /\ AtGenesis \in Nat /\ AtBootstrap \in Nat
  /\ AtDaos \in Nat /\ AtCreate \in Nat /\ AtHandover \in Nat /\ Staged \in Nat
  /\ 11 <= AtWiring /\ AtWiring + 5 <= AtDeeds /\ AtDeeds + 4 <= AtGenesis
  /\ AtGenesis + 7 < AtBootstrap /\ AtBootstrap <= AtHandover /\ Staged = AtHandover + 2
  /\ 11 <= AtDaos /\ AtDaos + 2 < AtCreate /\ AtCreate <= AtHandover
  /\ ~V10 => AtGenesis = 20 /\ AtBootstrap = 30 /\ AtHandover = 34
BY DEF AtWiring, AtDeeds, AtGenesis, AtBootstrap, AtDaos, AtCreate, AtHandover, Staged

\* And these are used up where the table says.
LEMMA UsedUp ==
  /\ LastUse("forwarder unset") = AtWiring + 1
  /\ LastUse("factory unset") = AtWiring + 2
  /\ LastUse("operators open") = AtWiring + 3
  /\ LastUse("unminted") = AtDeeds + 1
  /\ LastUse("deeds held") = AtDeeds + 4
  /\ LastUse("controller unset") = AtGenesis + 2
  /\ LastUse("supply in escrow") = AtGenesis + 3
  /\ LastUse("market unset") = AtGenesis + 4
  /\ LastUse("minter") = AtGenesis + 5
  /\ LastUse("unfunded") = AtGenesis + 6
  /\ LastUse("treasury governed") = AtHandover + 1
  /\ LastUse("paymaster governed") = AtHandover + 2
  /\ LastUse("deed 4 donated") = Staged + 1
  /\ LastUse("deed 5 donated") = Staged + 2
  /\ LastUse("unobserved") = AtBootstrap
  /\ LastUse("daos unset") = AtDaos + 2
  /\ LastUse("books unset") = 28
  /\ LastUse("excess") = 29
BY DEF LastUse

\* Where each fact that a step requires comes from.
LEMMA Given ==
  ASSUME AtAll
  PROVE  /\ "timelock" \in Plan[1].gives
         /\ "escrow" \in Plan[2].gives /\ "market unset" \in Plan[2].gives
         /\ "token" \in Plan[3].gives /\ "supply in escrow" \in Plan[3].gives
         /\ "operators open" \in Plan[3].gives
         /\ "deed" \in Plan[4].gives /\ "minter" \in Plan[4].gives
         /\ "unminted" \in Plan[4].gives
         /\ "vaults" \in Plan[5].gives
         /\ "pool" \in Plan[6].gives /\ "controller unset" \in Plan[6].gives
         /\ "oracle" \in Plan[7].gives /\ "unobserved" \in Plan[7].gives
         /\ "treasury" \in Plan[8].gives /\ "treasury governed" \in Plan[8].gives
         /\ "runtime" \in Plan[9].gives /\ "forwarder unset" \in Plan[9].gives
         /\ "factory unset" \in Plan[9].gives /\ "daos unset" \in Plan[9].gives
         /\ "paymaster" \in Plan[10].gives /\ "paymaster governed" \in Plan[10].gives
         /\ "books unset" \in Plan[10].gives
         /\ "appFactory" \in Plan[11].gives
         /\ "forwarder" \in Plan[AtWiring + 1].gives
         /\ "factory set" \in Plan[AtWiring + 2].gives
         /\ "deeds held" \in Plan[AtDeeds + 1].gives
         /\ "market" \in Plan[AtDeeds + 3].gives
         /\ "owners" \in Plan[AtDeeds + 4].gives /\ "deed 4 donated" \in Plan[AtDeeds + 4].gives
         /\ "deed 5 donated" \in Plan[AtDeeds + 4].gives
         /\ "mintContract" \in Plan[AtGenesis + 1].gives /\ "unfunded" \in Plan[AtGenesis + 1].gives
         /\ "controller" \in Plan[AtGenesis + 2].gives
         /\ "distributed" \in Plan[AtGenesis + 3].gives
         /\ "liquidity" \in Plan[AtGenesis + 6].gives
         /\ "price" \in Plan[AtBootstrap].gives
         /\ "daoFactory" \in Plan[AtDaos + 1].gives
         /\ "daos set" \in Plan[AtDaos + 2].gives
         /\ ~V10 => "excess" \in Plan[28].gives
<1>1. "timelock" \in Plan[1].gives
  <2>1. "timelock" \in Core[1].gives
    BY DEF Core, Send
  <2>2. Plan[1] = Core[1]
    BY DEF AtAll
  <2>. QED BY <2>1, <2>2
<1>2. "escrow" \in Plan[2].gives /\ "market unset" \in Plan[2].gives
  <2>1. "escrow" \in Core[2].gives /\ "market unset" \in Core[2].gives
    BY DEF Core, Send
  <2>2. Plan[2] = Core[2]
    BY DEF AtAll
  <2>. QED BY <2>1, <2>2
<1>3. "token" \in Plan[3].gives /\ "supply in escrow" \in Plan[3].gives /\ "operators open" \in Plan[3].gives
  <2>1. "token" \in Core[3].gives /\ "supply in escrow" \in Core[3].gives /\ "operators open" \in Core[3].gives
    BY DEF Core, Send
  <2>2. Plan[3] = Core[3]
    BY DEF AtAll
  <2>. QED BY <2>1, <2>2
<1>4. "deed" \in Plan[4].gives /\ "minter" \in Plan[4].gives /\ "unminted" \in Plan[4].gives
  <2>1. "deed" \in Core[4].gives /\ "minter" \in Core[4].gives /\ "unminted" \in Core[4].gives
    BY DEF Core, Send
  <2>2. Plan[4] = Core[4]
    BY DEF AtAll
  <2>. QED BY <2>1, <2>2
<1>5. "vaults" \in Plan[5].gives
  <2>1. "vaults" \in Core[5].gives
    BY DEF Core, Send
  <2>2. Plan[5] = Core[5]
    BY DEF AtAll
  <2>. QED BY <2>1, <2>2
<1>6. "pool" \in Plan[6].gives /\ "controller unset" \in Plan[6].gives
  <2>1. "pool" \in Core[6].gives /\ "controller unset" \in Core[6].gives
    BY DEF Core, Send
  <2>2. Plan[6] = Core[6]
    BY DEF AtAll
  <2>. QED BY <2>1, <2>2
<1>7. "oracle" \in Plan[7].gives /\ "unobserved" \in Plan[7].gives
  <2>1. "oracle" \in Core[7].gives /\ "unobserved" \in Core[7].gives
    BY DEF Core, Send
  <2>2. Plan[7] = Core[7]
    BY DEF AtAll
  <2>. QED BY <2>1, <2>2
<1>8. "treasury" \in Plan[8].gives /\ "treasury governed" \in Plan[8].gives
  <2>1. "treasury" \in Core[8].gives /\ "treasury governed" \in Core[8].gives
    BY DEF Core, Send
  <2>2. Plan[8] = Core[8]
    BY DEF AtAll
  <2>. QED BY <2>1, <2>2
<1>9. "runtime" \in Plan[9].gives /\ "forwarder unset" \in Plan[9].gives /\ "factory unset" \in Plan[9].gives /\ "daos unset" \in Plan[9].gives
  <2>1. "runtime" \in Core[9].gives /\ "forwarder unset" \in Core[9].gives /\ "factory unset" \in Core[9].gives /\ "daos unset" \in Core[9].gives
    BY DEF Core, Send
  <2>2. Plan[9] = Core[9]
    BY DEF AtAll
  <2>. QED BY <2>1, <2>2
<1>10. "paymaster" \in Plan[10].gives /\ "paymaster governed" \in Plan[10].gives /\ "books unset" \in Plan[10].gives
  <2>1. "paymaster" \in Core[10].gives /\ "paymaster governed" \in Core[10].gives /\ "books unset" \in Core[10].gives
    BY DEF Core, Send
  <2>2. Plan[10] = Core[10]
    BY DEF AtAll
  <2>. QED BY <2>1, <2>2
<1>11. "appFactory" \in Plan[11].gives
  <2>1. "appFactory" \in Core[11].gives
    BY DEF Core, Send
  <2>2. Plan[11] = Core[11]
    BY DEF AtAll
  <2>. QED BY <2>1, <2>2
<1>12. "forwarder" \in Plan[AtWiring + 1].gives
  <2>1. "forwarder" \in Wiring[1].gives
    BY DEF Wiring, Send
  <2>2. Plan[AtWiring + 1] = Wiring[1]
    BY DEF AtAll
  <2>. QED BY <2>1, <2>2
<1>13. "factory set" \in Plan[AtWiring + 2].gives
  <2>1. "factory set" \in Wiring[2].gives
    BY DEF Wiring, Send
  <2>2. Plan[AtWiring + 2] = Wiring[2]
    BY DEF AtAll
  <2>. QED BY <2>1, <2>2
<1>14. "deeds held" \in Plan[AtDeeds + 1].gives
  <2>1. "deeds held" \in DeedSteps[1].gives
    BY DEF DeedSteps, Send
  <2>2. Plan[AtDeeds + 1] = DeedSteps[1]
    BY DEF AtAll
  <2>. QED BY <2>1, <2>2
<1>15. "market" \in Plan[AtDeeds + 3].gives
  <2>1. "market" \in DeedSteps[3].gives
    BY DEF DeedSteps, Send
  <2>2. Plan[AtDeeds + 3] = DeedSteps[3]
    BY DEF AtAll
  <2>. QED BY <2>1, <2>2
<1>16. "owners" \in Plan[AtDeeds + 4].gives /\ "deed 4 donated" \in Plan[AtDeeds + 4].gives /\ "deed 5 donated" \in Plan[AtDeeds + 4].gives
  <2>1. "owners" \in DeedSteps[4].gives /\ "deed 4 donated" \in DeedSteps[4].gives /\ "deed 5 donated" \in DeedSteps[4].gives
    BY DEF DeedSteps, Send
  <2>2. Plan[AtDeeds + 4] = DeedSteps[4]
    BY DEF AtAll
  <2>. QED BY <2>1, <2>2
<1>17. "mintContract" \in Plan[AtGenesis + 1].gives /\ "unfunded" \in Plan[AtGenesis + 1].gives
  <2>1. "mintContract" \in Genesis[1].gives /\ "unfunded" \in Genesis[1].gives
    BY DEF Genesis, Send
  <2>2. Plan[AtGenesis + 1] = Genesis[1]
    BY DEF AtAll
  <2>. QED BY <2>1, <2>2
<1>18. "controller" \in Plan[AtGenesis + 2].gives
  <2>1. "controller" \in Genesis[2].gives
    BY DEF Genesis, Send
  <2>2. Plan[AtGenesis + 2] = Genesis[2]
    BY DEF AtAll
  <2>. QED BY <2>1, <2>2
<1>19. "distributed" \in Plan[AtGenesis + 3].gives
  <2>1. "distributed" \in Genesis[3].gives
    BY DEF Genesis, Send
  <2>2. Plan[AtGenesis + 3] = Genesis[3]
    BY DEF AtAll
  <2>. QED BY <2>1, <2>2
<1>20. "liquidity" \in Plan[AtGenesis + 6].gives
  <2>1. "liquidity" \in Genesis[6].gives
    BY DEF Genesis, Send
  <2>2. Plan[AtGenesis + 6] = Genesis[6]
    BY DEF AtAll
  <2>. QED BY <2>1, <2>2
<1>21. "price" \in Plan[AtBootstrap].gives
  <2>1. "price" \in Bootstrap.gives
    BY DEF Bootstrap, Send
  <2>2. Plan[AtBootstrap] = Bootstrap
    BY DEF AtAll
  <2>. QED BY <2>1, <2>2
<1>22. "daoFactory" \in Plan[AtDaos + 1].gives
  <2>1. "daoFactory" \in DaoFactory.gives
    BY DEF DaoFactory, Send
  <2>2. Plan[AtDaos + 1] = DaoFactory
    BY DEF AtAll
  <2>. QED BY <2>1, <2>2
<1>23. "daos set" \in Plan[AtDaos + 2].gives
  <2>1. "daos set" \in SetDaoFactory.gives
    BY DEF SetDaoFactory, Send
  <2>2. Plan[AtDaos + 2] = SetDaoFactory
    BY DEF AtAll
  <2>. QED BY <2>1, <2>2
<1>24. ~V10 => "excess" \in Plan[28].gives
  <2>1. "excess" \in ImportAccounting.gives
    BY DEF ImportAccounting, Send
  <2>2. ~V10 => Plan[28] = ImportAccounting
    BY DEF AtAll
  <2>. QED BY <2>1, <2>2
<1>. QED BY <1>1, <1>2, <1>3, <1>4, <1>5, <1>6, <1>7, <1>8, <1>9, <1>10, <1>11, <1>12, <1>13,
            <1>14, <1>15, <1>16, <1>17, <1>18, <1>19, <1>20, <1>21, <1>22, <1>23, <1>24

\* Each step of each block fits, wherever the plan puts the block.
LEMMA CoreFits ==
  ASSUME AtAll, NEW i \in 1 .. 11
  PROVE  Fits(Core[i], i)
<1>1. Fits(Core[1], 1)
  <2>1. Core[1].needs \cup Core[1].takes = {} /\ Core[1].takes = {}
    BY DEF Core, Send
  <2>2. /\ Core[1].label = "dex" => Core[1].needs = {} /\ Core[1].takes = {} /\ Core[1].gives = {}
        /\ "forwarder" \in Core[1].gives => 1 = AtWiring + 1
        /\ "deed 4 listed" \in Core[1].gives => 1 = Staged + 1
        /\ "deed 5 listed" \in Core[1].gives => 1 = Staged + 2
    BY DEF Core, Send
  <2>3. Provided({}, 1)
    BY DEF Provided
  <2>4. Unspent({}, 1)
    BY DEF Unspent
  <2>5. \A f \in {} : LastUse(f) = 1
    OBVIOUS
  <2>. QED BY <2>1, <2>2, <2>3, <2>4, <2>5 DEF Fits
<1>2. Fits(Core[2], 2)
  <2>1. Core[2].needs \cup Core[2].takes = {} /\ Core[2].takes = {}
    BY DEF Core, Send
  <2>2. /\ Core[2].label = "dex" => Core[2].needs = {} /\ Core[2].takes = {} /\ Core[2].gives = {}
        /\ "forwarder" \in Core[2].gives => 2 = AtWiring + 1
        /\ "deed 4 listed" \in Core[2].gives => 2 = Staged + 1
        /\ "deed 5 listed" \in Core[2].gives => 2 = Staged + 2
    BY DEF Core, Send
  <2>3. Provided({}, 2)
    BY DEF Provided
  <2>4. Unspent({}, 2)
    BY DEF Unspent
  <2>5. \A f \in {} : LastUse(f) = 2
    OBVIOUS
  <2>. QED BY <2>1, <2>2, <2>3, <2>4, <2>5 DEF Fits
<1>3. Fits(Core[3], 3)
  <2>1. Core[3].needs \cup Core[3].takes = {"escrow"} /\ Core[3].takes = {}
    BY DEF Core, Send
  <2>2. /\ Core[3].label = "dex" => Core[3].needs = {} /\ Core[3].takes = {} /\ Core[3].gives = {}
        /\ "forwarder" \in Core[3].gives => 3 = AtWiring + 1
        /\ "deed 4 listed" \in Core[3].gives => 3 = Staged + 1
        /\ "deed 5 listed" \in Core[3].gives => 3 = Staged + 2
    BY DEF Core, Send
  <2>3. Provided({"escrow"}, 3)
    <3>1. "escrow" \in Plan[2].gives
      BY Given
    <3>2. 2 \in 1 .. 3 - 1
      BY AtOrder
    <3>. QED BY <3>1, <3>2 DEF Provided
  <2>4. Unspent({"escrow"}, 3)
    <3>1. LastUse("escrow") = Staged + 3
      BY Unused
    <3>2. 3 <= Staged + 3 /\ Staged + 3 \notin {Staged + 1, Staged + 2}
      BY AtOrder
    <3>. QED BY <3>1, <3>2 DEF Unspent
  <2>5. \A f \in {} : LastUse(f) = 3
    OBVIOUS
  <2>. QED BY <2>1, <2>2, <2>3, <2>4, <2>5 DEF Fits
<1>4. Fits(Core[4], 4)
  <2>1. Core[4].needs \cup Core[4].takes = {} /\ Core[4].takes = {}
    BY DEF Core, Send
  <2>2. /\ Core[4].label = "dex" => Core[4].needs = {} /\ Core[4].takes = {} /\ Core[4].gives = {}
        /\ "forwarder" \in Core[4].gives => 4 = AtWiring + 1
        /\ "deed 4 listed" \in Core[4].gives => 4 = Staged + 1
        /\ "deed 5 listed" \in Core[4].gives => 4 = Staged + 2
    BY DEF Core, Send
  <2>3. Provided({}, 4)
    BY DEF Provided
  <2>4. Unspent({}, 4)
    BY DEF Unspent
  <2>5. \A f \in {} : LastUse(f) = 4
    OBVIOUS
  <2>. QED BY <2>1, <2>2, <2>3, <2>4, <2>5 DEF Fits
<1>5. Fits(Core[5], 5)
  <2>1. Core[5].needs \cup Core[5].takes = {"timelock"} /\ Core[5].takes = {}
    BY DEF Core, Send
  <2>2. /\ Core[5].label = "dex" => Core[5].needs = {} /\ Core[5].takes = {} /\ Core[5].gives = {}
        /\ "forwarder" \in Core[5].gives => 5 = AtWiring + 1
        /\ "deed 4 listed" \in Core[5].gives => 5 = Staged + 1
        /\ "deed 5 listed" \in Core[5].gives => 5 = Staged + 2
    BY DEF Core, Send
  <2>3. Provided({"timelock"}, 5)
    <3>1. "timelock" \in Plan[1].gives
      BY Given
    <3>2. 1 \in 1 .. 5 - 1
      BY AtOrder
    <3>. QED BY <3>1, <3>2 DEF Provided
  <2>4. Unspent({"timelock"}, 5)
    <3>1. LastUse("timelock") = Staged + 3
      BY Unused
    <3>2. 5 <= Staged + 3 /\ Staged + 3 \notin {Staged + 1, Staged + 2}
      BY AtOrder
    <3>. QED BY <3>1, <3>2 DEF Unspent
  <2>5. \A f \in {} : LastUse(f) = 5
    OBVIOUS
  <2>. QED BY <2>1, <2>2, <2>3, <2>4, <2>5 DEF Fits
<1>6. Fits(Core[6], 6)
  <2>1. Core[6].needs \cup Core[6].takes = {"token"} /\ Core[6].takes = {}
    BY DEF Core, Send
  <2>2. /\ Core[6].label = "dex" => Core[6].needs = {} /\ Core[6].takes = {} /\ Core[6].gives = {}
        /\ "forwarder" \in Core[6].gives => 6 = AtWiring + 1
        /\ "deed 4 listed" \in Core[6].gives => 6 = Staged + 1
        /\ "deed 5 listed" \in Core[6].gives => 6 = Staged + 2
    BY DEF Core, Send
  <2>3. Provided({"token"}, 6)
    <3>1. "token" \in Plan[3].gives
      BY Given
    <3>2. 3 \in 1 .. 6 - 1
      BY AtOrder
    <3>. QED BY <3>1, <3>2 DEF Provided
  <2>4. Unspent({"token"}, 6)
    <3>1. LastUse("token") = Staged + 3
      BY Unused
    <3>2. 6 <= Staged + 3 /\ Staged + 3 \notin {Staged + 1, Staged + 2}
      BY AtOrder
    <3>. QED BY <3>1, <3>2 DEF Unspent
  <2>5. \A f \in {} : LastUse(f) = 6
    OBVIOUS
  <2>. QED BY <2>1, <2>2, <2>3, <2>4, <2>5 DEF Fits
<1>7. Fits(Core[7], 7)
  <2>1. Core[7].needs \cup Core[7].takes = {"pool"} /\ Core[7].takes = {}
    BY DEF Core, Send
  <2>2. /\ Core[7].label = "dex" => Core[7].needs = {} /\ Core[7].takes = {} /\ Core[7].gives = {}
        /\ "forwarder" \in Core[7].gives => 7 = AtWiring + 1
        /\ "deed 4 listed" \in Core[7].gives => 7 = Staged + 1
        /\ "deed 5 listed" \in Core[7].gives => 7 = Staged + 2
    BY DEF Core, Send
  <2>3. Provided({"pool"}, 7)
    <3>1. "pool" \in Plan[6].gives
      BY Given
    <3>2. 6 \in 1 .. 7 - 1
      BY AtOrder
    <3>. QED BY <3>1, <3>2 DEF Provided
  <2>4. Unspent({"pool"}, 7)
    <3>1. LastUse("pool") = Staged + 3
      BY Unused
    <3>2. 7 <= Staged + 3 /\ Staged + 3 \notin {Staged + 1, Staged + 2}
      BY AtOrder
    <3>. QED BY <3>1, <3>2 DEF Unspent
  <2>5. \A f \in {} : LastUse(f) = 7
    OBVIOUS
  <2>. QED BY <2>1, <2>2, <2>3, <2>4, <2>5 DEF Fits
<1>8. Fits(Core[8], 8)
  <2>1. Core[8].needs \cup Core[8].takes = {"deed", "token"} /\ Core[8].takes = {}
    BY DEF Core, Send
  <2>2. /\ Core[8].label = "dex" => Core[8].needs = {} /\ Core[8].takes = {} /\ Core[8].gives = {}
        /\ "forwarder" \in Core[8].gives => 8 = AtWiring + 1
        /\ "deed 4 listed" \in Core[8].gives => 8 = Staged + 1
        /\ "deed 5 listed" \in Core[8].gives => 8 = Staged + 2
    BY DEF Core, Send
  <2>3. Provided({"deed", "token"}, 8)
    <3>1. "deed" \in Plan[4].gives /\ "token" \in Plan[3].gives
      BY Given
    <3>2. 4 \in 1 .. 8 - 1 /\ 3 \in 1 .. 8 - 1
      BY AtOrder
    <3>. QED BY <3>1, <3>2 DEF Provided
  <2>4. Unspent({"deed", "token"}, 8)
    <3>1. LastUse("deed") = Staged + 3 /\ LastUse("token") = Staged + 3
      BY Unused
    <3>2. 8 <= Staged + 3 /\ Staged + 3 \notin {Staged + 1, Staged + 2}
      BY AtOrder
    <3>. QED BY <3>1, <3>2 DEF Unspent
  <2>5. \A f \in {} : LastUse(f) = 8
    OBVIOUS
  <2>. QED BY <2>1, <2>2, <2>3, <2>4, <2>5 DEF Fits
<1>9. Fits(Core[9], 9)
  <2>1. Core[9].needs \cup Core[9].takes = {"deed", "token", "treasury"} /\ Core[9].takes = {}
    BY DEF Core, Send
  <2>2. /\ Core[9].label = "dex" => Core[9].needs = {} /\ Core[9].takes = {} /\ Core[9].gives = {}
        /\ "forwarder" \in Core[9].gives => 9 = AtWiring + 1
        /\ "deed 4 listed" \in Core[9].gives => 9 = Staged + 1
        /\ "deed 5 listed" \in Core[9].gives => 9 = Staged + 2
    BY DEF Core, Send
  <2>3. Provided({"deed", "token", "treasury"}, 9)
    <3>1. "deed" \in Plan[4].gives /\ "token" \in Plan[3].gives
        /\ "treasury" \in Plan[8].gives
      BY Given
    <3>2. 4 \in 1 .. 9 - 1 /\ 3 \in 1 .. 9 - 1 /\ 8 \in 1 .. 9 - 1
      BY AtOrder
    <3>. QED BY <3>1, <3>2 DEF Provided
  <2>4. Unspent({"deed", "token", "treasury"}, 9)
    <3>1. LastUse("deed") = Staged + 3 /\ LastUse("token") = Staged + 3
        /\ LastUse("treasury") = Staged + 3
      BY Unused
    <3>2. 9 <= Staged + 3 /\ Staged + 3 \notin {Staged + 1, Staged + 2}
      BY AtOrder
    <3>. QED BY <3>1, <3>2 DEF Unspent
  <2>5. \A f \in {} : LastUse(f) = 9
    OBVIOUS
  <2>. QED BY <2>1, <2>2, <2>3, <2>4, <2>5 DEF Fits
<1>10. Fits(Core[10], 10)
  <2>1. Core[10].needs \cup Core[10].takes = {"token", "runtime", "oracle"} /\ Core[10].takes = {}
    BY DEF Core, Send
  <2>2. /\ Core[10].label = "dex" => Core[10].needs = {} /\ Core[10].takes = {} /\ Core[10].gives = {}
        /\ "forwarder" \in Core[10].gives => 10 = AtWiring + 1
        /\ "deed 4 listed" \in Core[10].gives => 10 = Staged + 1
        /\ "deed 5 listed" \in Core[10].gives => 10 = Staged + 2
    BY DEF Core, Send
  <2>3. Provided({"token", "runtime", "oracle"}, 10)
    <3>1. "token" \in Plan[3].gives /\ "runtime" \in Plan[9].gives
        /\ "oracle" \in Plan[7].gives
      BY Given
    <3>2. 3 \in 1 .. 10 - 1 /\ 9 \in 1 .. 10 - 1 /\ 7 \in 1 .. 10 - 1
      BY AtOrder
    <3>. QED BY <3>1, <3>2 DEF Provided
  <2>4. Unspent({"token", "runtime", "oracle"}, 10)
    <3>1. LastUse("token") = Staged + 3 /\ LastUse("runtime") = Staged + 3
        /\ LastUse("oracle") = Staged + 3
      BY Unused
    <3>2. 10 <= Staged + 3 /\ Staged + 3 \notin {Staged + 1, Staged + 2}
      BY AtOrder
    <3>. QED BY <3>1, <3>2 DEF Unspent
  <2>5. \A f \in {} : LastUse(f) = 10
    OBVIOUS
  <2>. QED BY <2>1, <2>2, <2>3, <2>4, <2>5 DEF Fits
<1>11. Fits(Core[11], 11)
  <2>1. Core[11].needs \cup Core[11].takes = {"runtime"} /\ Core[11].takes = {}
    BY DEF Core, Send
  <2>2. /\ Core[11].label = "dex" => Core[11].needs = {} /\ Core[11].takes = {} /\ Core[11].gives = {}
        /\ "forwarder" \in Core[11].gives => 11 = AtWiring + 1
        /\ "deed 4 listed" \in Core[11].gives => 11 = Staged + 1
        /\ "deed 5 listed" \in Core[11].gives => 11 = Staged + 2
    BY DEF Core, Send
  <2>3. Provided({"runtime"}, 11)
    <3>1. "runtime" \in Plan[9].gives
      BY Given
    <3>2. 9 \in 1 .. 11 - 1
      BY AtOrder
    <3>. QED BY <3>1, <3>2 DEF Provided
  <2>4. Unspent({"runtime"}, 11)
    <3>1. LastUse("runtime") = Staged + 3
      BY Unused
    <3>2. 11 <= Staged + 3 /\ Staged + 3 \notin {Staged + 1, Staged + 2}
      BY AtOrder
    <3>. QED BY <3>1, <3>2 DEF Unspent
  <2>5. \A f \in {} : LastUse(f) = 11
    OBVIOUS
  <2>. QED BY <2>1, <2>2, <2>3, <2>4, <2>5 DEF Fits
<1>. QED BY <1>1, <1>2, <1>3, <1>4, <1>5, <1>6, <1>7, <1>8, <1>9, <1>10, <1>11

LEMMA WiringFits ==
  ASSUME AtAll, NEW i \in 1 .. 5
  PROVE  Fits(Wiring[i], AtWiring + i)
<1>1. Fits(Wiring[1], AtWiring + 1)
  <2>0. PICK p \in Nat : p = AtWiring + 1
    BY AtOrder
  <2>1. Wiring[1].needs \cup Wiring[1].takes = {"paymaster", "forwarder unset"} /\ Wiring[1].takes = {"forwarder unset"}
    BY DEF Wiring, Send
  <2>2. /\ Wiring[1].label = "dex" => Wiring[1].needs = {} /\ Wiring[1].takes = {} /\ Wiring[1].gives = {}
        /\ "forwarder" \in Wiring[1].gives => p = AtWiring + 1
        /\ "deed 4 listed" \in Wiring[1].gives => p = Staged + 1
        /\ "deed 5 listed" \in Wiring[1].gives => p = Staged + 2
    BY <2>0 DEF Wiring, Send
  <2>3. Provided({"paymaster", "forwarder unset"}, p)
    <3>1. "paymaster" \in Plan[10].gives /\ "forwarder unset" \in Plan[9].gives
      BY Given
    <3>2. 10 \in 1 .. p - 1 /\ 9 \in 1 .. p - 1
      BY <2>0, AtOrder
    <3>. QED BY <3>1, <3>2 DEF Provided
  <2>4. Unspent({"paymaster", "forwarder unset"}, p)
    <3>1. LastUse("paymaster") = Staged + 3 /\ LastUse("forwarder unset") = AtWiring + 1
      BY UsedUp, Unused
    <3>2. p <= Staged + 3 /\ p <= AtWiring + 1 /\ Staged + 3 \notin {Staged + 1, Staged + 2}
        /\ AtWiring + 1 \notin {Staged + 1, Staged + 2}
      BY <2>0, AtOrder
    <3>. QED BY <3>1, <3>2 DEF Unspent
  <2>5. \A f \in {"forwarder unset"} : LastUse(f) = p
    BY <2>0, UsedUp
  <2>. QED BY <2>0, <2>1, <2>2, <2>3, <2>4, <2>5 DEF Fits
<1>2. Fits(Wiring[2], AtWiring + 2)
  <2>0. PICK p \in Nat : p = AtWiring + 2
    BY AtOrder
  <2>1. Wiring[2].needs \cup Wiring[2].takes = {"appFactory", "factory unset"} /\ Wiring[2].takes = {"factory unset"}
    BY DEF Wiring, Send
  <2>2. /\ Wiring[2].label = "dex" => Wiring[2].needs = {} /\ Wiring[2].takes = {} /\ Wiring[2].gives = {}
        /\ "forwarder" \in Wiring[2].gives => p = AtWiring + 1
        /\ "deed 4 listed" \in Wiring[2].gives => p = Staged + 1
        /\ "deed 5 listed" \in Wiring[2].gives => p = Staged + 2
    BY <2>0 DEF Wiring, Send
  <2>3. Provided({"appFactory", "factory unset"}, p)
    <3>1. "appFactory" \in Plan[11].gives /\ "factory unset" \in Plan[9].gives
      BY Given
    <3>2. 11 \in 1 .. p - 1 /\ 9 \in 1 .. p - 1
      BY <2>0, AtOrder
    <3>. QED BY <3>1, <3>2 DEF Provided
  <2>4. Unspent({"appFactory", "factory unset"}, p)
    <3>1. LastUse("appFactory") = Staged + 3 /\ LastUse("factory unset") = AtWiring + 2
      BY UsedUp, Unused
    <3>2. p <= Staged + 3 /\ p <= AtWiring + 2 /\ Staged + 3 \notin {Staged + 1, Staged + 2}
        /\ AtWiring + 2 \notin {Staged + 1, Staged + 2}
      BY <2>0, AtOrder
    <3>. QED BY <3>1, <3>2 DEF Unspent
  <2>5. \A f \in {"factory unset"} : LastUse(f) = p
    BY <2>0, UsedUp
  <2>. QED BY <2>0, <2>1, <2>2, <2>3, <2>4, <2>5 DEF Fits
<1>3. Fits(Wiring[3], AtWiring + 3)
  <2>0. PICK p \in Nat : p = AtWiring + 3
    BY AtOrder
  <2>1. Wiring[3].needs \cup Wiring[3].takes = {"runtime", "paymaster", "operators open"} /\ Wiring[3].takes = {"operators open"}
    BY DEF Wiring, Send
  <2>2. /\ Wiring[3].label = "dex" => Wiring[3].needs = {} /\ Wiring[3].takes = {} /\ Wiring[3].gives = {}
        /\ "forwarder" \in Wiring[3].gives => p = AtWiring + 1
        /\ "deed 4 listed" \in Wiring[3].gives => p = Staged + 1
        /\ "deed 5 listed" \in Wiring[3].gives => p = Staged + 2
    BY <2>0 DEF Wiring, Send
  <2>3. Provided({"runtime", "paymaster", "operators open"}, p)
    <3>1. "runtime" \in Plan[9].gives /\ "paymaster" \in Plan[10].gives
        /\ "operators open" \in Plan[3].gives
      BY Given
    <3>2. 9 \in 1 .. p - 1 /\ 10 \in 1 .. p - 1 /\ 3 \in 1 .. p - 1
      BY <2>0, AtOrder
    <3>. QED BY <3>1, <3>2 DEF Provided
  <2>4. Unspent({"runtime", "paymaster", "operators open"}, p)
    <3>1. LastUse("runtime") = Staged + 3 /\ LastUse("paymaster") = Staged + 3
        /\ LastUse("operators open") = AtWiring + 3
      BY UsedUp, Unused
    <3>2. p <= Staged + 3 /\ p <= AtWiring + 3 /\ Staged + 3 \notin {Staged + 1, Staged + 2}
        /\ AtWiring + 3 \notin {Staged + 1, Staged + 2}
      BY <2>0, AtOrder
    <3>. QED BY <3>1, <3>2 DEF Unspent
  <2>5. \A f \in {"operators open"} : LastUse(f) = p
    BY <2>0, UsedUp
  <2>. QED BY <2>0, <2>1, <2>2, <2>3, <2>4, <2>5 DEF Fits
<1>4. Fits(Wiring[4], AtWiring + 4)
  <2>0. PICK p \in Nat : p = AtWiring + 4
    BY AtOrder
  <2>1. Wiring[4].needs \cup Wiring[4].takes = {"runtime", "treasury governed"} /\ Wiring[4].takes = {}
    BY DEF Wiring, Send
  <2>2. /\ Wiring[4].label = "dex" => Wiring[4].needs = {} /\ Wiring[4].takes = {} /\ Wiring[4].gives = {}
        /\ "forwarder" \in Wiring[4].gives => p = AtWiring + 1
        /\ "deed 4 listed" \in Wiring[4].gives => p = Staged + 1
        /\ "deed 5 listed" \in Wiring[4].gives => p = Staged + 2
    BY <2>0 DEF Wiring, Send
  <2>3. Provided({"runtime", "treasury governed"}, p)
    <3>1. "runtime" \in Plan[9].gives /\ "treasury governed" \in Plan[8].gives
      BY Given
    <3>2. 9 \in 1 .. p - 1 /\ 8 \in 1 .. p - 1
      BY <2>0, AtOrder
    <3>. QED BY <3>1, <3>2 DEF Provided
  <2>4. Unspent({"runtime", "treasury governed"}, p)
    <3>1. LastUse("runtime") = Staged + 3 /\ LastUse("treasury governed") = AtHandover + 1
      BY UsedUp, Unused
    <3>2. p <= Staged + 3 /\ p <= AtHandover + 1 /\ Staged + 3 \notin {Staged + 1, Staged + 2}
        /\ AtHandover + 1 \notin {Staged + 1, Staged + 2}
      BY <2>0, AtOrder
    <3>. QED BY <3>1, <3>2 DEF Unspent
  <2>5. \A f \in {} : LastUse(f) = p
    OBVIOUS
  <2>. QED BY <2>0, <2>1, <2>2, <2>3, <2>4, <2>5 DEF Fits
<1>5. Fits(Wiring[5], AtWiring + 5)
  <2>0. PICK p \in Nat : p = AtWiring + 5
    BY AtOrder
  <2>1. Wiring[5].needs \cup Wiring[5].takes = {"pool", "paymaster governed"} /\ Wiring[5].takes = {}
    BY DEF Wiring, Send
  <2>2. /\ Wiring[5].label = "dex" => Wiring[5].needs = {} /\ Wiring[5].takes = {} /\ Wiring[5].gives = {}
        /\ "forwarder" \in Wiring[5].gives => p = AtWiring + 1
        /\ "deed 4 listed" \in Wiring[5].gives => p = Staged + 1
        /\ "deed 5 listed" \in Wiring[5].gives => p = Staged + 2
    BY <2>0 DEF Wiring, Send
  <2>3. Provided({"pool", "paymaster governed"}, p)
    <3>1. "pool" \in Plan[6].gives /\ "paymaster governed" \in Plan[10].gives
      BY Given
    <3>2. 6 \in 1 .. p - 1 /\ 10 \in 1 .. p - 1
      BY <2>0, AtOrder
    <3>. QED BY <3>1, <3>2 DEF Provided
  <2>4. Unspent({"pool", "paymaster governed"}, p)
    <3>1. LastUse("pool") = Staged + 3 /\ LastUse("paymaster governed") = AtHandover + 2
      BY UsedUp, Unused
    <3>2. p <= Staged + 3 /\ p <= AtHandover + 2 /\ Staged + 3 \notin {Staged + 1, Staged + 2}
        /\ AtHandover + 2 \notin {Staged + 1, Staged + 2}
      BY <2>0, AtOrder
    <3>. QED BY <3>1, <3>2 DEF Unspent
  <2>5. \A f \in {} : LastUse(f) = p
    OBVIOUS
  <2>. QED BY <2>0, <2>1, <2>2, <2>3, <2>4, <2>5 DEF Fits
<1>. QED BY <1>1, <1>2, <1>3, <1>4, <1>5

LEMMA DeedStepsFits ==
  ASSUME AtAll, NEW i \in 1 .. 4
  PROVE  Fits(DeedSteps[i], AtDeeds + i)
<1>1. Fits(DeedSteps[1], AtDeeds + 1)
  <2>0. PICK p \in Nat : p = AtDeeds + 1
    BY AtOrder
  <2>1. DeedSteps[1].needs \cup DeedSteps[1].takes = {"minter", "unminted"} /\ DeedSteps[1].takes = {"unminted"}
    BY DEF DeedSteps, Send
  <2>2. /\ DeedSteps[1].label = "dex" => DeedSteps[1].needs = {} /\ DeedSteps[1].takes = {} /\ DeedSteps[1].gives = {}
        /\ "forwarder" \in DeedSteps[1].gives => p = AtWiring + 1
        /\ "deed 4 listed" \in DeedSteps[1].gives => p = Staged + 1
        /\ "deed 5 listed" \in DeedSteps[1].gives => p = Staged + 2
    BY <2>0 DEF DeedSteps, Send
  <2>3. Provided({"minter", "unminted"}, p)
    <3>1. "minter" \in Plan[4].gives /\ "unminted" \in Plan[4].gives
      BY Given
    <3>2. 4 \in 1 .. p - 1
      BY <2>0, AtOrder
    <3>. QED BY <3>1, <3>2 DEF Provided
  <2>4. Unspent({"minter", "unminted"}, p)
    <3>1. LastUse("minter") = AtGenesis + 5 /\ LastUse("unminted") = AtDeeds + 1
      BY UsedUp
    <3>2. p <= AtGenesis + 5 /\ p <= AtDeeds + 1
        /\ AtGenesis + 5 \notin {Staged + 1, Staged + 2}
        /\ AtDeeds + 1 \notin {Staged + 1, Staged + 2}
      BY <2>0, AtOrder
    <3>. QED BY <3>1, <3>2 DEF Unspent
  <2>5. \A f \in {"unminted"} : LastUse(f) = p
    BY <2>0, UsedUp
  <2>. QED BY <2>0, <2>1, <2>2, <2>3, <2>4, <2>5 DEF Fits
<1>2. Fits(DeedSteps[2], AtDeeds + 2)
  <2>0. PICK p \in Nat : p = AtDeeds + 2
    BY AtOrder
  <2>1. DeedSteps[2].needs \cup DeedSteps[2].takes = {"deeds held"} /\ DeedSteps[2].takes = {}
    BY DEF DeedSteps, Send
  <2>2. /\ DeedSteps[2].label = "dex" => DeedSteps[2].needs = {} /\ DeedSteps[2].takes = {} /\ DeedSteps[2].gives = {}
        /\ "forwarder" \in DeedSteps[2].gives => p = AtWiring + 1
        /\ "deed 4 listed" \in DeedSteps[2].gives => p = Staged + 1
        /\ "deed 5 listed" \in DeedSteps[2].gives => p = Staged + 2
    BY <2>0 DEF DeedSteps, Send
  <2>3. Provided({"deeds held"}, p)
    <3>1. "deeds held" \in Plan[AtDeeds + 1].gives
      BY Given
    <3>2. AtDeeds + 1 \in 1 .. p - 1
      BY <2>0, AtOrder
    <3>. QED BY <3>1, <3>2 DEF Provided
  <2>4. Unspent({"deeds held"}, p)
    <3>1. LastUse("deeds held") = AtDeeds + 4
      BY UsedUp
    <3>2. p <= AtDeeds + 4 /\ AtDeeds + 4 \notin {Staged + 1, Staged + 2}
      BY <2>0, AtOrder
    <3>. QED BY <3>1, <3>2 DEF Unspent
  <2>5. \A f \in {} : LastUse(f) = p
    OBVIOUS
  <2>. QED BY <2>0, <2>1, <2>2, <2>3, <2>4, <2>5 DEF Fits
<1>3. Fits(DeedSteps[3], AtDeeds + 3)
  <2>0. PICK p \in Nat : p = AtDeeds + 3
    BY AtOrder
  <2>1. DeedSteps[3].needs \cup DeedSteps[3].takes = {"appFactory", "factory set", "escrow"} /\ DeedSteps[3].takes = {}
    BY DEF DeedSteps, Send
  <2>2. /\ DeedSteps[3].label = "dex" => DeedSteps[3].needs = {} /\ DeedSteps[3].takes = {} /\ DeedSteps[3].gives = {}
        /\ "forwarder" \in DeedSteps[3].gives => p = AtWiring + 1
        /\ "deed 4 listed" \in DeedSteps[3].gives => p = Staged + 1
        /\ "deed 5 listed" \in DeedSteps[3].gives => p = Staged + 2
    BY <2>0 DEF DeedSteps, Send
  <2>3. Provided({"appFactory", "factory set", "escrow"}, p)
    <3>1. "appFactory" \in Plan[11].gives /\ "factory set" \in Plan[AtWiring + 2].gives
        /\ "escrow" \in Plan[2].gives
      BY Given
    <3>2. 11 \in 1 .. p - 1 /\ AtWiring + 2 \in 1 .. p - 1 /\ 2 \in 1 .. p - 1
      BY <2>0, AtOrder
    <3>. QED BY <3>1, <3>2 DEF Provided
  <2>4. Unspent({"appFactory", "factory set", "escrow"}, p)
    <3>1. LastUse("appFactory") = Staged + 3 /\ LastUse("factory set") = Staged + 3
        /\ LastUse("escrow") = Staged + 3
      BY Unused
    <3>2. p <= Staged + 3 /\ Staged + 3 \notin {Staged + 1, Staged + 2}
      BY <2>0, AtOrder
    <3>. QED BY <3>1, <3>2 DEF Unspent
  <2>5. \A f \in {} : LastUse(f) = p
    OBVIOUS
  <2>. QED BY <2>0, <2>1, <2>2, <2>3, <2>4, <2>5 DEF Fits
<1>4. Fits(DeedSteps[4], AtDeeds + 4)
  <2>0. PICK p \in Nat : p = AtDeeds + 4
    BY AtOrder
  <2>1. DeedSteps[4].needs \cup DeedSteps[4].takes = {"market", "deeds held"} /\ DeedSteps[4].takes = {"deeds held"}
    BY DEF DeedSteps, Send
  <2>2. /\ DeedSteps[4].label = "dex" => DeedSteps[4].needs = {} /\ DeedSteps[4].takes = {} /\ DeedSteps[4].gives = {}
        /\ "forwarder" \in DeedSteps[4].gives => p = AtWiring + 1
        /\ "deed 4 listed" \in DeedSteps[4].gives => p = Staged + 1
        /\ "deed 5 listed" \in DeedSteps[4].gives => p = Staged + 2
    BY <2>0 DEF DeedSteps, Send
  <2>3. Provided({"market", "deeds held"}, p)
    <3>1. "market" \in Plan[AtDeeds + 3].gives /\ "deeds held" \in Plan[AtDeeds + 1].gives
      BY Given
    <3>2. AtDeeds + 3 \in 1 .. p - 1 /\ AtDeeds + 1 \in 1 .. p - 1
      BY <2>0, AtOrder
    <3>. QED BY <3>1, <3>2 DEF Provided
  <2>4. Unspent({"market", "deeds held"}, p)
    <3>1. LastUse("market") = Staged + 3 /\ LastUse("deeds held") = AtDeeds + 4
      BY UsedUp, Unused
    <3>2. p <= Staged + 3 /\ p <= AtDeeds + 4 /\ Staged + 3 \notin {Staged + 1, Staged + 2}
        /\ AtDeeds + 4 \notin {Staged + 1, Staged + 2}
      BY <2>0, AtOrder
    <3>. QED BY <3>1, <3>2 DEF Unspent
  <2>5. \A f \in {"deeds held"} : LastUse(f) = p
    BY <2>0, UsedUp
  <2>. QED BY <2>0, <2>1, <2>2, <2>3, <2>4, <2>5 DEF Fits
<1>. QED BY <1>1, <1>2, <1>3, <1>4

LEMMA GenesisFits ==
  ASSUME AtAll, NEW i \in 1 .. 7
  PROVE  Fits(Genesis[i], AtGenesis + i)
<1>1. Fits(Genesis[1], AtGenesis + 1)
  <2>0. PICK p \in Nat : p = AtGenesis + 1
    BY AtOrder
  <2>1. Genesis[1].needs \cup Genesis[1].takes = {"deed", "escrow", "pool", "paymaster", "owners"} /\ Genesis[1].takes = {}
    BY DEF Genesis, Send
  <2>2. /\ Genesis[1].label = "dex" => Genesis[1].needs = {} /\ Genesis[1].takes = {} /\ Genesis[1].gives = {}
        /\ "forwarder" \in Genesis[1].gives => p = AtWiring + 1
        /\ "deed 4 listed" \in Genesis[1].gives => p = Staged + 1
        /\ "deed 5 listed" \in Genesis[1].gives => p = Staged + 2
    BY <2>0 DEF Genesis, Send
  <2>3. Provided({"deed", "escrow", "pool", "paymaster", "owners"}, p)
    <3>1. "deed" \in Plan[4].gives /\ "escrow" \in Plan[2].gives /\ "pool" \in Plan[6].gives
        /\ "paymaster" \in Plan[10].gives /\ "owners" \in Plan[AtDeeds + 4].gives
      BY Given
    <3>2. 4 \in 1 .. p - 1 /\ 2 \in 1 .. p - 1 /\ 6 \in 1 .. p - 1 /\ 10 \in 1 .. p - 1
        /\ AtDeeds + 4 \in 1 .. p - 1
      BY <2>0, AtOrder
    <3>. QED BY <3>1, <3>2 DEF Provided
  <2>4. Unspent({"deed", "escrow", "pool", "paymaster", "owners"}, p)
    <3>1. LastUse("deed") = Staged + 3 /\ LastUse("escrow") = Staged + 3
        /\ LastUse("pool") = Staged + 3 /\ LastUse("paymaster") = Staged + 3
        /\ LastUse("owners") = Staged + 3
      BY Unused
    <3>2. p <= Staged + 3 /\ Staged + 3 \notin {Staged + 1, Staged + 2}
      BY <2>0, AtOrder
    <3>. QED BY <3>1, <3>2 DEF Unspent
  <2>5. \A f \in {} : LastUse(f) = p
    OBVIOUS
  <2>. QED BY <2>0, <2>1, <2>2, <2>3, <2>4, <2>5 DEF Fits
<1>2. Fits(Genesis[2], AtGenesis + 2)
  <2>0. PICK p \in Nat : p = AtGenesis + 2
    BY AtOrder
  <2>1. Genesis[2].needs \cup Genesis[2].takes = {"mintContract", "controller unset"} /\ Genesis[2].takes = {"controller unset"}
    BY DEF Genesis, Send
  <2>2. /\ Genesis[2].label = "dex" => Genesis[2].needs = {} /\ Genesis[2].takes = {} /\ Genesis[2].gives = {}
        /\ "forwarder" \in Genesis[2].gives => p = AtWiring + 1
        /\ "deed 4 listed" \in Genesis[2].gives => p = Staged + 1
        /\ "deed 5 listed" \in Genesis[2].gives => p = Staged + 2
    BY <2>0 DEF Genesis, Send
  <2>3. Provided({"mintContract", "controller unset"}, p)
    <3>1. "mintContract" \in Plan[AtGenesis + 1].gives /\ "controller unset" \in Plan[6].gives
      BY Given
    <3>2. AtGenesis + 1 \in 1 .. p - 1 /\ 6 \in 1 .. p - 1
      BY <2>0, AtOrder
    <3>. QED BY <3>1, <3>2 DEF Provided
  <2>4. Unspent({"mintContract", "controller unset"}, p)
    <3>1. LastUse("mintContract") = Staged + 3 /\ LastUse("controller unset") = AtGenesis + 2
      BY UsedUp, Unused
    <3>2. p <= Staged + 3 /\ p <= AtGenesis + 2 /\ Staged + 3 \notin {Staged + 1, Staged + 2}
        /\ AtGenesis + 2 \notin {Staged + 1, Staged + 2}
      BY <2>0, AtOrder
    <3>. QED BY <3>1, <3>2 DEF Unspent
  <2>5. \A f \in {"controller unset"} : LastUse(f) = p
    BY <2>0, UsedUp
  <2>. QED BY <2>0, <2>1, <2>2, <2>3, <2>4, <2>5 DEF Fits
<1>3. Fits(Genesis[3], AtGenesis + 3)
  <2>0. PICK p \in Nat : p = AtGenesis + 3
    BY AtOrder
  <2>1. Genesis[3].needs \cup Genesis[3].takes = {"mintContract", "vaults", "pool", "supply in escrow"} /\ Genesis[3].takes = {"supply in escrow"}
    BY DEF Genesis, Send
  <2>2. /\ Genesis[3].label = "dex" => Genesis[3].needs = {} /\ Genesis[3].takes = {} /\ Genesis[3].gives = {}
        /\ "forwarder" \in Genesis[3].gives => p = AtWiring + 1
        /\ "deed 4 listed" \in Genesis[3].gives => p = Staged + 1
        /\ "deed 5 listed" \in Genesis[3].gives => p = Staged + 2
    BY <2>0 DEF Genesis, Send
  <2>3. Provided({"mintContract", "vaults", "pool", "supply in escrow"}, p)
    <3>1. "mintContract" \in Plan[AtGenesis + 1].gives /\ "vaults" \in Plan[5].gives
        /\ "pool" \in Plan[6].gives /\ "supply in escrow" \in Plan[3].gives
      BY Given
    <3>2. AtGenesis + 1 \in 1 .. p - 1 /\ 5 \in 1 .. p - 1 /\ 6 \in 1 .. p - 1
        /\ 3 \in 1 .. p - 1
      BY <2>0, AtOrder
    <3>. QED BY <3>1, <3>2 DEF Provided
  <2>4. Unspent({"mintContract", "vaults", "pool", "supply in escrow"}, p)
    <3>1. LastUse("mintContract") = Staged + 3 /\ LastUse("vaults") = Staged + 3
        /\ LastUse("pool") = Staged + 3 /\ LastUse("supply in escrow") = AtGenesis + 3
      BY UsedUp, Unused
    <3>2. p <= Staged + 3 /\ p <= AtGenesis + 3 /\ Staged + 3 \notin {Staged + 1, Staged + 2}
        /\ AtGenesis + 3 \notin {Staged + 1, Staged + 2}
      BY <2>0, AtOrder
    <3>. QED BY <3>1, <3>2 DEF Unspent
  <2>5. \A f \in {"supply in escrow"} : LastUse(f) = p
    BY <2>0, UsedUp
  <2>. QED BY <2>0, <2>1, <2>2, <2>3, <2>4, <2>5 DEF Fits
<1>4. Fits(Genesis[4], AtGenesis + 4)
  <2>0. PICK p \in Nat : p = AtGenesis + 4
    BY AtOrder
  <2>1. Genesis[4].needs \cup Genesis[4].takes = {"distributed", "market", "market unset"} /\ Genesis[4].takes = {"market unset"}
    BY DEF Genesis, Send
  <2>2. /\ Genesis[4].label = "dex" => Genesis[4].needs = {} /\ Genesis[4].takes = {} /\ Genesis[4].gives = {}
        /\ "forwarder" \in Genesis[4].gives => p = AtWiring + 1
        /\ "deed 4 listed" \in Genesis[4].gives => p = Staged + 1
        /\ "deed 5 listed" \in Genesis[4].gives => p = Staged + 2
    BY <2>0 DEF Genesis, Send
  <2>3. Provided({"distributed", "market", "market unset"}, p)
    <3>1. "distributed" \in Plan[AtGenesis + 3].gives /\ "market" \in Plan[AtDeeds + 3].gives
        /\ "market unset" \in Plan[2].gives
      BY Given
    <3>2. AtGenesis + 3 \in 1 .. p - 1 /\ AtDeeds + 3 \in 1 .. p - 1 /\ 2 \in 1 .. p - 1
      BY <2>0, AtOrder
    <3>. QED BY <3>1, <3>2 DEF Provided
  <2>4. Unspent({"distributed", "market", "market unset"}, p)
    <3>1. LastUse("distributed") = Staged + 3 /\ LastUse("market") = Staged + 3
        /\ LastUse("market unset") = AtGenesis + 4
      BY UsedUp, Unused
    <3>2. p <= Staged + 3 /\ p <= AtGenesis + 4 /\ Staged + 3 \notin {Staged + 1, Staged + 2}
        /\ AtGenesis + 4 \notin {Staged + 1, Staged + 2}
      BY <2>0, AtOrder
    <3>. QED BY <3>1, <3>2 DEF Unspent
  <2>5. \A f \in {"market unset"} : LastUse(f) = p
    BY <2>0, UsedUp
  <2>. QED BY <2>0, <2>1, <2>2, <2>3, <2>4, <2>5 DEF Fits
<1>5. Fits(Genesis[5], AtGenesis + 5)
  <2>0. PICK p \in Nat : p = AtGenesis + 5
    BY AtOrder
  <2>1. Genesis[5].needs \cup Genesis[5].takes = {"mintContract", "minter"} /\ Genesis[5].takes = {"minter"}
    BY DEF Genesis, Send
  <2>2. /\ Genesis[5].label = "dex" => Genesis[5].needs = {} /\ Genesis[5].takes = {} /\ Genesis[5].gives = {}
        /\ "forwarder" \in Genesis[5].gives => p = AtWiring + 1
        /\ "deed 4 listed" \in Genesis[5].gives => p = Staged + 1
        /\ "deed 5 listed" \in Genesis[5].gives => p = Staged + 2
    BY <2>0 DEF Genesis, Send
  <2>3. Provided({"mintContract", "minter"}, p)
    <3>1. "mintContract" \in Plan[AtGenesis + 1].gives /\ "minter" \in Plan[4].gives
      BY Given
    <3>2. AtGenesis + 1 \in 1 .. p - 1 /\ 4 \in 1 .. p - 1
      BY <2>0, AtOrder
    <3>. QED BY <3>1, <3>2 DEF Provided
  <2>4. Unspent({"mintContract", "minter"}, p)
    <3>1. LastUse("mintContract") = Staged + 3 /\ LastUse("minter") = AtGenesis + 5
      BY UsedUp, Unused
    <3>2. p <= Staged + 3 /\ p <= AtGenesis + 5 /\ Staged + 3 \notin {Staged + 1, Staged + 2}
        /\ AtGenesis + 5 \notin {Staged + 1, Staged + 2}
      BY <2>0, AtOrder
    <3>. QED BY <3>1, <3>2 DEF Unspent
  <2>5. \A f \in {"minter"} : LastUse(f) = p
    BY <2>0, UsedUp
  <2>. QED BY <2>0, <2>1, <2>2, <2>3, <2>4, <2>5 DEF Fits
<1>6. Fits(Genesis[6], AtGenesis + 6)
  <2>0. PICK p \in Nat : p = AtGenesis + 6
    BY AtOrder
  <2>1. Genesis[6].needs \cup Genesis[6].takes = {"controller", "distributed", "unfunded"} /\ Genesis[6].takes = {"unfunded"}
    BY DEF Genesis, Send
  <2>2. /\ Genesis[6].label = "dex" => Genesis[6].needs = {} /\ Genesis[6].takes = {} /\ Genesis[6].gives = {}
        /\ "forwarder" \in Genesis[6].gives => p = AtWiring + 1
        /\ "deed 4 listed" \in Genesis[6].gives => p = Staged + 1
        /\ "deed 5 listed" \in Genesis[6].gives => p = Staged + 2
    BY <2>0 DEF Genesis, Send
  <2>3. Provided({"controller", "distributed", "unfunded"}, p)
    <3>1. "controller" \in Plan[AtGenesis + 2].gives
        /\ "distributed" \in Plan[AtGenesis + 3].gives
        /\ "unfunded" \in Plan[AtGenesis + 1].gives
      BY Given
    <3>2. AtGenesis + 2 \in 1 .. p - 1 /\ AtGenesis + 3 \in 1 .. p - 1
        /\ AtGenesis + 1 \in 1 .. p - 1
      BY <2>0, AtOrder
    <3>. QED BY <3>1, <3>2 DEF Provided
  <2>4. Unspent({"controller", "distributed", "unfunded"}, p)
    <3>1. LastUse("controller") = Staged + 3 /\ LastUse("distributed") = Staged + 3
        /\ LastUse("unfunded") = AtGenesis + 6
      BY UsedUp, Unused
    <3>2. p <= Staged + 3 /\ p <= AtGenesis + 6 /\ Staged + 3 \notin {Staged + 1, Staged + 2}
        /\ AtGenesis + 6 \notin {Staged + 1, Staged + 2}
      BY <2>0, AtOrder
    <3>. QED BY <3>1, <3>2 DEF Unspent
  <2>5. \A f \in {"unfunded"} : LastUse(f) = p
    BY <2>0, UsedUp
  <2>. QED BY <2>0, <2>1, <2>2, <2>3, <2>4, <2>5 DEF Fits
<1>7. Fits(Genesis[7], AtGenesis + 7)
  <2>0. PICK p \in Nat : p = AtGenesis + 7
    BY AtOrder
  <2>1. Genesis[7].needs \cup Genesis[7].takes = {"paymaster"} /\ Genesis[7].takes = {}
    BY DEF Genesis, Send
  <2>2. /\ Genesis[7].label = "dex" => Genesis[7].needs = {} /\ Genesis[7].takes = {} /\ Genesis[7].gives = {}
        /\ "forwarder" \in Genesis[7].gives => p = AtWiring + 1
        /\ "deed 4 listed" \in Genesis[7].gives => p = Staged + 1
        /\ "deed 5 listed" \in Genesis[7].gives => p = Staged + 2
    BY <2>0 DEF Genesis, Send
  <2>3. Provided({"paymaster"}, p)
    <3>1. "paymaster" \in Plan[10].gives
      BY Given
    <3>2. 10 \in 1 .. p - 1
      BY <2>0, AtOrder
    <3>. QED BY <3>1, <3>2 DEF Provided
  <2>4. Unspent({"paymaster"}, p)
    <3>1. LastUse("paymaster") = Staged + 3
      BY Unused
    <3>2. p <= Staged + 3 /\ Staged + 3 \notin {Staged + 1, Staged + 2}
      BY <2>0, AtOrder
    <3>. QED BY <3>1, <3>2 DEF Unspent
  <2>5. \A f \in {} : LastUse(f) = p
    OBVIOUS
  <2>. QED BY <2>0, <2>1, <2>2, <2>3, <2>4, <2>5 DEF Fits
<1>. QED BY <1>1, <1>2, <1>3, <1>4, <1>5, <1>6, <1>7

LEMMA HandoverFits ==
  ASSUME AtAll, NEW i \in 1 .. 2
  PROVE  Fits(Handover[i], AtHandover + i)
<1>1. Fits(Handover[1], AtHandover + 1)
  <2>0. PICK p \in Nat : p = AtHandover + 1
    BY AtOrder
  <2>1. Handover[1].needs \cup Handover[1].takes = {"timelock", "treasury governed"} /\ Handover[1].takes = {"treasury governed"}
    BY DEF Handover, Send
  <2>2. /\ Handover[1].label = "dex" => Handover[1].needs = {} /\ Handover[1].takes = {} /\ Handover[1].gives = {}
        /\ "forwarder" \in Handover[1].gives => p = AtWiring + 1
        /\ "deed 4 listed" \in Handover[1].gives => p = Staged + 1
        /\ "deed 5 listed" \in Handover[1].gives => p = Staged + 2
    BY <2>0 DEF Handover, Send
  <2>3. Provided({"timelock", "treasury governed"}, p)
    <3>1. "timelock" \in Plan[1].gives /\ "treasury governed" \in Plan[8].gives
      BY Given
    <3>2. 1 \in 1 .. p - 1 /\ 8 \in 1 .. p - 1
      BY <2>0, AtOrder
    <3>. QED BY <3>1, <3>2 DEF Provided
  <2>4. Unspent({"timelock", "treasury governed"}, p)
    <3>1. LastUse("timelock") = Staged + 3 /\ LastUse("treasury governed") = AtHandover + 1
      BY UsedUp, Unused
    <3>2. p <= Staged + 3 /\ p <= AtHandover + 1 /\ Staged + 3 \notin {Staged + 1, Staged + 2}
        /\ AtHandover + 1 \notin {Staged + 1, Staged + 2}
      BY <2>0, AtOrder
    <3>. QED BY <3>1, <3>2 DEF Unspent
  <2>5. \A f \in {"treasury governed"} : LastUse(f) = p
    BY <2>0, UsedUp
  <2>. QED BY <2>0, <2>1, <2>2, <2>3, <2>4, <2>5 DEF Fits
<1>2. Fits(Handover[2], AtHandover + 2)
  <2>0. PICK p \in Nat : p = AtHandover + 2
    BY AtOrder
  <2>1. Handover[2].needs \cup Handover[2].takes = {"timelock", "paymaster governed"} /\ Handover[2].takes = {"paymaster governed"}
    BY DEF Handover, Send
  <2>2. /\ Handover[2].label = "dex" => Handover[2].needs = {} /\ Handover[2].takes = {} /\ Handover[2].gives = {}
        /\ "forwarder" \in Handover[2].gives => p = AtWiring + 1
        /\ "deed 4 listed" \in Handover[2].gives => p = Staged + 1
        /\ "deed 5 listed" \in Handover[2].gives => p = Staged + 2
    BY <2>0 DEF Handover, Send
  <2>3. Provided({"timelock", "paymaster governed"}, p)
    <3>1. "timelock" \in Plan[1].gives /\ "paymaster governed" \in Plan[10].gives
      BY Given
    <3>2. 1 \in 1 .. p - 1 /\ 10 \in 1 .. p - 1
      BY <2>0, AtOrder
    <3>. QED BY <3>1, <3>2 DEF Provided
  <2>4. Unspent({"timelock", "paymaster governed"}, p)
    <3>1. LastUse("timelock") = Staged + 3 /\ LastUse("paymaster governed") = AtHandover + 2
      BY UsedUp, Unused
    <3>2. p <= Staged + 3 /\ p <= AtHandover + 2 /\ Staged + 3 \notin {Staged + 1, Staged + 2}
        /\ AtHandover + 2 \notin {Staged + 1, Staged + 2}
      BY <2>0, AtOrder
    <3>. QED BY <3>1, <3>2 DEF Unspent
  <2>5. \A f \in {"paymaster governed"} : LastUse(f) = p
    BY <2>0, UsedUp
  <2>. QED BY <2>0, <2>1, <2>2, <2>3, <2>4, <2>5 DEF Fits
<1>. QED BY <1>1, <1>2

LEMMA FinalizationFits ==
  ASSUME AtAll, NEW i \in 1 .. 2
  PROVE  Fits(Finalization[i], Staged + i)
<1>1. Fits(Finalization[1], Staged + 1)
  <2>0. PICK p \in Nat : p = Staged + 1
    BY AtOrder
  <2>1. Finalization[1].needs \cup Finalization[1].takes = {"price", "forwarder", "distributed", "deed 4 donated"} /\ Finalization[1].takes = {"deed 4 donated"}
    BY DEF Finalization, Send
  <2>2. /\ Finalization[1].label = "dex" => Finalization[1].needs = {} /\ Finalization[1].takes = {} /\ Finalization[1].gives = {}
        /\ "forwarder" \in Finalization[1].gives => p = AtWiring + 1
        /\ "deed 4 listed" \in Finalization[1].gives => p = Staged + 1
        /\ "deed 5 listed" \in Finalization[1].gives => p = Staged + 2
    BY <2>0 DEF Finalization, Send
  <2>3. Provided({"price", "forwarder", "distributed", "deed 4 donated"}, p)
    <3>1. "price" \in Plan[AtBootstrap].gives /\ "forwarder" \in Plan[AtWiring + 1].gives
        /\ "distributed" \in Plan[AtGenesis + 3].gives
        /\ "deed 4 donated" \in Plan[AtDeeds + 4].gives
      BY Given
    <3>2. AtBootstrap \in 1 .. p - 1 /\ AtWiring + 1 \in 1 .. p - 1
        /\ AtGenesis + 3 \in 1 .. p - 1 /\ AtDeeds + 4 \in 1 .. p - 1
      BY <2>0, AtOrder
    <3>. QED BY <3>1, <3>2 DEF Provided
  <2>4. Unspent({"price", "forwarder", "distributed", "deed 4 donated"}, p)
    <3>1. LastUse("price") = Staged + 3 /\ LastUse("forwarder") = Staged + 3
        /\ LastUse("distributed") = Staged + 3 /\ LastUse("deed 4 donated") = Staged + 1
      BY UsedUp, Unused
    <3>2. p <= Staged + 3 /\ p <= Staged + 1 /\ ~ (p <= Staged)
      BY <2>0, AtOrder
    <3>. QED BY <3>1, <3>2 DEF Unspent
  <2>5. \A f \in {"deed 4 donated"} : LastUse(f) = p
    BY <2>0, UsedUp
  <2>. QED BY <2>0, <2>1, <2>2, <2>3, <2>4, <2>5 DEF Fits
<1>2. Fits(Finalization[2], Staged + 2)
  <2>0. PICK p \in Nat : p = Staged + 2
    BY AtOrder
  <2>1. Finalization[2].needs \cup Finalization[2].takes = {"price", "forwarder", "distributed", "deed 5 donated"} /\ Finalization[2].takes = {"deed 5 donated"}
    BY DEF Finalization, Send
  <2>2. /\ Finalization[2].label = "dex" => Finalization[2].needs = {} /\ Finalization[2].takes = {} /\ Finalization[2].gives = {}
        /\ "forwarder" \in Finalization[2].gives => p = AtWiring + 1
        /\ "deed 4 listed" \in Finalization[2].gives => p = Staged + 1
        /\ "deed 5 listed" \in Finalization[2].gives => p = Staged + 2
    BY <2>0 DEF Finalization, Send
  <2>3. Provided({"price", "forwarder", "distributed", "deed 5 donated"}, p)
    <3>1. "price" \in Plan[AtBootstrap].gives /\ "forwarder" \in Plan[AtWiring + 1].gives
        /\ "distributed" \in Plan[AtGenesis + 3].gives
        /\ "deed 5 donated" \in Plan[AtDeeds + 4].gives
      BY Given
    <3>2. AtBootstrap \in 1 .. p - 1 /\ AtWiring + 1 \in 1 .. p - 1
        /\ AtGenesis + 3 \in 1 .. p - 1 /\ AtDeeds + 4 \in 1 .. p - 1
      BY <2>0, AtOrder
    <3>. QED BY <3>1, <3>2 DEF Provided
  <2>4. Unspent({"price", "forwarder", "distributed", "deed 5 donated"}, p)
    <3>1. LastUse("price") = Staged + 3 /\ LastUse("forwarder") = Staged + 3
        /\ LastUse("distributed") = Staged + 3 /\ LastUse("deed 5 donated") = Staged + 2
      BY UsedUp, Unused
    <3>2. p <= Staged + 3 /\ p <= Staged + 2 /\ ~ (p <= Staged)
      BY <2>0, AtOrder
    <3>. QED BY <3>1, <3>2 DEF Unspent
  <2>5. \A f \in {"deed 5 donated"} : LastUse(f) = p
    BY <2>0, UsedUp
  <2>. QED BY <2>0, <2>1, <2>2, <2>3, <2>4, <2>5 DEF Fits
<1>. QED BY <1>1, <1>2

LEMMA BootstrapFits ==
  ASSUME AtAll
  PROVE  Fits(Bootstrap, AtBootstrap)
<1>0. PICK p \in Nat : p = AtBootstrap
  BY AtOrder
<1>1. Bootstrap.needs \cup Bootstrap.takes = {"liquidity", "unobserved"} /\ Bootstrap.takes = {"unobserved"}
  BY DEF Bootstrap, Send
<1>2. /\ Bootstrap.label = "dex" => Bootstrap.needs = {} /\ Bootstrap.takes = {} /\ Bootstrap.gives = {}
      /\ "forwarder" \in Bootstrap.gives => p = AtWiring + 1
      /\ "deed 4 listed" \in Bootstrap.gives => p = Staged + 1
      /\ "deed 5 listed" \in Bootstrap.gives => p = Staged + 2
  BY <1>0 DEF Bootstrap, Send
<1>3. Provided({"liquidity", "unobserved"}, p)
  <2>1. "liquidity" \in Plan[AtGenesis + 6].gives /\ "unobserved" \in Plan[7].gives
    BY Given
  <2>2. AtGenesis + 6 \in 1 .. p - 1 /\ 7 \in 1 .. p - 1
    BY <1>0, AtOrder
  <2>. QED BY <2>1, <2>2 DEF Provided
<1>4. Unspent({"liquidity", "unobserved"}, p)
  <2>1. LastUse("liquidity") = Staged + 3 /\ LastUse("unobserved") = AtBootstrap
    BY UsedUp, Unused
  <2>2. p <= Staged + 3 /\ p <= AtBootstrap /\ Staged + 3 \notin {Staged + 1, Staged + 2}
        /\ AtBootstrap \notin {Staged + 1, Staged + 2}
    BY <1>0, AtOrder
  <2>. QED BY <2>1, <2>2 DEF Unspent
<1>5. \A f \in {"unobserved"} : LastUse(f) = p
  BY <1>0, UsedUp
<1>. QED BY <1>0, <1>1, <1>2, <1>3, <1>4, <1>5 DEF Fits

LEMMA CreateDaosFits ==
  ASSUME AtAll
  PROVE  Fits(CreateDaos, AtCreate)
<1>0. PICK p \in Nat : p = AtCreate
  BY AtOrder
<1>1. CreateDaos.needs \cup CreateDaos.takes = {"daos set"} /\ CreateDaos.takes = {}
  BY DEF CreateDaos, Send
<1>2. /\ CreateDaos.label = "dex" => CreateDaos.needs = {} /\ CreateDaos.takes = {} /\ CreateDaos.gives = {}
      /\ "forwarder" \in CreateDaos.gives => p = AtWiring + 1
      /\ "deed 4 listed" \in CreateDaos.gives => p = Staged + 1
      /\ "deed 5 listed" \in CreateDaos.gives => p = Staged + 2
  BY <1>0 DEF CreateDaos, Send
<1>3. Provided({"daos set"}, p)
  <2>1. "daos set" \in Plan[AtDaos + 2].gives
    BY Given
  <2>2. AtDaos + 2 \in 1 .. p - 1
    BY <1>0, AtOrder
  <2>. QED BY <2>1, <2>2 DEF Provided
<1>4. Unspent({"daos set"}, p)
  <2>1. LastUse("daos set") = Staged + 3
    BY Unused
  <2>2. p <= Staged + 3 /\ Staged + 3 \notin {Staged + 1, Staged + 2}
    BY <1>0, AtOrder
  <2>. QED BY <2>1, <2>2 DEF Unspent
<1>5. \A f \in {} : LastUse(f) = p
  OBVIOUS
<1>. QED BY <1>0, <1>1, <1>2, <1>3, <1>4, <1>5 DEF Fits

LEMMA DaoFactoryFits ==
  ASSUME AtAll
  PROVE  Fits(DaoFactory, AtDaos + 1)
<1>0. PICK p \in Nat : p = AtDaos + 1
  BY AtOrder
<1>1. DaoFactory.needs \cup DaoFactory.takes = {"runtime", "token", "deed", "escrow", "pool"} /\ DaoFactory.takes = {}
  BY DEF DaoFactory, Send
<1>2. /\ DaoFactory.label = "dex" => DaoFactory.needs = {} /\ DaoFactory.takes = {} /\ DaoFactory.gives = {}
      /\ "forwarder" \in DaoFactory.gives => p = AtWiring + 1
      /\ "deed 4 listed" \in DaoFactory.gives => p = Staged + 1
      /\ "deed 5 listed" \in DaoFactory.gives => p = Staged + 2
  BY <1>0 DEF DaoFactory, Send
<1>3. Provided({"runtime", "token", "deed", "escrow", "pool"}, p)
  <2>1. "runtime" \in Plan[9].gives /\ "token" \in Plan[3].gives /\ "deed" \in Plan[4].gives
        /\ "escrow" \in Plan[2].gives /\ "pool" \in Plan[6].gives
    BY Given
  <2>2. 9 \in 1 .. p - 1 /\ 3 \in 1 .. p - 1 /\ 4 \in 1 .. p - 1 /\ 2 \in 1 .. p - 1
        /\ 6 \in 1 .. p - 1
    BY <1>0, AtOrder
  <2>. QED BY <2>1, <2>2 DEF Provided
<1>4. Unspent({"runtime", "token", "deed", "escrow", "pool"}, p)
  <2>1. LastUse("runtime") = Staged + 3 /\ LastUse("token") = Staged + 3
        /\ LastUse("deed") = Staged + 3 /\ LastUse("escrow") = Staged + 3
        /\ LastUse("pool") = Staged + 3
    BY Unused
  <2>2. p <= Staged + 3 /\ Staged + 3 \notin {Staged + 1, Staged + 2}
    BY <1>0, AtOrder
  <2>. QED BY <2>1, <2>2 DEF Unspent
<1>5. \A f \in {} : LastUse(f) = p
  OBVIOUS
<1>. QED BY <1>0, <1>1, <1>2, <1>3, <1>4, <1>5 DEF Fits

LEMMA SetDaoFactoryFits ==
  ASSUME AtAll
  PROVE  Fits(SetDaoFactory, AtDaos + 2)
<1>0. PICK p \in Nat : p = AtDaos + 2
  BY AtOrder
<1>1. SetDaoFactory.needs \cup SetDaoFactory.takes = {"daoFactory", "daos unset"} /\ SetDaoFactory.takes = {"daos unset"}
  BY DEF SetDaoFactory, Send
<1>2. /\ SetDaoFactory.label = "dex" => SetDaoFactory.needs = {} /\ SetDaoFactory.takes = {} /\ SetDaoFactory.gives = {}
      /\ "forwarder" \in SetDaoFactory.gives => p = AtWiring + 1
      /\ "deed 4 listed" \in SetDaoFactory.gives => p = Staged + 1
      /\ "deed 5 listed" \in SetDaoFactory.gives => p = Staged + 2
  BY <1>0 DEF SetDaoFactory, Send
<1>3. Provided({"daoFactory", "daos unset"}, p)
  <2>1. "daoFactory" \in Plan[AtDaos + 1].gives /\ "daos unset" \in Plan[9].gives
    BY Given
  <2>2. AtDaos + 1 \in 1 .. p - 1 /\ 9 \in 1 .. p - 1
    BY <1>0, AtOrder
  <2>. QED BY <2>1, <2>2 DEF Provided
<1>4. Unspent({"daoFactory", "daos unset"}, p)
  <2>1. LastUse("daoFactory") = Staged + 3 /\ LastUse("daos unset") = AtDaos + 2
    BY UsedUp, Unused
  <2>2. p <= Staged + 3 /\ p <= AtDaos + 2 /\ Staged + 3 \notin {Staged + 1, Staged + 2}
        /\ AtDaos + 2 \notin {Staged + 1, Staged + 2}
    BY <1>0, AtOrder
  <2>. QED BY <2>1, <2>2 DEF Unspent
<1>5. \A f \in {"daos unset"} : LastUse(f) = p
  BY <1>0, UsedUp
<1>. QED BY <1>0, <1>1, <1>2, <1>3, <1>4, <1>5 DEF Fits

LEMMA ImportAccountingFits ==
  ASSUME AtAll, ~V10
  PROVE  Fits(ImportAccounting, 28)
<1>1. ImportAccounting.needs \cup ImportAccounting.takes = {"distributed", "paymaster governed", "books unset"} /\ ImportAccounting.takes = {"books unset"}
  BY DEF ImportAccounting, Send
<1>2. /\ ImportAccounting.label = "dex" => ImportAccounting.needs = {} /\ ImportAccounting.takes = {} /\ ImportAccounting.gives = {}
      /\ "forwarder" \in ImportAccounting.gives => 28 = AtWiring + 1
      /\ "deed 4 listed" \in ImportAccounting.gives => 28 = Staged + 1
      /\ "deed 5 listed" \in ImportAccounting.gives => 28 = Staged + 2
  BY DEF ImportAccounting, Send
<1>3. Provided({"distributed", "paymaster governed", "books unset"}, 28)
  <2>1. "distributed" \in Plan[AtGenesis + 3].gives
        /\ "paymaster governed" \in Plan[10].gives /\ "books unset" \in Plan[10].gives
    BY Given
  <2>2. AtGenesis + 3 \in 1 .. 28 - 1 /\ 10 \in 1 .. 28 - 1
    BY AtOrder
  <2>. QED BY <2>1, <2>2 DEF Provided
<1>4. Unspent({"distributed", "paymaster governed", "books unset"}, 28)
  <2>1. LastUse("distributed") = Staged + 3
        /\ LastUse("paymaster governed") = AtHandover + 2 /\ LastUse("books unset") = 28
    BY UsedUp, Unused
  <2>2. 28 <= Staged + 3 /\ 28 <= AtHandover + 2 /\ 28 <= 28
        /\ Staged + 3 \notin {Staged + 1, Staged + 2}
        /\ AtHandover + 2 \notin {Staged + 1, Staged + 2}
        /\ 28 \notin {Staged + 1, Staged + 2}
    BY AtOrder
  <2>. QED BY <2>1, <2>2 DEF Unspent
<1>5. \A f \in {"books unset"} : LastUse(f) = 28
  BY UsedUp
<1>. QED BY <1>1, <1>2, <1>3, <1>4, <1>5 DEF Fits

LEMMA SweepLegacyExcessFits ==
  ASSUME AtAll, ~V10
  PROVE  Fits(SweepLegacyExcess, 29)
<1>1. SweepLegacyExcess.needs \cup SweepLegacyExcess.takes = {"vaults", "paymaster governed", "excess"} /\ SweepLegacyExcess.takes = {"excess"}
  BY DEF SweepLegacyExcess, Send
<1>2. /\ SweepLegacyExcess.label = "dex" => SweepLegacyExcess.needs = {} /\ SweepLegacyExcess.takes = {} /\ SweepLegacyExcess.gives = {}
      /\ "forwarder" \in SweepLegacyExcess.gives => 29 = AtWiring + 1
      /\ "deed 4 listed" \in SweepLegacyExcess.gives => 29 = Staged + 1
      /\ "deed 5 listed" \in SweepLegacyExcess.gives => 29 = Staged + 2
  BY DEF SweepLegacyExcess, Send
<1>3. Provided({"vaults", "paymaster governed", "excess"}, 29)
  <2>1. "vaults" \in Plan[5].gives /\ "paymaster governed" \in Plan[10].gives
        /\ "excess" \in Plan[28].gives
    BY Given
  <2>2. 5 \in 1 .. 29 - 1 /\ 10 \in 1 .. 29 - 1 /\ 28 \in 1 .. 29 - 1
    BY AtOrder
  <2>. QED BY <2>1, <2>2 DEF Provided
<1>4. Unspent({"vaults", "paymaster governed", "excess"}, 29)
  <2>1. LastUse("vaults") = Staged + 3 /\ LastUse("paymaster governed") = AtHandover + 2
        /\ LastUse("excess") = 29
    BY UsedUp, Unused
  <2>2. 29 <= Staged + 3 /\ 29 <= AtHandover + 2 /\ 29 <= 29
        /\ Staged + 3 \notin {Staged + 1, Staged + 2}
        /\ AtHandover + 2 \notin {Staged + 1, Staged + 2}
        /\ 29 \notin {Staged + 1, Staged + 2}
    BY AtOrder
  <2>. QED BY <2>1, <2>2 DEF Unspent
<1>5. \A f \in {"excess"} : LastUse(f) = 29
  BY UsedUp
<1>. QED BY <1>1, <1>2, <1>3, <1>4, <1>5 DEF Fits

LEMMA GateFits ==
  ASSUME AtAll, ~V10
  PROVE  Fits(Gate, 31)
<1>1. Gate.needs \cup Gate.takes = {} /\ Gate.takes = {}
  BY DEF Gate, Send
<1>2. /\ Gate.label = "dex" => Gate.needs = {} /\ Gate.takes = {} /\ Gate.gives = {}
      /\ "forwarder" \in Gate.gives => 31 = AtWiring + 1
      /\ "deed 4 listed" \in Gate.gives => 31 = Staged + 1
      /\ "deed 5 listed" \in Gate.gives => 31 = Staged + 2
  BY DEF Gate, Send
<1>3. Provided({}, 31)
  BY DEF Provided
<1>4. Unspent({}, 31)
  BY DEF Unspent
<1>5. \A f \in {} : LastUse(f) = 31
  OBVIOUS
<1>. QED BY <1>1, <1>2, <1>3, <1>4, <1>5 DEF Fits

\* So every step of the plan fits, whichever plan it is.
LEMMA EveryStepFits ==
  ASSUME plan \in {"v10", "v11"}, NEW p \in 1 .. Staged + 2
  PROVE  Fits(Plan[p], p)
<1>0. AtAll
  BY Placed
<1>1. \/ p \in 1 .. 11
      \/ p - AtWiring \in 1 .. 5 \/ p - AtDeeds \in 1 .. 4 \/ p - AtGenesis \in 1 .. 7
      \/ p - AtHandover \in 1 .. 2 \/ p - Staged \in 1 .. 2
      \/ p = AtBootstrap \/ p = AtCreate \/ p = AtDaos + 1 \/ p = AtDaos + 2
      \/ ~V10 /\ p \in {28, 29, 31}
  BY DEF AtWiring, AtDeeds, AtGenesis, AtBootstrap, AtDaos, AtCreate, AtHandover, Staged
<1>2. CASE p \in 1 .. 11
  <2>1. Plan[p] = Core[p]
    BY <1>0, <1>2 DEF AtAll
  <2>. QED BY <1>0, <1>2, <2>1, CoreFits
<1>3. CASE p - AtWiring \in 1 .. 5
  <2>1. PICK i \in 1 .. 5 : p = AtWiring + i
    BY <1>3, AtOrder
  <2>2. Plan[p] = Wiring[i]
    BY <1>0, <2>1 DEF AtAll
  <2>. QED BY <1>0, <2>1, <2>2, WiringFits
<1>4. CASE p - AtDeeds \in 1 .. 4
  <2>1. PICK i \in 1 .. 4 : p = AtDeeds + i
    BY <1>4, AtOrder
  <2>2. Plan[p] = DeedSteps[i]
    BY <1>0, <2>1 DEF AtAll
  <2>. QED BY <1>0, <2>1, <2>2, DeedStepsFits
<1>5. CASE p - AtGenesis \in 1 .. 7
  <2>1. PICK i \in 1 .. 7 : p = AtGenesis + i
    BY <1>5, AtOrder
  <2>2. Plan[p] = Genesis[i]
    BY <1>0, <2>1 DEF AtAll
  <2>. QED BY <1>0, <2>1, <2>2, GenesisFits
<1>6. CASE p - AtHandover \in 1 .. 2
  <2>1. PICK i \in 1 .. 2 : p = AtHandover + i
    BY <1>6, AtOrder
  <2>2. Plan[p] = Handover[i]
    BY <1>0, <2>1 DEF AtAll
  <2>. QED BY <1>0, <2>1, <2>2, HandoverFits
<1>7. CASE p - Staged \in 1 .. 2
  <2>1. PICK i \in 1 .. 2 : p = Staged + i
    BY <1>7, AtOrder
  <2>2. Plan[p] = Finalization[i]
    BY <1>0, <2>1 DEF AtAll
  <2>. QED BY <1>0, <2>1, <2>2, FinalizationFits
<1>8. CASE p = AtBootstrap
  <2>1. Plan[p] = Bootstrap
    BY <1>0, <1>8 DEF AtAll
  <2>. QED BY <1>0, <1>8, <2>1, BootstrapFits
<1>9. CASE p = AtCreate
  <2>1. Plan[p] = CreateDaos
    BY <1>0, <1>9 DEF AtAll
  <2>. QED BY <1>0, <1>9, <2>1, CreateDaosFits
<1>10. CASE p = AtDaos + 1
  <2>1. Plan[p] = DaoFactory
    BY <1>0, <1>10 DEF AtAll
  <2>. QED BY <1>0, <1>10, <2>1, DaoFactoryFits
<1>11. CASE p = AtDaos + 2
  <2>1. Plan[p] = SetDaoFactory
    BY <1>0, <1>11 DEF AtAll
  <2>. QED BY <1>0, <1>11, <2>1, SetDaoFactoryFits
<1>12. CASE ~V10 /\ p \in {28, 29, 31}
  <2>1. Plan[28] = ImportAccounting /\ Plan[29] = SweepLegacyExcess /\ Plan[31] = Gate
    BY <1>0, <1>12 DEF AtAll
  <2>. QED BY <1>0, <1>12, <2>1, ImportAccountingFits, SweepLegacyExcessFits, GateFits
<1>. QED BY <1>1, <1>2, <1>3, <1>4, <1>5, <1>6, <1>7, <1>8, <1>9, <1>10,
        <1>11, <1>12

Passed(j) == j \in Done \/ IsGate(j)
Sending == [step : 1 .. Staged + 2, outcome : {"pending", "success", "reverted"}]

\* What is on the chain and in the file.
Recorded ==
  /\ plan \in {"v10", "v11"} /\ sent \in Seq(Sending) /\ steps \in [1 .. Staged + 2 -> Nat]
  /\ \A i \in 1 .. Staged + 2 :
       steps[i] # 0 => steps[i] \in DOMAIN sent /\ sent[steps[i]].step = i
  /\ \A k \in DOMAIN sent : sent[k].step <= Staged =>
       \A j \in 1 .. sent[k].step - 1 : Passed(j)
  /\ \A f \in facts : \E i \in Done : f \in Plan[i].gives
  /\ \A i \in Done : \A f \in Plan[i].gives : f \in facts \/ \E d \in Done : f \in Plan[d].takes

\* Where the script is.
Underway ==
  /\ position \in 0 .. Staged + 2 /\ unsaved \in BOOLEAN /\ mishaps \in Nat
  /\ unsaved => Running /\ Len(sent) > 0 /\ sent[Len(sent)].step = position
  /\ Running /\ position <= Staged => \A j \in 1 .. position - 1 : Passed(j)
  /\ mishaps = 0 => \A k \in DOMAIN sent : sent[k].step <= Staged =>
       steps[sent[k].step] # 0 \/ (unsaved /\ position = sent[k].step)
  /\ accepted => \A i \in 1 .. Staged + 2 : Passed(i)

StagedInv == Recorded /\ Underway

\* A step is done when one of its transactions succeeded.
LEMMA InDone ==
  \A i : i \in Done <=> \E k \in DOMAIN sent : sent[k].outcome = "success" /\ sent[k].step = i
BY DEF Done

\* The transactions are of steps of the plan.
LEMMA SentInside ==
  ASSUME Recorded
  PROVE  /\ Len(sent) \in Nat /\ DOMAIN sent = 1 .. Len(sent)
         /\ \A k \in DOMAIN sent : sent[k] \in Sending /\ sent[k].step \in 1 .. Staged + 2
         /\ Done \subseteq 1 .. Staged + 2
<1>1. Len(sent) \in Nat /\ DOMAIN sent = 1 .. Len(sent)
  BY LenProperties DEF Recorded
<1>2. \A k \in DOMAIN sent : sent[k] \in Sending
  BY <1>1, LenProperties DEF Recorded
<1>3. \A k \in DOMAIN sent : sent[k].step \in 1 .. Staged + 2
  BY <1>2 DEF Sending
<1>. QED BY <1>1, <1>2, <1>3, InDone

\* The stage is the plan without its last two steps.
LEMMA PlanFacts ==
  ASSUME Recorded
  PROVE  /\ DOMAIN Plan = 1 .. Staged + 2 /\ DOMAIN Stage = 1 .. Staged
         /\ \A i : IsFinal(i) <=> i > Staged
         /\ Len(Stage) = Staged /\ Len(Plan) = Staged + 2 /\ Staged \in Nat /\ Staged > 0
<1>1. plan \in {"v10", "v11"}
  BY DEF Recorded
<1>2. Len(Stage) = Staged /\ Len(Plan) = Staged + 2 /\ DOMAIN Plan = 1 .. Staged + 2
      /\ DOMAIN Stage = 1 .. Staged
  BY <1>1, Placed
<1>3. Staged \in Nat /\ Staged > 0
  BY DEF Staged
<1>. QED BY <1>2, <1>3 DEF IsFinal

\* What the plan's steps require, as the proof below uses it.
LEMMA StepFits ==
  ASSUME Recorded, NEW p \in 1 .. Staged + 2
  PROVE  /\ \A f \in Plan[p].needs \cup Plan[p].takes :
              /\ \E g \in 1 .. p - 1 : f \in Plan[g].gives
              /\ p <= LastUse(f)
              /\ p <= Staged => LastUse(f) \notin {Staged + 1, Staged + 2}
         /\ \A f \in Plan[p].takes : LastUse(f) = p
         /\ IsGate(p) => /\ Plan[p].needs \cup Plan[p].takes = {}
                         /\ Plan[p].gives = {}
         /\ "forwarder" \in Plan[p].gives => p = AtWiring + 1
         /\ "deed 4 listed" \in Plan[p].gives => p = Staged + 1
         /\ "deed 5 listed" \in Plan[p].gives => p = Staged + 2
<1>1. Fits(Plan[p], p)
  BY EveryStepFits DEF Recorded
<1>. QED BY <1>1 DEF Fits, Provided, Unspent, IsGate

(* The file, the chain and the plan stay as they are.                       *)
LEMMA NothingRecorded ==
  ASSUME Recorded, plan' = plan, facts' = facts, sent' = sent, steps' = steps
  PROVE  /\ Recorded' /\ Staged' = Staged /\ Plan' = Plan /\ Done' = Done
         /\ \A j : Passed(j)' <=> Passed(j)
<1>1. Staged' = Staged /\ Plan' = Plan /\ Done' = Done
  BY DEF Staged, V10, Plan, Stage, Done
<1>2. \A j : Passed(j)' <=> Passed(j)
  BY <1>1 DEF Passed, IsGate
<1>. QED BY <1>1, <1>2 DEF Recorded, Sending

\* The script starts with nothing before its step, or at the finalization.
LEMMA RunKeeps ==
  ASSUME StagedInv, Run
  PROVE  StagedInv'
<1>1. Recorded' /\ Staged' = Staged /\ \A j : Passed(j)' <=> Passed(j)
  BY NothingRecorded DEF StagedInv, Run
<1>2. position' \in {1, Staged + 1} /\ ~unsaved /\ Staged \in Nat
  BY PlanFacts DEF StagedInv, Underway, Run
<1>3. position' \in 0 .. Staged + 2
  BY <1>2
<1>4. ASSUME position' <= Staged, NEW j \in 1 .. position' - 1
      PROVE  Passed(j)
  <2>1. CASE position' = 1
    BY <2>1
  <2>2. CASE position' = Staged + 1
    BY <1>2, <1>4, <2>2
  <2>. QED BY <1>2, <2>1, <2>2
<1>5. Underway'
  BY <1>1, <1>2, <1>3, <1>4 DEF StagedInv, Underway, Run, Running
<1>. QED BY <1>1, <1>5 DEF StagedInv

\* The step it leaves is done, or is the gate.
LEMMA AdvanceKeeps ==
  ASSUME StagedInv, Advance
  PROVE  StagedInv'
<1>1. Recorded' /\ Staged' = Staged /\ \A j : Passed(j)' <=> Passed(j)
  BY NothingRecorded DEF StagedInv, Advance
<1>2. /\ Recorded /\ Underway /\ ~unsaved /\ position # 0 /\ position \in 0 .. Staged + 2
      /\ Staged \in Nat
  BY PlanFacts DEF StagedInv, Underway, Advance, Running
<1>3. position' = IF position \in {Staged, Staged + 2} THEN 0 ELSE position + 1
  BY <1>2, PlanFacts DEF Advance
<1>4. position' \in 0 .. Staged + 2
  BY <1>2, <1>3
<1>5. ASSUME position' # 0, position' <= Staged, NEW j \in 1 .. position' - 1
      PROVE  Passed(j)
  <2>1. position' = position + 1 /\ position < Staged
    BY <1>2, <1>3, <1>5
  <2>2. CASE j = position
    <3>1. ~IsFinal(position)
      BY <1>2, <2>1, PlanFacts
    <3>2. CASE Completed(position)
      <4>1. steps[position] # 0 /\ sent[steps[position]].outcome = "success"
        BY <3>1, <3>2 DEF Completed
      <4>2. steps[position] \in DOMAIN sent /\ sent[steps[position]].step = position
        BY <1>2, <4>1 DEF Recorded
      <4>3. position \in Done
        BY <4>1, <4>2, InDone
      <4>. QED BY <2>2, <4>3 DEF Passed
    <3>3. CASE IsGate(position)
      BY <2>2, <3>3 DEF Passed
    <3>. QED BY <3>2, <3>3 DEF Advance
  <2>3. CASE j # position
    <3>1. j \in 1 .. position - 1 /\ position <= Staged
      BY <1>2, <2>1, <2>3
    <3>. QED BY <1>2, <3>1 DEF Underway, Running
  <2>. QED BY <2>2, <2>3
<1>6. Underway'
  BY <1>1, <1>2, <1>4, <1>5 DEF Underway, Advance, Running
<1>. QED BY <1>1, <1>6 DEF StagedInv

\* A stage step that was sent and not saved is lost only by a crash.
LEMMA ScriptEnds ==
  ASSUME StagedInv, Throw \/ Kill
  PROVE  StagedInv'
<1>1. Recorded' /\ Staged' = Staged /\ \A j : Passed(j)' <=> Passed(j)
  BY NothingRecorded DEF StagedInv, Throw, Kill
<1>2. position' = 0 /\ unsaved' = FALSE /\ accepted' = accepted /\ sent' = sent /\ steps' = steps
  BY DEF Throw, Kill
<1>3. Staged \in Nat /\ mishaps' \in Nat
  BY PlanFacts DEF StagedInv, Underway, Throw, Kill
<1>4. ASSUME mishaps' = 0, NEW k \in DOMAIN sent, sent[k].step <= Staged
      PROVE  steps[sent[k].step] # 0
  <2>1. Throw /\ mishaps = 0
    BY <1>4 DEF StagedInv, Underway, Throw, Kill
  <2>2. unsaved => IsFinal(position)
    BY <2>1 DEF Throw
  <2>3. unsaved => position > Staged
    BY <2>2, PlanFacts DEF StagedInv
  <2>4. steps[sent[k].step] # 0 \/ (unsaved /\ position = sent[k].step)
    BY <1>4, <2>1 DEF StagedInv, Underway
  <2>5. position \in Int
    BY DEF StagedInv, Underway
  <2>. QED BY <1>3, <1>4, <2>3, <2>4, <2>5
<1>5. position' \in 0 .. Staged + 2 /\ ~Running'
  BY <1>2, <1>3 DEF Running
<1>6. accepted' => \A i \in 1 .. Staged + 2 : Passed(i)
  BY <1>2 DEF StagedInv, Underway
<1>7. Underway'
  BY <1>1, <1>2, <1>3, <1>4, <1>5, <1>6 DEF Underway
<1>. QED BY <1>1, <1>7 DEF StagedInv

\* What was sent last is what the file now names.
LEMMA SaveKeeps ==
  ASSUME StagedInv, Save
  PROVE  StagedInv'
<1>0. /\ Recorded /\ Underway /\ unsaved /\ Staged \in Nat
      /\ Len(sent) \in Nat /\ DOMAIN sent = 1 .. Len(sent) /\ Len(sent) > 0
      /\ sent[Len(sent)].step = position /\ position \in 0 .. Staged + 2 /\ position # 0
      /\ plan' = plan /\ facts' = facts /\ sent' = sent
  BY PlanFacts, SentInside DEF StagedInv, Underway, Save, Running
<1>1. Staged' = Staged /\ Plan' = Plan /\ Done' = Done
  BY <1>0 DEF Staged, V10, Plan, Stage, Done
<1>2. \A j : Passed(j)' <=> Passed(j)
  BY <1>1 DEF Passed, IsGate
<1>3. /\ steps' \in [1 .. Staged + 2 -> Nat] /\ steps'[position] = Len(sent)
      /\ \A i \in 1 .. Staged + 2 : i # position => steps'[i] = steps[i]
  BY <1>0 DEF Recorded, Save
<1>4. ASSUME NEW i \in 1 .. Staged + 2, steps'[i] # 0
      PROVE  steps'[i] \in DOMAIN sent /\ sent[steps'[i]].step = i
  <2>1. CASE i = position
    BY <1>0, <1>3, <2>1
  <2>2. CASE i # position
    BY <1>0, <1>3, <1>4, <2>2 DEF Recorded
  <2>. QED BY <2>1, <2>2
<1>5. Recorded'
  BY <1>0, <1>1, <1>2, <1>3, <1>4 DEF Recorded, Sending
<1>6. ASSUME mishaps = 0, NEW k \in DOMAIN sent, sent[k].step <= Staged
      PROVE  steps'[sent[k].step] # 0
  <2>1. steps[sent[k].step] # 0 \/ position = sent[k].step
    BY <1>0, <1>6 DEF Underway
  <2>2. sent[k].step \in 1 .. Staged + 2
    BY <1>0, SentInside
  <2>. QED BY <1>0, <1>3, <2>1, <2>2
<1>7. Underway'
  BY <1>0, <1>1, <1>2, <1>6 DEF Underway, Save, Running
<1>. QED BY <1>5, <1>7 DEF StagedInv

\* The step sent has the ones before it done; nothing is done by sending.
LEMMA SendKeeps ==
  ASSUME StagedInv, SendTransaction
  PROVE  StagedInv'
<1> DEFINE new == [step |-> position, outcome |-> "pending"]
<1>0. /\ Recorded /\ Underway /\ ~unsaved /\ Staged \in Nat
      /\ Len(sent) \in Nat /\ DOMAIN sent = 1 .. Len(sent)
      /\ position \in 0 .. Staged + 2 /\ position # 0
      /\ plan' = plan /\ facts' = facts /\ steps' = steps /\ sent' = Append(sent, new)
  BY PlanFacts, SentInside DEF StagedInv, Underway, SendTransaction, Running
<1>1. Staged' = Staged /\ Plan' = Plan
  BY <1>0 DEF Staged, V10, Plan, Stage
<1>2. new \in Sending
  BY <1>0 DEF Sending
<1>3. /\ sent' \in Seq(Sending) /\ Len(sent') = Len(sent) + 1
      /\ DOMAIN sent' = 1 .. Len(sent) + 1
      /\ \A k \in DOMAIN sent : sent'[k] = sent[k]
      /\ sent'[Len(sent) + 1] = new
  <2>1. sent \in Seq(Sending)
    BY <1>0 DEF Recorded
  <2>. QED BY <1>0, <1>2, <2>1, AppendProperties, LenProperties
<1>4. Done' = Done
  <2>1. \A k \in DOMAIN sent' : k \in DOMAIN sent \/ sent'[k].outcome = "pending"
    BY <1>0, <1>3
  <2>2. DOMAIN sent \subseteq DOMAIN sent'
    BY <1>0, <1>3
  <2>3. \A i : i \in Done' <=> \E k \in DOMAIN sent' : sent'[k].outcome = "success" /\ sent'[k].step = i
    BY DEF Done
  <2>4. \A i : i \in Done' <=> i \in Done
    BY <1>3, <2>1, <2>2, <2>3, InDone
  <2>. QED BY <2>4
<1>5. \A j : Passed(j)' <=> Passed(j)
  BY <1>1, <1>4 DEF Passed, IsGate
<1>6. ASSUME NEW i \in 1 .. Staged + 2, steps[i] # 0
      PROVE  steps[i] \in DOMAIN sent' /\ sent'[steps[i]].step = i
  <2>1. steps[i] \in DOMAIN sent /\ sent[steps[i]].step = i
    BY <1>0, <1>6 DEF Recorded
  <2>. QED BY <1>0, <1>3, <2>1
<1>7. ASSUME NEW k \in DOMAIN sent', sent'[k].step <= Staged, NEW j \in 1 .. sent'[k].step - 1
      PROVE  Passed(j)
  <2>1. CASE k \in DOMAIN sent
    BY <1>0, <1>3, <1>7, <2>1 DEF Recorded
  <2>2. CASE k = Len(sent) + 1
    <3>1. sent'[k].step = position
      BY <1>3, <2>2
    <3>. QED BY <1>0, <1>7, <3>1 DEF Underway, Running
  <2>. QED BY <1>0, <1>3, <2>1, <2>2
<1>8. Recorded'
  <2>1. /\ \A f \in facts' : \E i \in Done' : f \in Plan'[i].gives
        /\ \A i \in Done' : \A f \in Plan'[i].gives :
             f \in facts' \/ \E d \in Done' : f \in Plan'[d].takes
    BY <1>0, <1>1, <1>4 DEF Recorded
  <2>2. sent' \in Seq(Sending')
    BY <1>1, <1>3 DEF Sending
  <2>. QED BY <1>0, <1>1, <1>5, <1>6, <1>7, <2>1, <2>2 DEF Recorded
<1>9. ASSUME mishaps = 0, NEW k \in DOMAIN sent', sent'[k].step <= Staged
      PROVE  steps[sent'[k].step] # 0 \/ position = sent'[k].step
  <2>1. CASE k \in DOMAIN sent
    BY <1>0, <1>3, <1>9, <2>1 DEF Underway
  <2>2. CASE k = Len(sent) + 1
    BY <1>3, <2>2
  <2>. QED BY <1>0, <1>3, <2>1, <2>2
<1>10. Len(sent') > 0 /\ sent'[Len(sent')].step = position
  BY <1>0, <1>3
<1>11. Underway'
  BY <1>0, <1>1, <1>5, <1>9, <1>10 DEF Underway, SendTransaction, Running
<1>. QED BY <1>8, <1>11 DEF StagedInv

\* A transaction that succeeds uses up and gives what its step says.
LEMMA MineKeeps ==
  ASSUME StagedInv, NEW k \in DOMAIN sent, Mine(k)
  PROVE  StagedInv'
<1> DEFINE s == sent[k].step
<1>0. /\ Recorded /\ Underway /\ Staged \in Nat
      /\ Len(sent) \in Nat /\ DOMAIN sent = 1 .. Len(sent) /\ s \in 1 .. Staged + 2
      /\ plan' = plan /\ steps' = steps /\ position' = position /\ unsaved' = unsaved
      /\ accepted' = accepted /\ sent[k].outcome = "pending"
  BY PlanFacts, SentInside DEF StagedInv, Mine
<1>1. Staged' = Staged /\ Plan' = Plan
  BY <1>0 DEF Staged, V10, Plan, Stage
<1>2. PICK o \in {"success", "reverted"} :
        /\ sent' = [sent EXCEPT ![k].outcome = o]
        /\ \/ o = "success" /\ facts' = (facts \ Plan[s].takes) \cup Plan[s].gives
           \/ o = "reverted" /\ facts' = facts
        /\ mishaps' = mishaps \/ mishaps' = mishaps + 1
  BY DEF Mine
<1>3. /\ sent' \in Seq(Sending) /\ DOMAIN sent' = DOMAIN sent /\ Len(sent') = Len(sent)
      /\ \A n \in DOMAIN sent : sent'[n].step = sent[n].step
      /\ \A n \in DOMAIN sent : n # k => sent'[n].outcome = sent[n].outcome
      /\ sent'[k].outcome = o
  <2>1. sent \in Seq(Sending) /\ \A n \in DOMAIN sent : sent[n] \in Sending
    BY <1>0, SentInside DEF Recorded
  <2> DEFINE e == [sent[k] EXCEPT !.outcome = o]
  <2>2. e \in Sending /\ e.step = sent[k].step /\ e.outcome = o
    BY <2>1 DEF Sending
  <2>3. sent' = [sent EXCEPT ![k] = e]
    BY <1>2
  <2> HIDE DEF e
  <2>4. sent' \in Seq(Sending) /\ Len(sent') = Len(sent)
    BY <1>0, <2>1, <2>2, <2>3, ExceptSeq
  <2>. QED BY <1>0, <2>2, <2>3, <2>4
<1>4. Done' = IF o = "success" THEN Done \cup {s} ELSE Done
  <2>1. \A i : i \in Done' <=> \E n \in DOMAIN sent' : sent'[n].outcome = "success" /\ sent'[n].step = i
    BY DEF Done
  <2>2. \A n \in DOMAIN sent : sent'[n].outcome = "success"
           <=> sent[n].outcome = "success" \/ (n = k /\ o = "success")
    BY <1>0, <1>3
  <2>3. \A i : i \in Done' <=> i \in Done \/ (o = "success" /\ i = s)
    BY <1>3, <2>1, <2>2, InDone
  <2>. QED BY <2>3
<1>5. \A j : Passed(j) => Passed(j)'
  BY <1>1, <1>4 DEF Passed, IsGate
<1>6. ASSUME NEW f \in facts'
      PROVE  \E i \in Done' : f \in Plan[i].gives
  <2>1. CASE f \in facts
    BY <1>0, <1>4, <2>1 DEF Recorded
  <2>2. CASE f \notin facts
    BY <1>2, <1>4, <1>6, <2>2
  <2>. QED BY <2>1, <2>2
<1>7. ASSUME NEW i \in Done', NEW f \in Plan[i].gives
      PROVE  f \in facts' \/ \E d \in Done' : f \in Plan[d].takes
  <2>1. CASE o = "success" /\ i = s
    BY <1>2, <1>7, <2>1
  <2>2. CASE ~ (o = "success" /\ i = s)
    <3>1. i \in Done
      BY <1>4, <2>2
    <3>2. f \in facts \/ \E d \in Done : f \in Plan[d].takes
      BY <1>0, <1>7, <3>1 DEF Recorded
    <3>3. f \in facts => f \in facts' \/ (o = "success" /\ f \in Plan[s].takes)
      BY <1>2
    <3>. QED BY <1>4, <3>2, <3>3
  <2>. QED BY <2>1, <2>2
<1>8. Recorded'
  <2>1. sent' \in Seq(Sending')
    BY <1>1, <1>3 DEF Sending
  <2>2. \A n \in DOMAIN sent' : sent'[n].step <= Staged =>
          \A j \in 1 .. sent'[n].step - 1 : Passed(j)'
    BY <1>0, <1>3, <1>5 DEF Recorded
  <2>3. \A i \in 1 .. Staged + 2 :
          steps[i] # 0 => steps[i] \in DOMAIN sent' /\ sent'[steps[i]].step = i
    BY <1>0, <1>3 DEF Recorded
  <2>4. plan \in {"v10", "v11"} /\ steps \in [1 .. Staged + 2 -> Nat]
    BY <1>0 DEF Recorded
  <2>. QED BY <1>0, <1>1, <1>6, <1>7, <2>1, <2>2, <2>3, <2>4 DEF Recorded
<1>9. mishaps' \in Nat /\ (mishaps' = 0 => mishaps = 0)
  BY <1>0, <1>2 DEF Underway
<1>10. Underway'
  <2>1. unsaved => sent'[Len(sent')].step = position
    BY <1>0, <1>3 DEF Underway
  <2>2. mishaps' = 0 => \A n \in DOMAIN sent' : sent'[n].step <= Staged =>
          steps[sent'[n].step] # 0 \/ (unsaved /\ position = sent'[n].step)
    BY <1>0, <1>3, <1>9 DEF Underway
  <2>. QED BY <1>0, <1>1, <1>3, <1>5, <1>9, <2>1, <2>2 DEF Underway, Running
<1>. QED BY <1>8, <1>10 DEF StagedInv

(* Governance of the paymaster is what the last step of the stage gives     *)
(* away, and it is there as soon as the forwarder has been wired.           *)
HandedOver == "forwarder" \in facts /\ "paymaster governed" \notin facts

LEMMA GovernedMeansStaged ==
  ASSUME Recorded, HandedOver
  PROVE  \A i \in 1 .. Staged : Passed(i)
<1>0. AtAll /\ plan \in {"v10", "v11"}
  BY Placed DEF Recorded
<1>t. PICK t \in Nat : t = Staged /\ t > 11 /\ t = AtHandover + 2
  BY AtOrder
<1>1. PICK w \in Nat : w = AtWiring + 1 /\ w > 11 /\ w <= t
  BY <1>t, AtOrder
<1>w. w \in Done
  <2>1. PICK i \in Done : "forwarder" \in Plan[i].gives
    BY DEF Recorded, HandedOver
  <2>2. i \in 1 .. Staged + 2
    BY SentInside
  <2>. QED BY <1>1, <2>1, <2>2, StepFits
<1>2. Passed(10)
  <2>1. PICK n \in DOMAIN sent : sent[n].step = w
    BY <1>w, InDone
  <2>2. \A j \in 1 .. sent[n].step - 1 : Passed(j)
    BY <1>1, <1>t, <2>1 DEF Recorded
  <2>3. 10 \in 1 .. w - 1
    BY <1>1
  <2>. QED BY <2>1, <2>2, <2>3
<1>3. "paymaster governed" \in Plan[10].gives
  BY <1>0, Given
<1>4. 10 \in Done
  <2>1. 10 \in 1 .. Staged + 2
    <3>1. 10 \in 1 .. t + 2
      BY <1>t
    <3>. QED BY <1>t, <3>1
  <2>2. ~IsGate(10)
    BY <1>3, <2>1, StepFits
  <2>. QED BY <1>2, <2>2 DEF Passed
<1>5. PICK d \in Done : "paymaster governed" \in Plan[d].takes
  BY <1>3, <1>4 DEF Recorded, HandedOver
<1>6. d = t
  <2>1. d \in 1 .. Staged + 2
    BY SentInside
  <2>2. LastUse("paymaster governed") = d
    BY <1>5, <2>1, StepFits
  <2>3. LastUse("paymaster governed") = AtHandover + 2
    BY UsedUp
  <2>. QED BY <1>t, <2>2, <2>3
<1>7. \A j \in 1 .. t - 1 : Passed(j)
  <2>1. PICK n \in DOMAIN sent : sent[n].step = t
    BY <1>5, <1>6, InDone
  <2>2. sent[n].step <= Staged
    BY <1>t, <2>1
  <2>3. \A j \in 1 .. sent[n].step - 1 : Passed(j)
    BY <2>2 DEF Recorded
  <2>. QED BY <2>1, <2>3
<1>8. Passed(t)
  BY <1>5, <1>6 DEF Passed
<1>9. \A i \in 1 .. t : Passed(i)
  <2>1. \A i \in 1 .. t : i \in 1 .. t - 1 \/ i = t
    BY <1>t
  <2>. QED BY <1>7, <1>8, <2>1
<1>. QED BY <1>t, <1>9

\* The audit sees the forwarder, no governance left with the account, and both deeds listed.
LEMMA AuditKeeps ==
  ASSUME StagedInv, Audit
  PROVE  StagedInv'
<1>0. Recorded /\ Underway
  BY DEF StagedInv
<1>1. Recorded' /\ Staged' = Staged /\ \A j : Passed(j)' <=> Passed(j)
  BY <1>0, NothingRecorded DEF Audit
<1>2. /\ "forwarder" \in facts /\ "deed 4 listed" \in facts /\ "deed 5 listed" \in facts
      /\ "paymaster governed" \notin facts
  BY DEF Audit, Audited
<1>3. \A i \in 1 .. Staged : Passed(i)
  BY <1>0, <1>2, GovernedMeansStaged DEF HandedOver
<1>4. Passed(Staged + 1)
  <2>1. PICK i \in Done : "deed 4 listed" \in Plan[i].gives
    BY <1>0, <1>2 DEF Recorded
  <2>2. i \in 1 .. Staged + 2
    BY <1>0, SentInside
  <2>3. i = Staged + 1
    BY <1>0, <2>1, <2>2, StepFits
  <2>. QED BY <2>1, <2>3 DEF Passed
<1>5. Passed(Staged + 2)
  <2>1. PICK i \in Done : "deed 5 listed" \in Plan[i].gives
    BY <1>0, <1>2 DEF Recorded
  <2>2. i \in 1 .. Staged + 2
    BY <1>0, SentInside
  <2>3. i = Staged + 2
    BY <1>0, <2>1, <2>2, StepFits
  <2>. QED BY <2>1, <2>3 DEF Passed
<1>6. \A i \in 1 .. Staged + 2 : Passed(i)
  <2>1. Staged \in Nat
    BY <1>0, PlanFacts
  <2>2. \A i \in 1 .. Staged + 2 : i \in 1 .. Staged \/ i = Staged + 1 \/ i = Staged + 2
    BY <2>1
  <2>. QED BY <1>3, <1>4, <1>5, <2>2
<1>7. Underway'
  BY <1>0, <1>1, <1>6 DEF Underway, Audit, Running
<1>. QED BY <1>1, <1>7 DEF StagedInv

\* Nothing is done or sent yet.
LEMMA StagedStarts ==
  ASSUME CutoverInit
  PROVE  StagedInv
<1>0. Staged \in Nat
  BY AtOrder
<1>1. plan \in {"v10", "v11"} /\ DOMAIN Plan = 1 .. Staged + 2
  BY Placed DEF CutoverInit
<1>2. sent = <<>> /\ sent \in Seq(Sending) /\ DOMAIN sent = {}
  BY EmptySeq DEF CutoverInit
<1>3. Done = {}
  BY <1>2, InDone
<1>4. Recorded
  BY <1>0, <1>1, <1>2, <1>3 DEF CutoverInit, Recorded
<1>5. Underway
  <2>1. /\ position = 0 /\ unsaved = FALSE /\ accepted = FALSE /\ mishaps = 0
    BY DEF CutoverInit
  <2>2. position \in 0 .. Staged + 2
    <3>1. 0 \in 0 .. Staged + 2
      BY <1>0
    <3>. QED BY <2>1, <3>1
  <2>3. ~Running /\ unsaved \in BOOLEAN /\ mishaps \in Nat
    BY <2>1 DEF Running
  <2>. QED BY <1>2, <2>1, <2>2, <2>3 DEF Underway
<1>. QED BY <1>4, <1>5 DEF StagedInv

\* Every action keeps the invariant.
LEMMA StagedKeeps ==
  ASSUME StagedInv, [CutoverNext]_cutoverVars
  PROVE  StagedInv'
<1>1. CASE DeployDex \/ UNCHANGED cutoverVars
  <2>1. Recorded' /\ Staged' = Staged /\ \A j : Passed(j)' <=> Passed(j)
    BY <1>1, NothingRecorded DEF StagedInv, DeployDex, cutoverVars
  <2>2. Underway'
    BY <1>1, <2>1 DEF StagedInv, Underway, DeployDex, cutoverVars, Running
  <2>. QED BY <2>1, <2>2 DEF StagedInv
<1>2. CASE Throw \/ Kill
  BY <1>2, ScriptEnds
<1>. QED BY <1>1, <1>2, AuditKeeps, RunKeeps, AdvanceKeeps, SendKeeps, SaveKeeps, MineKeeps
         DEF CutoverNext

(* While nothing has gone wrong, what the next step requires is there: it   *)
(* was given by a step that is done, and whatever uses it up is the step    *)
(* itself or comes later, and neither has been sent.                        *)
LEMMA NextIsLegal ==
  ASSUME StagedInv, mishaps = 0, Running, ~unsaved, ~IsFinal(position), steps[position] = 0
  PROVE  Legal(Plan[position])
<1>0. /\ Recorded /\ Underway /\ Staged \in Nat /\ position \in 1 .. Staged
      /\ position \in 1 .. Staged + 2 /\ position <= Staged
  BY PlanFacts DEF StagedInv, Underway, Running
<1>1. SUFFICES ASSUME NEW f \in Plan[position].needs \cup Plan[position].takes PROVE f \in facts
  BY DEF Legal
<1>2. PICK g \in 1 .. position - 1 : f \in Plan[g].gives
  BY <1>0, StepFits
<1>3. g \in Done
  <2>1. Passed(g)
    BY <1>0, <1>2 DEF Underway
  <2>2. g \in 1 .. Staged + 2
    BY <1>0, <1>2
  <2>3. ~IsGate(g)
    BY <1>0, <1>2, <2>2, StepFits
  <2>. QED BY <2>1, <2>3 DEF Passed
<1>4. f \in facts \/ \E d \in Done : f \in Plan[d].takes
  BY <1>0, <1>2, <1>3 DEF Recorded
<1>5. ASSUME NEW d \in Done, f \in Plan[d].takes
      PROVE  FALSE
  <2>1. d \in 1 .. Staged + 2
    BY <1>0, SentInside
  <2>2. LastUse(f) = d
    BY <1>0, <1>5, <2>1, StepFits
  <2>3. position <= d /\ d \notin {Staged + 1, Staged + 2}
    BY <1>0, <1>1, <2>2, StepFits
  <2>4. d <= Staged
    BY <1>0, <2>1, <2>3
  <2>5. PICK n \in DOMAIN sent : sent[n].step = d
    BY <1>5, InDone
  <2>6. d # position
    BY <1>0, <2>4, <2>5 DEF Underway
  <2>7. Passed(position)
    <3>1. position \in 1 .. d - 1
      BY <1>0, <2>1, <2>3, <2>6
    <3>. QED BY <1>0, <2>4, <2>5, <3>1 DEF Recorded
  <2>8. ~IsGate(position)
    BY <1>0, <1>1, StepFits
  <2>9. PICK m \in DOMAIN sent : sent[m].step = position
    BY <2>7, <2>8, InDone DEF Passed
  <2>. QED BY <1>0, <2>9 DEF Underway
<1>. QED BY <1>4, <1>5

\* The invariant says what the property does.
LEMMA StagedMeansInOrder ==
  ASSUME StagedInv
  PROVE  StagedInOrder
<1>0. Recorded /\ Underway
  BY DEF StagedInv
<1>1. ASSUME NEW i \in Done, ~IsFinal(i), NEW j \in 1 .. i - 1
      PROVE  j \in Done \/ IsGate(j)
  <2>1. PICK n \in DOMAIN sent : sent[n].step = i
    BY InDone
  <2>2. i <= Staged
    <3>1. i \in 1 .. Staged + 2 /\ Staged \in Nat
      BY <1>0, SentInside, PlanFacts
    <3>2. ~ (i > Staged)
      BY <1>0, <1>1, PlanFacts
    <3>. QED BY <3>1, <3>2
  <2>3. Passed(j)
    BY <1>0, <2>1, <2>2 DEF Recorded
  <2>. QED BY <2>3 DEF Passed
<1>2. (mishaps = 0 /\ Running /\ ~unsaved /\ ~IsFinal(position) /\ steps[position] = 0)
        => Legal(Plan[position])
  BY NextIsLegal
<1>3. ASSUME Secure, NEW i \in DOMAIN Stage
      PROVE  i \in Done \/ IsGate(i)
  <2>1. "forwarder" \in facts /\ "paymaster governed" \notin facts
    BY <1>3 DEF Secure
  <2>2. i \in 1 .. Staged
    BY <1>0, PlanFacts
  <2>. QED BY <1>0, <2>1, <2>2, GovernedMeansStaged DEF Passed, HandedOver
<1>4. ASSUME accepted, NEW i \in DOMAIN Plan
      PROVE  i \in Done \/ IsGate(i)
  <2>1. i \in 1 .. Staged + 2
    BY <1>0, PlanFacts
  <2>. QED BY <1>0, <1>4, <2>1 DEF Underway, Passed
<1>. QED BY <1>1, <1>2, <1>3, <1>4 DEF StagedInOrder

(* However many crashes and unforeseen reverts there are, and however often *)
(* and in whatever order the two scripts are rerun: a release is staged in  *)
(* the order of its plan, its steps are legal while nothing went wrong, and *)
(* the security page and the audit are green only for a release that is     *)
(* complete (script/deploy-testnet-v10.ts, -v11.ts).                        *)
THEOREM ReleaseStagedInOrder == CutoverSpec => []StagedInOrder
<1>1. CutoverInit => StagedInv
  BY StagedStarts
<1>2. StagedInv /\ [CutoverNext]_cutoverVars => StagedInv'
  BY StagedKeeps
<1>3. StagedInv => StagedInOrder
  BY StagedMeansInOrder
<1>. QED BY <1>1, <1>2, <1>3, PTL DEF CutoverSpec
=============================================================================
