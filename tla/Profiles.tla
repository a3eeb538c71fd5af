----------------------------- MODULE Profiles -------------------------------
(***************************************************************************)
(* The profile of one address: the two editors of the profile page         *)
(* (web/app/u/ProfileEditor.tsx, web/app/u/[address]/                      *)
(* ProfileAvatarEditor.tsx), the route that checks the signature           *)
(* (web/app/api/profile/route.ts) and the transaction that saves           *)
(* (saveProfile of web/lib/chains.ts).                                     *)
(*                                                                         *)
(* Each editor, open in a tab, signs the WHOLE profile: the part edited in *)
(* it and, for the rest, what its page had loaded.  A request may reach    *)
(* the route twice.  Transactions run at READ COMMITTED and may be rolled  *)
(* back at any statement.                                                  *)
(*                                                                         *)
(* Abstracted: a name, an avatar or a handle is the tab that wrote it;     *)
(* canonicalProfile is the record signed; expiry, a bad signature and a    *)
(* full quota (Admission) are one refusal.                                 *)
(***************************************************************************)
EXTENDS Naturals, FiniteSets

CONSTANTS
  FormTabs, AvatarTabs,  \* tabs with ProfileEditor, with ProfileAvatarEditor
  Platforms,
  Nobody                 \* never written

Tabs == FormTabs \cup AvatarTabs
Deliveries == Tabs \X {1, 2}    \* a POST, and the same POST again

ASSUME ProfilesAssumption == Nobody \notin Tabs /\ FormTabs \cap AvatarTabs = {}

VARIABLES
  row, socials,   \* user_profiles and user_socials, as committed
  nonces,         \* profile_nonces, as committed
  saves,          \* how often the update a tab signed was saved
  tab,            \* where a tab is
  loaded,         \* what its page has loaded
  signed,         \* the profile it signed, or Nobody
  post,           \* where a delivery is
  deleted         \* the socials its DELETE removed

profileVars == <<row, socials, nonces, saves, tab, loaded, signed, post, deleted>>

NoRow == [name |-> Nobody, avatar |-> Nobody]
Blank == [row |-> NoRow, socials |-> {}]

ProfilesInit ==
  /\ row = NoRow /\ socials = {} /\ nonces = {} /\ saves = [t \in Tabs |-> 0]
  /\ tab = [t \in Tabs |-> "closed"]
  /\ loaded = [t \in Tabs |-> Blank]
  /\ signed = [t \in Tabs |-> Nobody]
  /\ post = [d \in Deliveries |-> "unsent"]
  /\ deleted = [d \in Deliveries |-> {}]

database == <<row, socials, nonces, saves>>
Step(d, next) == post' = [post EXCEPT ![d] = next]

-----------------------------------------------------------------------------
(* The page and its editors. *)

(* profilePage reads the two tables in two queries of two connections. *)
LoadRow(t) ==
  /\ tab[t] = "closed"
  /\ loaded' = [loaded EXCEPT ![t].row = row]
  /\ tab' = [tab EXCEPT ![t] = "loading"]
  /\ UNCHANGED <<database, signed, post, deleted>>

LoadSocials(t) ==
  /\ tab[t] = "loading"
  /\ loaded' = [loaded EXCEPT ![t].socials = socials]
  /\ tab' = [tab EXCEPT ![t] = "open"]
  /\ UNCHANGED <<database, signed, post, deleted>>

Sign(t, profile) ==
  /\ tab[t] = "open"
  /\ signed' = [signed EXCEPT ![t] = profile]
  /\ tab' = [tab EXCEPT ![t] = "signed"]
  /\ post' = [d \in Deliveries |-> IF d[1] = t THEN "sent" ELSE post[d]]
  /\ UNCHANGED <<database, loaded, deleted>>

\* The form edits the name and the links and keeps the avatar.
SignForm(t) == \E P \in SUBSET Platforms :
  Sign(t, [row |-> [name |-> t, avatar |-> loaded[t].row.avatar],
           socials |-> {[platform |-> p, handle |-> t] : p \in P}])

\* The avatar is its own upload control and keeps all else.
SignAvatar(t) ==
  Sign(t, [row |-> [name |-> loaded[t].row.name, avatar |-> t],
           socials |-> loaded[t].socials])

-----------------------------------------------------------------------------
(* The route and saveProfile. *)

(* POST: checked, admitted and given a connection with BEGIN - or refused. *)
Receive(d) ==
  /\ post[d] = "sent"
  /\ \E next \in {"nonce", "refused"} : Step(d, next)
  /\ UNCHANGED <<database, tab, loaded, signed, deleted>>

\* The INSERT of the nonce waits for a transaction that has inserted the same.
Inserted(d) == post[d] \in {"row", "delete", "commit"}

ConsumeNonce(d) ==
  /\ post[d] = "nonce"
  /\ \A e \in Deliveries : Inserted(e) => e[1] # d[1]
  /\ Step(d, IF d[1] \in nonces THEN "refused" ELSE "row")
  /\ UNCHANGED <<database, tab, loaded, signed, deleted>>

\* The upsert holds the row of the address until the end of the transaction.
HasRow(d) == post[d] \in {"delete", "commit"}

\* Seeded defect: the upsert is not part of the transaction.
UpsertProfileAtOnce(d) ==
  /\ post[d] = "row"
  /\ \A e \in Deliveries : ~HasRow(e)
  /\ row' = signed[d[1]].row
  /\ Step(d, "delete")
  /\ UNCHANGED <<socials, nonces, saves, tab, loaded, signed, deleted>>

UpsertProfile(d) ==
  /\ post[d] = "row"
  /\ \A e \in Deliveries : ~HasRow(e)
  /\ Step(d, "delete")
  /\ UNCHANGED <<database, tab, loaded, signed, deleted>>

DeleteSocials(d) ==
  /\ post[d] = "delete"
  /\ deleted' = [deleted EXCEPT ![d] = socials]
  /\ Step(d, "commit")
  /\ UNCHANGED <<database, tab, loaded, signed>>

(* The INSERTs, each ON CONFLICT (address, platform) DO UPDATE, and COMMIT, *)
(* which makes everything visible at once; its answer may be lost.         *)
Commit(d) ==
  LET profile == signed[d[1]]
      named == {s.platform : s \in profile.socials}
  IN  /\ post[d] = "commit"
      /\ row' = profile.row
      /\ socials' = {s \in socials \ deleted[d] : s.platform \notin named} \cup profile.socials
      /\ nonces' = nonces \cup {d[1]}
      /\ saves' = [saves EXCEPT ![d[1]] = @ + 1]
      /\ \E answer \in {"saved", "refused"} : Step(d, answer)
      /\ deleted' = [deleted EXCEPT ![d] = {}]
      /\ UNCHANGED <<tab, loaded, signed>>

(* A statement fails or the instance dies: ROLLBACK. *)
Undo(d) ==
  /\ post[d] = "nonce" \/ Inserted(d)
  /\ Step(d, "refused")
  /\ deleted' = [deleted EXCEPT ![d] = {}]
  /\ UNCHANGED <<database, tab, loaded, signed>>

ProfilesNext ==
  \/ \E t \in Tabs : LoadRow(t) \/ LoadSocials(t)
  \/ \E t \in FormTabs : SignForm(t)
  \/ \E t \in AvatarTabs : SignAvatar(t)
  \/ \E d \in Deliveries :
       \/ Receive(d) \/ ConsumeNonce(d) \/ UpsertProfile(d) \/ DeleteSocials(d)
       \/ Commit(d) \/ Undo(d)

ProfilesSpec == ProfilesInit /\ [][ProfilesNext]_profileVars

-----------------------------------------------------------------------------

(* What is stored for the address is one signed profile, whole - never the *)
(* name of one update with the links of another, nor links merged from     *)
(* two - and no signature was saved twice, whichever saves and repeated    *)
(* deliveries interleave and wherever one of them dies.                    *)
StoredAsSigned ==
  /\ [row |-> row, socials |-> socials] \in {Blank} \cup {signed[t] : t \in Tabs}
  /\ \A t \in Tabs : saves[t] <= 1
=============================================================================
