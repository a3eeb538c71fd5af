----------------------------- MODULE ChainCard ------------------------------
(***************************************************************************)
(* The card of one chain, opened by several visitors (web/app/             *)
(* ChainsCard.tsx): the editors of its name, its identity and its status   *)
(* (ChainNameEditor.tsx, ChainIdentityEditor.tsx,                          *)
(* ChainActivationEditor.tsx) and the account button above                 *)
(* (WalletProfileButton.tsx).                                              *)
(*                                                                         *)
(* An editor reads the deed's owner and its own value when the card opens  *)
(* and not again (the name editor also whenever the name it shows          *)
(* changes), offers itself to that owner, sends the edit from his wallet   *)
(* and shows it when the receipt says success.  Meanwhile the deed is      *)
(* sold, and others edit.  The name and the status are edited beside the   *)
(* value shown; the form of the identity is typed into that value itself.  *)
(*                                                                         *)
(* A behaviour follows one editor, on every card, or the account button;   *)
(* what the other editors and clients do is EditElsewhere.  Abstracted: a  *)
(* text is who wrote it; prices and the DAO's powers are AppRuntime's.     *)
(***************************************************************************)
EXTENDS Naturals, FiniteSets

CONSTANTS
  Cards, Visitors,
  Unread,              \* no answer yet, no owner known, nothing under way
  Stranger,            \* wrote what did not come from these cards
  Fees,
  MaxOthers            \* bound: sales of the deed and edits of others

ASSUME CardAssumption == Unread \notin Visitors /\ Stranger \notin Cards /\ MaxOthers \in Nat

VARIABLES
  editor,      \* what the behaviour follows
  space,       \* the chain on the deed and runtime contracts
  others,      \* how often others have acted
  cards,       \* the cards; of a draft, what was typed since the chain last
               \* said it, and what since the save under way was pressed
  agreed,      \* the fees acknowledged, by whom
  header       \* the account button

cardVars == <<editor, space, others, cards, agreed, header>>

Untouched == [about |-> Stranger, links |-> Stranger]

NoEdit == [step |-> "none"]
FirstFee == CHOOSE f \in Fees : TRUE    \* what the form starts with

CardInit ==
  /\ editor \in {"name", "identity", "status", "account"}
  /\ space \in [holder : Visitors, name : {Stranger}, identity : {Untouched},
                active : {FALSE}, configured : {FALSE}, fee : {Unread}, activator : {Unread}]
  /\ others = 0
  /\ cards \in [Cards -> [account : Visitors, reading : {"closed"}, found : {Unread},
                          owner : {Unread}, value : {Unread}, typed : {{}}, since : {{}}, had : {{}},
                          fee : {FirstFee}, acknowledged : {FALSE}, edit : {NoEdit}]]
  /\ agreed = {}
  /\ header \in {[account |-> v, profile |-> Unread, awaited |-> v] : v \in Visitors}

\* The description, the image and the website are one field, the social
\* links, which the form keeps apart, the other.
Fields == {"about", "links"}

\* The part of the chain the editor is about.
Value(s) ==
  CASE editor = "name" -> s.name
    [] editor = "identity" -> s.identity
    [] editor = "status" -> [active |-> s.active, configured |-> s.configured]

-----------------------------------------------------------------------------
(* The contracts: what a call does, and when it does not revert. *)

Effects(call, s) ==
  CASE call.kind = "rename" -> [s EXCEPT !.name = call.value]
    [] call.kind = "setIdentity" -> [s EXCEPT !.identity = call.value]
    [] call.kind = "setActive" -> [s EXCEPT !.active = call.value]
    [] call.kind = "activate" -> [s EXCEPT !.active = TRUE, !.configured = TRUE,
                                           !.fee = call.value, !.activator = call.by]

Executes(call, s) ==
  /\ s.holder = call.by
  /\ call.kind = "activate" => ~s.configured
  /\ call.kind = "setActive" => s.configured /\ s.active # call.value

\* The chain changes, and every open card could have read it since.
Becomes(s) ==
  /\ space' = s
  /\ cards' = [c \in Cards |->
                 IF cards[c].reading = "closed" THEN cards[c]
                 ELSE [cards[c] EXCEPT !.had = @ \cup {Value(s)}]]

\* What somebody may do elsewhere, the price agreed to when it activates.
Elsewhere ==
  {call \in [kind : {"rename"}, value : {Stranger}, by : Visitors]
       \cup [kind : {"setIdentity"}, value : {Untouched}, by : Visitors]
       \cup [kind : {"setActive"}, value : BOOLEAN, by : Visitors]
       \cup [kind : {"activate"}, value : Fees, by : Visitors] : Executes(call, space)}

EditElsewhere ==
  /\ editor # "account" /\ others < MaxOthers /\ others' = others + 1
  /\ \E call \in Elsewhere :
       /\ Becomes(Effects(call, space))
       /\ agreed' = agreed \cup IF call.kind = "activate" THEN {<<call.by, call.value>>} ELSE {}
  /\ UNCHANGED <<editor, header>>

SellSpace ==
  /\ editor # "account" /\ others < MaxOthers /\ others' = others + 1
  /\ \E v \in Visitors \ {space.holder} : Becomes([space EXCEPT !.holder = v])
  /\ UNCHANGED <<editor, agreed, header>>

-----------------------------------------------------------------------------
(* The card and its editor. *)

Set(c, card) ==
  /\ cards' = [cards EXCEPT ![c] = card]
  /\ UNCHANGED <<editor, space, others, agreed, header>>

OpenCard(c) ==
  /\ editor # "account" /\ cards[c].reading = "closed"
  /\ Set(c, [cards[c] EXCEPT !.reading = "owner", !.had = {Value(space)}])

ReadOwner(c) ==
  /\ cards[c].reading = "owner"
  /\ Set(c, [cards[c] EXCEPT !.reading = "value", !.found = space.holder])

\* The name shown is what the name editor's effect depends on.
NextReading(c, value) ==
  IF editor = "name" /\ value # cards[c].value THEN "owner" ELSE "done"

(* Both reads have answered. *)
ReadValue(c) ==
  /\ cards[c].reading = "value"
  /\ Set(c, [cards[c] EXCEPT !.reading = NextReading(c, Value(space)), !.found = Unread,
                             !.owner = cards[c].found, !.value = Value(space)])

ReadFails(c) ==
  /\ cards[c].reading \in {"owner", "value"}
  /\ Set(c, [cards[c] EXCEPT !.reading = "done", !.found = Unread])

(* accountsChanged, which the identity editor does not listen to. *)
ChangeAccount(c) ==
  /\ editor # "identity" /\ cards[c].reading # "closed"
  /\ \E v \in Visitors \ {cards[c].account} : Set(c, [cards[c] EXCEPT !.account = v])

Offers(c) == cards[c].owner = cards[c].account /\ cards[c].edit = NoEdit

FormShown(c) ==
  /\ editor = "status" /\ cards[c].owner = cards[c].account
  /\ cards[c].value # Unread /\ ~cards[c].value.configured

(* Typing into the form of the identity, also while an edit is under way:  *)
(* the value shown is the draft.                                           *)
TypeIdentity(c) ==
  /\ editor = "identity" /\ cards[c].owner = cards[c].account /\ cards[c].value # Unread
  /\ \E f \in Fields :
       Set(c, [cards[c] EXCEPT !.value[f] = c, !.typed = @ \cup {f},
                               !.since = @ \cup {f}])

(* The form of the first activation: another fee takes the acknowledgement *)
(* back, also while the transaction is under way.                          *)
TypeFee(c) ==
  /\ FormShown(c)
  /\ \E f \in Fees \ {cards[c].fee} : Set(c, [cards[c] EXCEPT !.fee = f, !.acknowledged = FALSE])

(* The box is ticked, or it is unticked or the form cancelled. *)
Acknowledge(c) ==
  /\ FormShown(c)
  /\ cards' = [cards EXCEPT ![c].acknowledged = ~@]
  /\ agreed' = agreed \cup IF cards[c].acknowledged THEN {} ELSE {<<cards[c].account, cards[c].fee>>}
  /\ UNCHANGED <<editor, space, others, header>>

\* What pressing the button would send.
Edits(c) ==
  LET old == cards[c].value
      by == cards[c].account
  IN  CASE editor = "name" -> {[kind |-> "rename", value |-> c, by |-> by]}
        [] editor = "identity" -> {[kind |-> "setIdentity", value |-> old, by |-> by]}
        [] editor = "status" ->
             IF old.configured
             THEN {[kind |-> "setActive", value |-> ~old.active, by |-> by]}
             ELSE IF cards[c].acknowledged
             THEN {[kind |-> "activate", value |-> cards[c].fee, by |-> by]}
             ELSE {}

PressEdit(c) ==
  /\ Offers(c) /\ cards[c].value # Unread
  /\ \E call \in Edits(c) :
       Set(c, [cards[c] EXCEPT !.edit = [step |-> "simulate", call |-> call], !.since = {}])

(* The call is simulated, signed in the wallet and handed to the node. *)
SendEdit(c) ==
  /\ cards[c].edit.step = "simulate" /\ Executes(cards[c].edit.call, space)
  /\ Set(c, [cards[c] EXCEPT !.edit.step = "sent"])

(* The wallet is on another network, the simulation fails, the user        *)
(* declines: a notice, and the card shows what it showed, the draft of an  *)
(* identity with it.                                                       *)
EditFails(c) ==
  /\ cards[c].edit.step = "simulate"
  /\ Set(c, [cards[c] EXCEPT !.edit = NoEdit])

IncludeEdit(c) ==
  LET call == cards[c].edit.call
      s == IF Executes(call, space) THEN Effects(call, space) ELSE space
      outcome == IF Executes(call, space) THEN "success" ELSE "reverted"
  IN  /\ cards[c].edit.step = "sent"
      /\ space' = s
      /\ cards' = [d \in Cards |->
                     LET card == IF cards[d].reading = "closed" THEN cards[d]
                                 ELSE [cards[d] EXCEPT !.had = @ \cup {Value(s)}]
                     IN  IF d = c THEN [card EXCEPT !.edit.step = outcome] ELSE card]
      /\ UNCHANGED <<editor, others, agreed, header>>

\* What the chain says after a success.
Saved(call) ==
  CASE call.kind = "activate" -> [active |-> TRUE, configured |-> TRUE]
    [] call.kind = "setActive" -> [active |-> call.value, configured |-> TRUE]
    [] OTHER -> call.value

\* What the card shows then: of the identity, the links as typed meanwhile
\* and the other field as it was saved.
Refreshed(card) ==
  LET saved == Saved(card.edit.call)
  IN  IF editor = "identity" THEN [saved EXCEPT !.links = card.value.links] ELSE saved

EditReverted(c) ==
  /\ cards[c].edit.step = "reverted"
  /\ Set(c, [cards[c] EXCEPT !.edit = NoEdit])

\* Seeded defect: a receipt is taken for a success.
EditConfirmedAnyhow(c) ==
  /\ cards[c].edit.step \in {"success", "reverted"}
  /\ Set(c, [cards[c] EXCEPT !.edit = NoEdit, !.value = Refreshed(cards[c]),
                             !.typed = cards[c].since \ {"about"}, !.acknowledged = FALSE,
                             !.reading = NextReading(c, Refreshed(cards[c]))])

EditConfirmed(c) ==
  /\ cards[c].edit.step = "success"
  /\ Set(c, [cards[c] EXCEPT !.edit = NoEdit, !.value = Refreshed(cards[c]),
                             !.typed = cards[c].since \ {"about"}, !.acknowledged = FALSE,
                             !.reading = NextReading(c, Refreshed(cards[c]))])

-----------------------------------------------------------------------------
(* The account button: the profile of the account is fetched, and what is  *)
(* still under way for another account is dropped.                         *)

FollowAccount ==
  /\ editor = "account"
  /\ \E v \in Visitors \ {header.account} : header' = [header EXCEPT !.account = v, !.awaited = v]
  /\ UNCHANGED <<editor, space, others, cards, agreed>>

ProfileArrives ==
  /\ editor = "account" /\ header.awaited # Unread
  /\ \E p \in {header.awaited, Unread} : header' = [header EXCEPT !.profile = p, !.awaited = Unread]
  /\ UNCHANGED <<editor, space, others, cards, agreed>>

CardNext ==
  \/ EditElsewhere \/ SellSpace
  \/ \E c \in Cards :
       \/ OpenCard(c) \/ ReadOwner(c) \/ ReadValue(c) \/ ReadFails(c) \/ ChangeAccount(c)
       \/ TypeIdentity(c) \/ TypeFee(c) \/ Acknowledge(c)
       \/ PressEdit(c) \/ SendEdit(c) \/ EditFails(c) \/ IncludeEdit(c)
       \/ EditReverted(c) \/ EditConfirmed(c)
  \/ FollowAccount \/ ProfileArrives

CardSpec == CardInit /\ [][CardNext]_cardVars

-----------------------------------------------------------------------------

\* Is the value shown this one, but for what was typed into it?
Shows(card, value) ==
  IF editor = "identity"
  THEN \A f \in Fields \ card.typed : card.value[f] = value[f]
  ELSE card.value = value

(* A card shows what the chain was at some moment since the card was       *)
(* opened, however the reads, the edits of several cards and the sales of  *)
(* the deed interleave.  A name or a status is never an edit that was not  *)
(* carried out; the form of the identity keeps its draft after an edit was *)
(* declined or reverted and sends it with the next, but what nobody typed  *)
(* into it since is the chain's, all of one moment.  The first fee of the  *)
(* chain is one its activator acknowledged; and once the account button    *)
(* has its answer, it shows the profile of its own account.                *)
CardTellsTruth ==
  /\ \A c \in Cards : cards[c].value # Unread => \E value \in cards[c].had : Shows(cards[c], value)
  /\ space.configured => <<space.activator, space.fee>> \in agreed
  /\ header.awaited = Unread => header.profile \in {Unread, header.account}
=============================================================================
