------------------------------- MODULE Mirror -------------------------------
(***************************************************************************)
(* What the explorer's database promises its readers: it follows one fork  *)
(* of the parent chain.  What it shows grows along that fork, may fall     *)
(* back along it and be shown again, and is dropped as a whole before      *)
(* another fork is shown; every event of the history shown has its record. *)
(* The promise ends where it can no longer be trusted: when blocks that    *)
(* counted as final are replaced while they are being read.                *)
(***************************************************************************)
EXTENDS Sequences, SequencesExt

CONSTANT EventsOf(_)   \* the recorded events of a history

VARIABLES
  shown,    \* the history of the parent chain the database stands for
  records,  \* the events it has recorded
  trusted   \* nothing final has been replaced behind a reader's back

mirrorVars == <<shown, records, trusted>>

MirrorInit == trusted = TRUE /\ EventsOf(shown) \subseteq records

Follow ==
  /\ IsPrefix(shown, shown') \/ IsPrefix(shown', shown)
  /\ records \subseteq records'
  /\ EventsOf(shown') \subseteq records'

Drop == shown' = <<>> /\ records' = {}

MirrorNext == IF trusted THEN trusted' => Follow \/ Drop ELSE ~trusted'

MirrorSpec == MirrorInit /\ [][MirrorNext]_mirrorVars
=============================================================================
