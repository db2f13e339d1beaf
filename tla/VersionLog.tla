----------------------------- MODULE VersionLog -----------------------------
(***************************************************************************)
(* What the long-term memory promises about the versions of a statement:   *)
(* a log to which reviews append.  A review appends at most one entry,     *)
(* only a text of the very statement it has accepted, under the next       *)
(* number of that statement; nothing in the log is changed or removed.     *)
(***************************************************************************)
EXTENDS Naturals, FiniteSets

CONSTANTS
  Texts,      \* the texts of statements
  KeyOf(_),   \* the statement a text is of, up to case and blanks
  Reviews     \* the reviews

VARIABLES
  accepted,  \* <<key, review>> pairs: the acceptances
  log        \* entries [fp, version, sql, by]

vlVars == <<accepted, log>>

EntriesOf(k) == {entry \in log : entry.fp = k}

VLInit == accepted = {} /\ log = {}

Accept(k, r) ==
  /\ accepted' = accepted \cup {<<k, r>>}
  /\ UNCHANGED log

AppendVersion(text, r) ==
  /\ <<KeyOf(text), r>> \in accepted
  /\ \A entry \in log : entry.by # r
  /\ log' = log \cup {[fp |-> KeyOf(text), version |-> Cardinality(EntriesOf(KeyOf(text))) + 1,
                       sql |-> text, by |-> r]}
  /\ UNCHANGED accepted

VLNext ==
  \E r \in Reviews, text \in Texts : Accept(KeyOf(text), r) \/ AppendVersion(text, r)

VLSpec == VLInit /\ [][VLNext]_vlVars
=============================================================================
