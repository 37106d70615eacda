--------------------------- MODULE ContextEdits ----------------------------
(***************************************************************************)
(* Edits of a context by several editors: its metadata and archived state  *)
(* (packages/domain src/contexts.ts), its knowledge                        *)
(* (src/context-knowledge.ts) and one of its notes (src/context-notes.ts). *)
(*                                                                         *)
(* An editor states what it has read: the time of the last change, in      *)
(* milliseconds, or the revision.  The database keeps times in             *)
(* microseconds, by a clock that may step back or change with the cell the *)
(* workspace is in.  Every edit is one serializable transaction, and goes  *)
(* through an idempotency claim, which is Idempotency's subject.           *)
(***************************************************************************)
EXTENDS Naturals

CONSTANTS Editors,
          Milli,     \* microseconds in a millisecond
          MaxClock,  \* bound: readings of the clock
          MaxEdits   \* bound: edits that are committed

ASSUME ClockAssumption == Milli \in Nat \ {0} /\ MaxClock \in Nat /\ MaxEdits \in Nat

VARIABLES
  context,  \* skill_contexts: archived, updated_at, the current knowledge revision; and how
            \* often its row was written (which nothing in the code records)
  note,     \* context_notes: archived and the current revision
  shelf,    \* is the skill archived
  editor    \* what each editor has read and is about to change

contextVars == <<context, note, shelf, editor>>

Kinds == {"metadata", "archive", "restore", "knowledge", "revise", "drop"}
NoEdit == [kind |-> "none"]
Stamps == 0..MaxClock + (MaxEdits + 1) * Milli

ContextTypeOK ==
  /\ context \in [archived : BOOLEAN, stamp : Stamps, revision : 1..MaxEdits + 1, writes : 0..MaxEdits]
  /\ note \in [archived : BOOLEAN, revision : 1..MaxEdits + 1]
  /\ shelf \in BOOLEAN
  /\ editor \in [Editors -> {NoEdit} \cup
       [kind : Kinds, stated : BOOLEAN, millis : Stamps, revision : 1..MaxEdits + 1,
        writes : 0..MaxEdits]]

\* A context and a note as they were created, at some instant.
ContextInit ==
  /\ \E now \in 0..MaxClock :
       context = [archived |-> FALSE, stamp |-> now, revision |-> 1, writes |-> 0]
  /\ note = [archived |-> FALSE, revision |-> 1]
  /\ shelf = FALSE
  /\ editor = [e \in Editors |-> NoEdit]

\* toISOString: microseconds are cut off.
Millis(stamp) == stamp \div Milli

\* Mutant: the least step the column can hold.
NextMicrosecond(stamp, now) == IF now > stamp THEN now ELSE stamp + 1

\* GREATEST(clock_timestamp(), updated_at + interval '1 millisecond')
NextStamp(stamp, now) == IF now > stamp + Milli THEN now ELSE stamp + Milli

-----------------------------------------------------------------------------
\* Somebody opens an editor.  Metadata and archiving need not state what was read.
Open(e) ==
  /\ editor[e] = NoEdit
  /\ \E kind \in Kinds, stated \in BOOLEAN :
       /\ stated \/ kind \in {"metadata", "archive", "restore", "drop"}
       /\ editor' = [editor EXCEPT ![e] =
            [kind |-> kind, stated |-> stated, millis |-> Millis(context.stamp),
             revision |-> IF kind = "revise" THEN note.revision ELSE context.revision,
             writes |-> context.writes]]
  /\ UNCHANGED <<context, note, shelf>>

\* The row of the context is written at the database's time.
Write(changed) ==
  /\ context.writes < MaxEdits
  /\ \E now \in 0..MaxClock :
       context' = [changed EXCEPT !.stamp = NextStamp(context.stamp, now), !.writes = @ + 1]

\* assertExpectedUpdatedAt
AsRead(e) == editor[e].stated => Millis(context.stamp) = editor[e].millis

UpdateContext(e) ==
  /\ editor[e].kind = "metadata" /\ AsRead(e) /\ ~context.archived
  /\ Write(context)
  /\ UNCHANGED <<note, shelf>>

\* Archiving what is archived changes nothing but the time.
SetArchived(e) ==
  /\ editor[e].kind \in {"archive", "restore"} /\ AsRead(e)
  /\ Write([context EXCEPT !.archived = editor[e].kind = "archive"])
  /\ UNCHANGED <<note, shelf>>

UpdateKnowledge(e) ==
  /\ editor[e].kind = "knowledge" /\ ~context.archived /\ ~shelf
  /\ context.revision = editor[e].revision
  /\ Write([context EXCEPT !.revision = @ + 1])
  /\ UNCHANGED <<note, shelf>>

ReviseNote(e) ==
  /\ editor[e].kind = "revise" /\ ~note.archived /\ ~context.archived /\ ~shelf
  /\ note.revision = editor[e].revision /\ note.revision <= MaxEdits
  /\ note' = [note EXCEPT !.revision = @ + 1]
  /\ UNCHANGED <<context, shelf>>

\* Archives a note whatever it, its context or its skill is.
DropNote(e) ==
  /\ editor[e].kind = "drop"
  /\ note' = [note EXCEPT !.archived = TRUE]
  /\ UNCHANGED <<context, shelf>>

\* The transaction commits, or the edit is refused or given up.
Submit(e) ==
  /\ editor[e] # NoEdit
  /\ editor' = [editor EXCEPT ![e] = NoEdit]
  /\ \/ UpdateContext(e) \/ SetArchived(e) \/ UpdateKnowledge(e) \/ ReviseNote(e) \/ DropNote(e)
     \/ UNCHANGED <<context, note, shelf>>

\* The skill is archived or restored.
ShelveSkill ==
  /\ shelf' = ~shelf
  /\ UNCHANGED <<context, note, editor>>

ContextNext == ShelveSkill \/ \E e \in Editors : Open(e) \/ Submit(e)

ContextSpec == ContextInit /\ [][ContextNext]_contextVars

-----------------------------------------------------------------------------
\* An edit that states what it has read never overwrites one it has not read: one that names
\* a time changes the context as it was when it was read, however close two edits are
\* and whatever the clock does (contexts.ts:307-322 with the GREATEST of 645, 804,
\* 901 and context-knowledge.ts:251), and a revision of the knowledge or the note is
\* built on the one its editor saw.
NothingOverwrittenStep ==
  \A e \in Editors :
    editor[e] # NoEdit /\ editor'[e] = NoEdit /\ editor[e].stated =>
      /\ editor[e].kind \in {"metadata", "archive", "restore"} /\ context' # context =>
           context.writes = editor[e].writes
      /\ context'.revision # context.revision => context.revision = editor[e].revision
      /\ note'.revision # note.revision => note.revision = editor[e].revision
NothingOverwritten == [][NothingOverwrittenStep]_contextVars
=============================================================================
