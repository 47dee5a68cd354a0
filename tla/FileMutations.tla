--------------------------- MODULE FileMutations ---------------------------
(***************************************************************************)
(* Changing the user's files: FileService and CheckpointService            *)
(* (packages/application/src/file-service.ts, checkpoint-service.ts), the  *)
(* transaction of mutation-transaction.ts and the publication step of      *)
(* packages/filesystem/src/atomic-writer.ts.                               *)
(*                                                                         *)
(* An operation looks at its targets, keeps what it is about to replace (a *)
(* checkpoint, or the Recovery Trash) and only then replaces it; a patch   *)
(* and a checkpoint restore replace several files and roll back when one   *)
(* fails.  Nothing outside the workspace is kept, and a checkpoint keeps   *)
(* the text of a file: bytes that are no UTF-8 come back mangled, a binary *)
(* file is refused.  Contents are named: path p holds p at first, operation*)
(* o writes the text o.  Synchronous mutations are admitted side by side,  *)
(* MaxOpen at once, and nothing keeps two of them from the same path: met  *)
(* remembers of an operation that its paths were another open one's too, or*)
(* that its trash item was purged (no code reads it).                      *)
(***************************************************************************)
EXTENDS FiniteSets, Naturals, Sequences

CONSTANTS Paths, Edits, MaxOpen

Absent == "absent"
Mangled == "mangled"

ASSUME OpenAssumption ==
    /\ MaxOpen \in Nat \ {0} /\ Paths \cap Edits = {}
    /\ Absent \notin Paths \cup Edits /\ Mangled \notin Paths \cup Edits

VARIABLES disk,     \* disk[p]: what the file holds
          kept,     \* the contents in checkpoints
          trash,    \* the items of the Recovery Trash
          mut,      \* mut[o]: an operation and, as history, whether it met another
          outside,  \* the paths outside the workspace
          form      \* form[p]: what kind of bytes path p holds at first

ground == <<outside, form>>
fileVars == <<disk, kept, trash, mut, outside, form>>

Content == Paths \cup Edits \cup {Mangled}
Operation(at, kind, on, to, before) ==
    [at |-> at, kind |-> kind, on |-> on, to |-> to, before |-> before, back |-> before, done |-> <<>>,
     broken |-> FALSE, met |-> FALSE]
Unstarted == Operation("new", "none", {}, Absent, <<>>)
\* "gone" is a delete answered with recoverable: false.
Over == {"ok", "gone", "failed", "dead"}
Open == {o \in Edits : mut[o].at \notin Over \cup {"new"}}

FileTypeOK ==
    /\ disk \in [Paths -> Content \cup {Absent}]
    /\ kept \subseteq Content
    /\ trash \subseteq [item : Edits, path : Paths, content : Content, kind : {"deleted", "backup"}]
    /\ outside \subseteq Paths /\ form \in [Paths -> {"text", "garbled", "binary"}]
    /\ \A o \in Edits : mut[o].on \subseteq Paths /\ mut[o].broken \in BOOLEAN

FileInit ==
    /\ disk \in {d \in [Paths -> Content \cup {Absent}] : \A p \in Paths : d[p] \in {p, Absent}}
    /\ kept = {} /\ trash = {}
    /\ outside \in SUBSET Paths /\ form \in [Paths -> {"text", "garbled", "binary"}]
    /\ mut = [o \in Edits |-> Unstarted]

\* The paths an operation works on; a new one starts, and meets the open
\* operations that work on one of them.
Footprint(m) == m.on \cup (IF m.kind \in {"move", "copy"} THEN {m.to} ELSE {})
Meets(m, x) == x \in Open /\ Footprint(m) \cap Footprint(mut[x]) # {}
Start(o, m) ==
    /\ mut[o].at = "new" /\ Cardinality(Open) < MaxOpen
    /\ mut' = [x \in Edits |-> IF x = o THEN [m EXCEPT !.met = \E y \in Edits : Meets(m, y)]
                               ELSE [mut[x] EXCEPT !.met = @ \/ Meets(m, x)]]

\* An operation moves on; once it is over, only what became of it is left.
Now(m, at) == IF at \in Over THEN [Unstarted EXCEPT !.at = at, !.broken = m.broken] ELSE [m EXCEPT !.at = at]
Stands(o, from, to) == mut[o].at = from /\ mut' = [mut EXCEPT ![o] = Now(mut[o], to)]
Exists(ps) == {p \in ps : disk[p] # Absent}
\* What holds a zero byte is refused as text; toString('utf8') replaces every
\* byte that is no UTF-8.
Binary(c) == c \in Paths /\ form[c] = "binary"
Decoded(c) == IF c \in Paths /\ form[c] = "garbled" THEN Mangled ELSE c

-----------------------------------------------------------------------------
\* write_file, edit_file, apply_patch: what exists is inspected, and read for
\* the rollback.  create_new refuses an existing target; an edit needs one
\* that is text.
Inspect(o, kind, ps) ==
    /\ ps # {} /\ (kind # "patch" => Cardinality(ps) = 1)
    /\ kind = "create" => Exists(ps) = {}
    /\ kind = "edit" => \A p \in ps : disk[p] # Absent /\ ~Binary(disk[p])
    /\ Start(o, Operation("seen", kind, ps, o, [p \in ps |-> disk[p]]))
    /\ UNCHANGED <<disk, kept, trash>>
\* CheckpointService.restore of a content kept of these files.
InspectRestore(o, ps, c) ==
    /\ ps # {} /\ Exists(ps) = ps /\ ps \cap outside = {} /\ c \in kept
    /\ Start(o, Operation("seen", "checkpoint", ps, c, [p \in ps |-> disk[p]]))
    /\ UNCHANGED <<disk, kept, trash>>

\* createForFiles reads the files that existed again and stores their text; a
\* missing or binary one fails the operation.  A restore rolls back to what
\* was stored here, a patch to the bytes it read before.
ToKeep(o) == {p \in mut[o].on : mut[o].before[p] # Absent} \ outside
\* Mutant of Keep: no checkpoint.
KeepNothing(o) == Stands(o, "seen", "kept") /\ UNCHANGED <<disk, kept, trash>>
Keep(o) ==
    LET m == mut[o] IN
    /\ m.at = "seen"
    /\ \A p \in ToKeep(o) : disk[p] # Absent /\ ~Binary(disk[p])
    /\ kept' = kept \cup {Decoded(disk[p]) : p \in ToKeep(o)}
    /\ mut' = [mut EXCEPT ![o] = [m EXCEPT !.at = "kept",
                                           !.back = IF m.kind = "checkpoint" THEN [p \in m.on |-> Decoded(disk[p])] ELSE m.back]]
    /\ UNCHANGED <<disk, trash>>

\* Cancelled, refused, or the checkpoint failed: nothing was written.
GiveUp(o) ==
    /\ Stands(o, "seen", "failed")
    /\ UNCHANGED <<disk, kept, trash>>

\* runMutationTransaction: one write after the other; a patch looks after each
\* one, the last included, whether the request was aborted.  The publication
\* of create_new is a link, which never replaces.
Committed(o) == {mut[o].done[i] : i \in 1..Len(mut[o].done)}
Commit(o, p, aborted) ==
    /\ mut[o].at = "kept" /\ p \in mut[o].on \ Committed(o)
    /\ mut[o].kind = "create" => disk[p] = Absent
    /\ aborted => mut[o].kind = "patch"
    /\ disk' = [disk EXCEPT ![p] = mut[o].to]
    /\ mut' = [mut EXCEPT ![o] = Now([mut[o] EXCEPT !.done = Append(mut[o].done, p)],
                                     IF aborted THEN "undo"
                                     ELSE IF Committed(o) \cup {p} = mut[o].on THEN "ok" ELSE "kept")]
    /\ UNCHANGED <<kept, trash>>
\* A write fails, or the request is aborted before it.
CommitFails(o) ==
    /\ Stands(o, "kept", IF mut[o].done = <<>> THEN "failed" ELSE "undo")
    /\ UNCHANGED <<disk, kept, trash>>

\* rollbackCompleted: in reverse order; a rollback that fails is counted and
\* the others go on.
Undone(o, failed) ==
    LET m == mut[o] IN
    mut' = [mut EXCEPT ![o] = Now([m EXCEPT !.done = SubSeq(m.done, 1, Len(m.done) - 1), !.broken = m.broken \/ failed],
                                  IF Len(m.done) = 1 THEN "failed" ELSE "undo")]
\* Mutant of Rollback: a target the patch created is left behind.
RollbackExisting(o) ==
    LET p == mut[o].done[Len(mut[o].done)] IN
    /\ mut[o].at = "undo"
    /\ disk' = [disk EXCEPT ![p] = IF mut[o].back[p] = Absent THEN @ ELSE mut[o].back[p]]
    /\ Undone(o, FALSE)
    /\ UNCHANGED <<kept, trash>>
Rollback(o) ==
    LET p == mut[o].done[Len(mut[o].done)] IN
    /\ mut[o].at = "undo"
    /\ disk' = [disk EXCEPT ![p] = mut[o].back[p]]
    /\ Undone(o, FALSE)
    /\ UNCHANGED <<kept, trash>>
RollbackFails(o) ==
    /\ mut[o].at = "undo"
    /\ Undone(o, TRUE)
    /\ UNCHANGED <<disk, kept, trash>>

-----------------------------------------------------------------------------
\* move_file and copy_file: the destination is checked, then renamed onto; a
\* copy, and a move to another volume, never replaces.
Transfer(o, kind, p, q) ==
    /\ disk[p] # Absent /\ disk[q] = Absent
    /\ Start(o, Operation(kind, kind, {p}, q, <<>>))
    /\ UNCHANGED <<disk, kept, trash>>
Rename(o, p) ==
    LET q == mut[o].to IN
    /\ p \in mut[o].on /\ Stands(o, "move", "ok") /\ disk[p] # Absent
    /\ disk' = [disk EXCEPT ![q] = disk[p], ![p] = Absent]
    /\ UNCHANGED <<kept, trash>>
CopyOver(o, p) ==
    LET q == mut[o].to IN
    /\ p \in mut[o].on
    /\ Stands(o, "copy", "ok") \/ Stands(o, "move", "copied")
    /\ disk[p] # Absent /\ disk[q] = Absent
    /\ disk' = [disk EXCEPT ![q] = disk[p]]
    /\ UNCHANGED <<kept, trash>>
RemoveSource(o, p) ==
    /\ p \in mut[o].on /\ Stands(o, "copied", "ok")
    /\ disk' = [disk EXCEPT ![p] = Absent]
    /\ UNCHANGED <<kept, trash>>
TransferFails(o) ==
    /\ mut[o].at \in {"move", "copy", "copied"} /\ mut' = [mut EXCEPT ![o] = Now(mut[o], "failed")]
    /\ UNCHANGED <<disk, kept, trash>>

-----------------------------------------------------------------------------
\* delete_file: inside the workspace a checkpoint if one can be had, then the
\* trash; outside, or where the setting turns that off, unlink.
DeleteLook(o, p, keeps) ==
    /\ disk[p] # Absent
    /\ keeps => p \notin outside /\ ~Binary(disk[p])
    /\ Start(o, Operation(IF keeps THEN "deleteKept" ELSE "delete", "delete", {p}, Absent, <<>>))
    /\ kept' = IF keeps THEN kept \cup {Decoded(disk[p])} ELSE kept
    /\ UNCHANGED <<disk, trash>>
Item(o, p, kind) == [item |-> o, path |-> p, content |-> disk[p], kind |-> kind]
ToTrash(o, p) ==
    /\ p \in mut[o].on \ outside /\ disk[p] # Absent
    /\ Stands(o, "delete", "ok") \/ Stands(o, "deleteKept", "ok")
    /\ trash' = trash \cup {Item(o, p, "deleted")}
    /\ disk' = [disk EXCEPT ![p] = Absent]
    /\ UNCHANGED kept
\* Answered as recoverable when there is a checkpoint.
Unlink(o, p) ==
    /\ p \in mut[o].on /\ disk[p] # Absent
    /\ Stands(o, "delete", "gone") \/ Stands(o, "deleteKept", "ok")
    /\ disk' = [disk EXCEPT ![p] = Absent]
    /\ UNCHANGED <<kept, trash>>

\* prepareExternalFileMutation: what another program is to replace is copied to
\* the trash first, inside the workspace; then that program writes.
ExternalLook(o, p) ==
    /\ Start(o, Operation("external", "external", {p}, o, <<>>))
    /\ trash' = IF disk[p] = Absent \/ p \in outside THEN trash ELSE trash \cup {Item(o, p, "backup")}
    /\ UNCHANGED <<disk, kept>>
ExternalWrite(o, p) ==
    /\ p \in mut[o].on /\ Stands(o, "external", "ok")
    /\ disk' = [disk EXCEPT ![p] = o]
    /\ UNCHANGED <<kept, trash>>

\* restore_deleted_file: onto a free destination the payload is renamed; the
\* backup of a replaced file may also go onto the file that replaced it, which
\* is copied to the trash before and the restored item dropped after.
RestoreLook(o, t) ==
    /\ t \in trash /\ (disk[t.path] # Absent => t.kind = "backup")
    /\ Start(o, Operation(IF disk[t.path] = Absent THEN "untrash" ELSE "swap", "restore", {t.path}, t.item, <<>>))
    /\ UNCHANGED <<disk, kept, trash>>
Restored(o, t) == t \in trash /\ t.item = mut[o].to
Untrash(o, t) ==
    /\ Restored(o, t) /\ Stands(o, "untrash", "ok")
    /\ disk' = [disk EXCEPT ![t.path] = t.content]
    /\ trash' = trash \ {t}
    /\ UNCHANGED kept
BackUpReplaced(o, p) ==
    /\ p \in mut[o].on /\ Stands(o, "swap", "swapping") /\ disk[p] # Absent
    /\ trash' = trash \cup {Item(o, p, "backup")}
    /\ UNCHANGED <<disk, kept>>
SwapIn(o, t) ==
    /\ Restored(o, t) /\ Stands(o, "swapping", "swapped")
    /\ disk' = [disk EXCEPT ![t.path] = t.content]
    /\ UNCHANGED <<kept, trash>>
DropItem(o) ==
    /\ Stands(o, "swapped", "ok")
    /\ trash' = {t \in trash : t.item # mut[o].to}
    /\ UNCHANGED <<disk, kept>>

\* Refused, cancelled or failed; a plain write that fails may leave anything.
FailBefore(o) ==
    /\ mut[o].at \in {"delete", "deleteKept", "untrash", "swap", "external", "swapping", "swapped"}
    /\ mut' = [mut EXCEPT ![o] = Now(mut[o], "failed")]
    /\ UNCHANGED <<disk, kept, trash>>
WriteTorn(o, p) ==
    /\ p \in mut[o].on
    /\ Stands(o, "external", "failed") \/ Stands(o, "swapping", "failed")
    /\ disk' = [disk EXCEPT ![p] = Mangled]
    /\ UNCHANGED <<kept, trash>>

\* purgeRecoveryItemsOlderThan.
Purge(t) ==
    /\ t \in trash /\ trash' = trash \ {t}
    /\ mut' = [mut EXCEPT ![t.item].met = @ \/ t.item \in Open]
    /\ UNCHANGED <<disk, kept>>

\* The server is killed: what runs stops where it is.
KillMutations ==
    /\ Open # {}
    /\ mut' = [o \in Edits |-> IF o \in Open THEN Now(mut[o], "dead") ELSE mut[o]]
    /\ UNCHANGED <<disk, kept, trash>>

ReplaceStep(o) ==
    \/ \E kind \in {"create", "write", "edit", "patch"}, ps \in SUBSET Paths : Inspect(o, kind, ps)
    \/ \E ps \in SUBSET Paths, c \in kept : InspectRestore(o, ps, c)
    \/ \E p \in Paths, aborted \in BOOLEAN : Commit(o, p, aborted)
    \/ Keep(o) \/ GiveUp(o) \/ CommitFails(o) \/ Rollback(o) \/ RollbackFails(o)
TransferStep(o) ==
    \/ \E kind \in {"move", "copy"}, p, q \in Paths : Transfer(o, kind, p, q)
    \/ \E p \in Paths : Rename(o, p) \/ CopyOver(o, p) \/ RemoveSource(o, p)
    \/ TransferFails(o)
DeleteStep(o) ==
    \/ \E p \in Paths, keeps \in BOOLEAN : DeleteLook(o, p, keeps)
    \/ \E p \in Paths : ToTrash(o, p) \/ Unlink(o, p)
TrashStep(o) ==
    \/ \E p \in Paths : ExternalLook(o, p) \/ ExternalWrite(o, p) \/ BackUpReplaced(o, p) \/ WriteTorn(o, p)
    \/ \E t \in trash : RestoreLook(o, t) \/ Untrash(o, t) \/ SwapIn(o, t)
    \/ DropItem(o) \/ FailBefore(o)

FileNext ==
    /\ \/ \E o \in Edits : ReplaceStep(o) \/ TransferStep(o) \/ DeleteStep(o) \/ TrashStep(o)
       \/ (\E t \in trash : Purge(t)) \/ KillMutations
    /\ UNCHANGED ground

FileSpec == FileInit /\ [][FileNext]_fileVars

-----------------------------------------------------------------------------
OnDisk == {disk[p] : p \in Paths} \ {Absent}
InTrash == {t.content : t \in trash}
Recoverable == OnDisk \cup kept \cup InTrash

\* What the user had, if text or binary, and what an operation reported as
\* written.
Counts(c) == (c \in Paths /\ form[c] # "garbled") \/ (c \in Edits /\ mut[c].at = "ok")
\* Given up in the open: outside the workspace, by a delete answered as not
\* recoverable, by a purge (the one step in which no operation moves).
GivenUp(c) ==
    \/ \E p \in outside : disk[p] = c /\ disk'[p] # c
    \/ \E o \in Edits : mut[o].at # "gone" /\ mut'[o].at = "gone" /\ (\E p \in mut[o].on : disk[p] = c)
    \/ c \in InTrash /\ \A o \in Edits : mut'[o].at = mut[o].at

\* Inside the workspace no content is lost: what counts stays on disk, in a
\* checkpoint or in the trash until it is given up in the open.  Every step
\* keeps it, those of failed and killed operations included and whatever else
\* is open elsewhere; only an operation that met another may lose it, and the
\* bytes a checkpoint cannot decode.
NothingLost ==
    [][\A c \in Recoverable :
          \/ Counts(c) => c \in Recoverable' \/ GivenUp(c)
          \/ \E o \in Edits : mut[o].met /\ mut'[o] # mut[o]]_fileVars

\* A patch or restore that fails or is aborted, after its last write too, with
\* every rollback done and no other operation met on its paths, leaves each
\* target as it was found, inside and outside the workspace; a restore at
\* least its text.
FailedIsUndone ==
    [][\A o \in Edits :
          (mut[o].at # "failed" /\ mut'[o].at = "failed" /\ mut[o].kind \in {"patch", "checkpoint"} /\ ~mut'[o].broken
             /\ ~mut[o].met)
             => \A p \in mut[o].on :
                   \/ disk'[p] = mut[o].before[p]
                   \/ mut[o].kind = "checkpoint" /\ disk'[p] = Decoded(mut[o].before[p])]_fileVars
=============================================================================
