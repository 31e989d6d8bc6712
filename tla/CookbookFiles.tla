--------------------------- MODULE CookbookFiles ---------------------------
(***************************************************************************)
(* Editing the files of one cookbook on its page of admin-console.  The    *)
(* page has one editor for all of them and one mutation that saves it; its *)
(* query of the cookbook is not invalidated by a save.                     *)
(***************************************************************************)
EXTENDS Naturals

CONSTANTS
  BookFiles,     (* the files of the cookbook                              *)
  MaxSaves       (* bound: files saved                                     *)

NoFile == "no file"

ASSUME CookbookFilesAssumption ==
  MaxSaves \in Nat /\ BookFiles # {} /\ NoFile \notin BookFiles

Saves == 1..MaxSaves
Texts == BookFiles \X (0..MaxSaves)     (* a text and the file it was of   *)

VARIABLES
  editor,        (* the page, the file edited and the text in the editor   *)
  save,          (* Saves -> a mutation of a file                          *)
  disk           (* file: the files; read: as the page has read them       *)

filesVars == <<editor, save, disk>>

(* stray: its page was left.                                               *)
CookbookFilesTypeOK ==
  /\ editor \in [page : BOOLEAN, path : BookFiles \union {NoFile}, text : Texts, error : BOOLEAN]
  /\ save \in [Saves -> [at : {"unmade", "sent", "written", "over"},
                         path : BookFiles \union {NoFile}, text : Texts, stray : BOOLEAN]]
  /\ disk \in [file : [BookFiles -> Texts], read : [BookFiles -> Texts]]

CookbookFilesInit ==
  LET text == <<CHOOSE f \in BookFiles : TRUE, 0>> IN
  /\ disk = [file |-> [f \in BookFiles |-> <<f, 0>>], read |-> [f \in BookFiles |-> <<f, 0>>]]
  /\ editor = [page |-> TRUE, path |-> NoFile, text |-> text, error |-> FALSE]
  /\ save = [s \in Saves |-> [at |-> "unmade", path |-> NoFile, text |-> text,
                              stray |-> FALSE]]

Saving == {s \in Saves : save[s].at \in {"sent", "written"} /\ ~save[s].stray}

----------------------------------------------------------------------------
(* The page is left, and is opened again on what it had read before or on  *)
(* a new reading, as the query is fresh or not.                            *)
LeaveCookbook ==
  /\ editor.page
  /\ editor' = [editor EXCEPT !.page = FALSE, !.path = NoFile, !.error = FALSE]
  /\ save' = [s \in Saves |-> [save[s] EXCEPT !.stray = @ \/ s \in Saving]]
  /\ UNCHANGED disk

OpenCookbook ==
  /\ ~editor.page
  /\ editor' = [editor EXCEPT !.page = TRUE]
  /\ UNCHANGED <<save, disk>>

ReadCookbook ==
  /\ editor.page
  /\ disk' = [disk EXCEPT !.read = disk.file]
  /\ UNCHANGED <<editor, save>>

(* A mutant of StartEdit that opens the editor on the text it last held.   *)
StartEditPath(f) ==
  /\ editor.page
  /\ editor' = [editor EXCEPT !.path = f, !.error = FALSE]
  /\ UNCHANGED <<save, disk>>

(* handleStartEdit, also while another file is edited or being saved.      *)
StartEdit(f) ==
  /\ editor.page
  /\ editor' = [page |-> TRUE, path |-> f, text |-> disk.read[f], error |-> FALSE]
  /\ UNCHANGED <<save, disk>>

CancelEdit ==
  /\ editor.path # NoFile
  /\ editor' = [editor EXCEPT !.path = NoFile]
  /\ UNCHANGED <<save, disk>>

(* handleSaveEdit: the text is changed and saved; the button is disabled   *)
(* while a save is pending.                                                *)
SaveEdit(s) ==
  /\ editor.path # NoFile
  /\ save[s].at = "unmade" /\ \A r \in 1..(s - 1) : save[r].at # "unmade"
  /\ Saving = {}
  /\ editor' = [editor EXCEPT !.text = <<@[1], s>>]
  /\ save' = [save EXCEPT ![s] = [at |-> "sent", path |-> editor.path,
                                  text |-> <<editor.text[1], s>>, stray |-> FALSE]]
  /\ UNCHANGED disk

(* HandleUpdateCookbookFile *)
WriteFile(s) ==
  /\ save[s].at = "sent"
  /\ disk' = [disk EXCEPT !.file[save[s].path] = save[s].text]
  /\ save' = [save EXCEPT ![s].at = "written"]
  /\ UNCHANGED editor

(* The answer closes the editor, whichever file it is on by now; a failure *)
(* is shown in it.                                                         *)
SaveSucceeds(s) ==
  /\ save[s].at = "written"
  /\ editor' = IF save[s].stray THEN editor ELSE [editor EXCEPT !.path = NoFile, !.error = FALSE]
  /\ save' = [save EXCEPT ![s].at = "over"]
  /\ UNCHANGED disk

SaveFails(s) ==
  /\ save[s].at \in {"sent", "written"}
  /\ editor' = IF save[s].stray THEN editor ELSE [editor EXCEPT !.error = TRUE]
  /\ save' = [save EXCEPT ![s].at = "over"]
  /\ UNCHANGED disk

CookbookFilesNext ==
  \/ LeaveCookbook \/ OpenCookbook \/ ReadCookbook \/ CancelEdit
  \/ \E f \in BookFiles : StartEdit(f)
  \/ \E s \in Saves : SaveEdit(s) \/ WriteFile(s) \/ SaveSucceeds(s) \/ SaveFails(s)

CookbookFilesSpec == CookbookFilesInit /\ [][CookbookFilesNext]_filesVars

----------------------------------------------------------------------------
(* Edits, saves, failures and switches between files in any order leave    *)
(* every file with a text that was edited from its own.                    *)
FilesKeepTheirText == \A f \in BookFiles : disk.file[f][1] = f
============================================================================
