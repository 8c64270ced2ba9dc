------------------------------- MODULE ApPicker -------------------------------
(***************************************************************************)
(* ap_file_picker of the Apostrophe widgets: directories shown one after   *)
(* the other with ap_list, below a root the user must not leave.  A path   *)
(* is the sequence of its names; the file system has links, directories    *)
(* that cannot be read, and changes while a directory is on the screen.    *)
(***************************************************************************)
EXTENDS Integers, Sequences, SequencesExt, FiniteSets

CONSTANTS
  PickOpts,     \* the option records the picker may be opened with
  Nodes,        \* path -> [type: "dir" | "file" | "link", to: path, hidden, ext, open]
  BaseRoot,     \* SDCARD_PATH, as the environment has it
  MaxDepth,     \* bound: names in a path below which no directory is made
  NewName       \* what the user types for a new directory, one component

VARIABLE w      \* the stack frame of the widget that runs, and the file system

-----------------------------------------------------------------------------
(* Paths.                                                                  *)

None == <<"?">>

\* realpath(3): links are followed component by component; None if something
\* is missing.  A link names a resolved path.
Follow(fs, path, name) ==
  LET at == Append(path, name)
  IN  IF path = None \/ at \notin DOMAIN fs THEN None
      ELSE IF fs[at].type # "link" THEN at
      ELSE IF fs[at].to \in DOMAIN fs THEN fs[at].to ELSE None

Real(fs, p) ==
  LET upto[k \in 0 .. Len(p)] == IF k = 0 THEN <<>> ELSE Follow(fs, upto[k - 1], p[k])
  IN  upto[Len(p)]

IsDir(fs, p) == LET r == Real(fs, p) IN r # None /\ (r = <<>> \/ fs[r].type = "dir")
Inside(p, root) == IsPrefix(root, p)
Parent(p) == IF p = <<>> THEN p ELSE Front(p)

-----------------------------------------------------------------------------
(* Opening.                                                                *)

\* A root that does not exist is taken as it is written.
Base(fs) == IF Real(fs, BaseRoot) = None THEN BaseRoot ELSE Real(fs, BaseRoot)

\* The root the caller asked for, if it is a directory below the base.
EffectiveRoot(fs, asked) ==
  LET r == Real(fs, asked)
  IN  IF asked # <<>> /\ r # None /\ IsDir(fs, r) /\ Inside(r, Base(fs)) THEN r ELSE Base(fs)

\* The directory the caller asked for, if it is one below the root.
StartPath(fs, root, asked) ==
  LET r == Real(fs, asked)
  IN  IF asked # <<>> /\ r # None /\ Inside(r, root) /\ IsDir(fs, r) THEN r ELSE root

OpenPicker(o) ==
  LET root == EffectiveRoot(Nodes, o.root)
  IN  [kind |-> "picker", opts |-> o, fs |-> Nodes, root |-> root,
       cur |-> StartPath(Nodes, root, o.initial), phase |-> "scan", entries |-> {},
       path |-> None, isDir |-> FALSE, result |-> "none", changes |-> 0]

PickInit == w \in {OpenPicker(o) : o \in PickOpts}

-----------------------------------------------------------------------------
(* One directory.                                                          *)

At(phase) == w.kind = "picker" /\ w.phase = phase
Ends(how) == [w EXCEPT !.kind = "done", !.result = how]

\* One level up, and to the root should that have left it.
Up(s) == [s EXCEPT !.cur = IF Parent(@) # @ /\ Inside(Parent(@), s.root) THEN Parent(@) ELSE s.root,
                   !.phase = "scan"]

Readable(fs, p) == IsDir(fs, p) /\ (Real(fs, p) = <<>> \/ fs[Real(fs, p)].open)

\* opendir fails: a message, and the directory above; there is none above the
\* root.
ScanFails ==
  /\ At("scan") /\ ~Readable(w.fs, w.cur)
  /\ w' = IF w.cur = w.root THEN Ends("error") ELSE Up(w)

\* What the list shows: no hidden names unless asked for, no dangling links,
\* no files when directories are picked, and only files with an extension of
\* the filter.
Listed(p) ==
  LET fs == w.fs
      r == Real(fs, p)
      dir == IsDir(fs, p)
  IN  /\ fs[p].hidden => w.opts.hidden
      /\ r # None
      /\ w.opts.mode = "dirs" => dir
      /\ dir \/ w.opts.exts = {} \/ fs[p].ext \in w.opts.exts

\* The names are those of the directory that is meant, the paths are below
\* the one that is shown.
Scan ==
  /\ At("scan") /\ Readable(w.fs, w.cur)
  /\ LET here == Real(w.fs, w.cur)
         names == {p \in DOMAIN w.fs : p # <<>> /\ Parent(p) = here}
     IN  w' = [w EXCEPT !.phase = "list",
                        !.entries = {[path |-> Append(w.cur, Last(p)), dir |-> IsDir(w.fs, p)] :
                                       p \in {q \in names : Listed(q)}}]

-----------------------------------------------------------------------------
(* The answer of ap_list.                                                  *)

\* B: up, or out.
Back == At("list") /\ w' = IF w.cur = w.root THEN Ends("cancelled") ELSE Up(w)

\* Mutant: the links of the entry are not followed.
Allowed_lexical(p) == Inside(p, w.root)

\* Where an entry leads to is looked up again when it is chosen.
Allowed(p) == Real(w.fs, p) # None /\ Inside(Real(w.fs, p), w.root)

\* A on a directory enters it, by its real path.
Enter(e) ==
  /\ At("list") /\ e \in w.entries /\ e.dir
  /\ w' = [w EXCEPT !.phase = "scan",
                    !.cur = IF Allowed(e.path) THEN Real(w.fs, e.path) ELSE @]

\* A on a file picks it, by the path that was listed.
PickFile(e) ==
  /\ At("list") /\ e \in w.entries /\ ~e.dir
  /\ w' = IF w.opts.mode \in {"files", "both"} /\ Allowed(e.path)
          THEN [Ends("ok") EXCEPT !.path = e.path, !.isDir = FALSE]
          ELSE [w EXCEPT !.phase = "scan"]

\* A on the line that says the directory is empty.
EmptyLine == At("list") /\ w.entries = {} /\ w' = [w EXCEPT !.phase = "scan"]

\* START picks the directory that is shown.
PickHere ==
  /\ At("list") /\ w.opts.mode \in {"dirs", "both"}
  /\ w' = [Ends("ok") EXCEPT !.path = w.cur, !.isDir = TRUE]

\* X: a new directory.  The name may be refused, and mkdir may fail.
NewDir(name) ==
  LET new == Append(w.cur, name)
      here == Real(w.fs, w.cur)
  IN  /\ At("list") /\ w.opts.create /\ w.opts.mode \in {"dirs", "both"}
      /\ Len(new) <= MaxDepth
      /\ w' = [w EXCEPT !.phase = "scan",
                 !.fs = IF name \in {"", ".", ".."} \/ here = None \/ Append(here, name) \in DOMAIN @
                        THEN @
                        ELSE [p \in DOMAIN @ \cup {Append(here, name)} |->
                                IF p \in DOMAIN @ THEN @[p]
                                ELSE [type |-> "dir", to |-> None, hidden |-> FALSE,
                                      ext |-> "", open |-> TRUE]]]

\* Something outside the picker removes a file or a directory with all that is
\* in it.  Bound: once.
Removed(p) ==
  /\ w.kind = "picker" /\ p \in DOMAIN w.fs /\ w.changes = 0
  /\ w' = [w EXCEPT !.changes = 1, !.fs = [q \in {r \in DOMAIN @ : ~Inside(r, p)} |-> @[q]]]

PickNext ==
  \/ ScanFails \/ Scan \/ Back \/ EmptyLine \/ PickHere
  \/ \E e \in (IF w.kind = "picker" THEN w.entries ELSE {}) : Enter(e) \/ PickFile(e)
  \/ \E name \in {NewName, ".."} : NewDir(name)
  \/ \E p \in DOMAIN Nodes : Removed(p)

-----------------------------------------------------------------------------
IsPicker == w.kind \in {"picker", "done"} /\ "entries" \in DOMAIN w

\* What the picker shows and what it returns never leaves the root, whatever
\* links, new directories and removals it met on the way; a file it returns
\* was one below the root, links followed, when it was chosen.
StaysInside ==
  IsPicker =>
    /\ Inside(w.cur, w.root)
    /\ IsDir(w.fs, w.cur) => Inside(Real(w.fs, w.cur), w.root)
    /\ w.result = "ok" /\ ~w.isDir => Inside(Real(w.fs, w.path), w.root)
=============================================================================
