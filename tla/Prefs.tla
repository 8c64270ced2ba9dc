------------------------------- MODULE Prefs -------------------------------
(***************************************************************************)
(* The preferences of games, folders and systems (zlyme_prefs.c): a file   *)
(* that several programs rewrite as a whole, each under an flock and by    *)
(* rename, and that each of them caches and checks with stat before every  *)
(* lookup.  zlyme-game-cleanup.sh removes the rows of deleted games from   *)
(* the same file.  Programs can be killed at any step.                     *)
(*                                                                         *)
(* A row is a key (kind, tag and path) and its value, 0 when the governor  *)
(* and the emulator are both empty.  The file's device, inode, times and   *)
(* size are one version number; version 0 is no file.                      *)
(***************************************************************************)
EXTENDS Integers, Sequences, FiniteSets, SequencesExt

CONSTANTS Clients,     \* programs that use zlyme_prefs.c
          Chain,       \* keys of a lookup: game, folders, system
          Values,      \* values that are set
          Orphans,     \* keys of games that are gone
          FirstRows,   \* contents of the file at the beginning
          PrefsMax,    \* PREFS_MAX
          MaxOps,      \* bound: operations begun
          MaxBad       \* bound: read and write errors and kills

VARIABLES file,    \* [ver, rows]
          lock,    \* who holds .zlyme-prefs.lock
          c,       \* the clients
          clean,   \* the cleanup
          ops, mishaps

prefVars == <<file, lock, c, clean, ops, mishaps>>

Keys == Range(Chain)
Row(k, v) == [key |-> k, val |-> v]
Find(rows, k) == {i \in 1 .. Len(rows) : rows[i].key = k}
Value(rows, k) == IF Find(rows, k) = {} THEN 0 ELSE rows[CHOOSE i \in Find(rows, k) : TRUE].val

ClientIdle == [at |-> "idle", op |-> "none", key |-> "none", val |-> 0, level |-> 1,
          rows |-> << >>, loaded |-> FALSE, over |-> FALSE, short |-> FALSE, noted |-> 0]
CleanIdle == [at |-> "idle", rows |-> << >>, cut |-> FALSE]

PrefInit ==
    /\ \E rows \in FirstRows : file = [ver |-> IF rows = << >> THEN 0 ELSE 1, rows |-> rows]
    /\ lock = "free"
    /\ c = [p \in Clients |-> ClientIdle]
    /\ clean = CleanIdle
    /\ ops = 0 /\ mishaps = 0

Begin == ops < MaxOps /\ ops' = ops + 1
Fails == mishaps < MaxBad /\ mishaps' = mishaps + 1
Go(p, at) == c' = [c EXCEPT ![p].at = at]

-----------------------------------------------------------------------------
(* Lookups: prefsLookup, a prefsGetExact and so a prefsEnsure per level.   *)

Lookup(p) ==
    /\ c[p].at = "idle"
    /\ Begin
    /\ c' = [c EXCEPT ![p].at = "stat", ![p].op = "get", ![p].level = 1]
    /\ UNCHANGED <<file, lock, clean, mishaps>>

\* prefsEnsure: the cache is good if stat gives what was noted.
Stat(p) ==
    /\ c[p].at = "stat"
    /\ Go(p, IF c[p].loaded /\ file.ver = c[p].noted THEN "answer" ELSE "open")
    /\ UNCHANGED <<file, lock, clean, ops, mishaps>>

\* prefsReload reads the file and then, with a stat of the path, notes what it
\* read.  A file that cannot be opened is taken for empty, and a read error for
\* its end (short, a history variable).
OpenFile(p) ==
    /\ c[p].at = "open"
    /\ \E n \in 0 .. Len(file.rows) :
         /\ \/ n = Len(file.rows) /\ UNCHANGED mishaps
            \/ n < Len(file.rows) /\ Fails
         /\ c' = [c EXCEPT ![p].at = "note", ![p].loaded = TRUE,
                           ![p].rows = SubSeq(file.rows, 1, IF n > PrefsMax THEN PrefsMax ELSE n),
                           ![p].over = n > PrefsMax, ![p].short = n < Len(file.rows)]
    /\ UNCHANGED <<file, lock, clean, ops>>
Note(p) ==
    /\ c[p].at = "note"
    /\ c' = [c EXCEPT ![p].noted = file.ver,
                      ![p].at = IF c[p].op = "get" THEN "answer" ELSE "change"]
    /\ UNCHANGED <<file, lock, clean, ops, mishaps>>

Answer(p) ==
    LET v == Value(c[p].rows, Chain[c[p].level])
        last == v # 0 \/ c[p].level = Len(Chain)
    IN /\ c[p].at = "answer"
       /\ c' = [c EXCEPT ![p].at = IF last THEN "idle" ELSE "stat",
                         ![p].level = IF last THEN 1 ELSE @ + 1]
       /\ UNCHANGED <<file, lock, clean, ops, mishaps>>

-----------------------------------------------------------------------------
(* prefsSet and prefsClear. *)

Change(p) ==
    /\ c[p].at = "idle"
    /\ Begin
    /\ \E k \in Keys, o \in {"set", "clear"}, v \in Values :
          c' = [c EXCEPT ![p].at = "lock", ![p].op = o, ![p].key = k,
                         ![p].val = IF o = "set" THEN v ELSE 0]
    /\ UNCHANGED <<file, lock, clean, mishaps>>

\* Mutant: a loaded cache is not read again under the lock.
Reloads_unloaded(p) == ~c[p].loaded
Reloads(p) == TRUE

Lock(p) ==
    /\ c[p].at = "lock" /\ lock = "free"
    /\ lock' = p
    /\ Go(p, IF Reloads(p) THEN "open" ELSE "change")
    /\ UNCHANGED <<file, clean, ops, mishaps>>

\* The rows with the change made; << >> in a set when there is nothing to save.
Edited(r) ==
    LET at == Find(r.rows, r.key) n == Len(r.rows)
        i == CHOOSE j \in at : TRUE
    IN CASE r.op = "set" /\ at # {} -> {[r.rows EXCEPT ![i].val = r.val]}
         [] r.op = "set" /\ at = {} /\ n < PrefsMax -> {Append(r.rows, Row(r.key, r.val))}
         [] r.op = "clear" /\ at # {} -> {SubSeq([r.rows EXCEPT ![i] = r.rows[n]], 1, n - 1)}
         [] OTHER -> {}

Unsaved(p) ==
    /\ c[p].at = "change" /\ Edited(c[p]) = {}
    /\ Go(p, "idle")
    /\ lock' = "free"
    /\ UNCHANGED <<file, clean, ops, mishaps>>

\* A file larger than the cache is left on disk.
Edit(p) ==
    /\ c[p].at = "change"
    /\ \E rows \in Edited(c[p]) :
          c' = [c EXCEPT ![p].rows = rows, ![p].at = IF c[p].over THEN "unlock" ELSE "write",
                         ![p].loaded = ~c[p].over]
    /\ UNCHANGED <<file, lock, clean, ops, mishaps>>

\* prefs_write up to the rename; an error leaves the file alone.
WriteFails(p) ==
    /\ c[p].at = "write"
    /\ Fails
    /\ c' = [c EXCEPT ![p].at = "unlock", ![p].loaded = FALSE]
    /\ UNCHANGED <<file, lock, clean, ops>>
Replaced(rows) == file' = [ver |-> file.ver + 1, rows |-> rows]
Rename(p) ==
    /\ c[p].at = "write"
    /\ Replaced(c[p].rows)
    /\ Go(p, "dirsync")
    /\ UNCHANGED <<lock, clean, ops, mishaps>>
DirSync(p) ==
    /\ c[p].at = "dirsync"
    /\ \/ Go(p, "noted") /\ UNCHANGED mishaps
       \/ Fails /\ c' = [c EXCEPT ![p].at = "unlock", ![p].loaded = FALSE]
    /\ UNCHANGED <<file, lock, clean, ops>>
NoteWritten(p) ==
    /\ c[p].at = "noted"
    /\ c' = [c EXCEPT ![p].noted = file.ver, ![p].at = "unlock"]
    /\ UNCHANGED <<file, lock, clean, ops, mishaps>>
Unlock(p) ==
    /\ c[p].at = "unlock"
    /\ lock' = "free"
    /\ Go(p, "idle")
    /\ UNCHANGED <<file, clean, ops, mishaps>>

\* The kernel drops the flock of a killed program.
KillClient(p) ==
    /\ c[p].at # "idle"
    /\ Fails
    /\ c' = [c EXCEPT ![p] = ClientIdle]
    /\ lock' = IF lock = p THEN "free" ELSE lock
    /\ UNCHANGED <<file, clean, ops>>

-----------------------------------------------------------------------------
(* zlyme-game-cleanup.sh orphan-prefs. *)
CleanHold ==
    /\ clean.at = "idle" /\ file.ver # 0 /\ lock = "free"
    /\ Begin
    /\ lock' = "cleanup"
    /\ clean' = [clean EXCEPT !.at = "filter"]
    /\ UNCHANGED <<file, c, mishaps>>
\* The rows at these places, in the order of the file: a set of one member.
RowsAt(rows, places) ==
    LET n == Cardinality(places)
        orders == {h \in [1 .. n -> places] : \A i, j \in 1 .. n : i < j => h[i] < h[j]}
    IN {[i \in 1 .. n |-> rows[h[i]]] : h \in {h \in orders : Range(h) = places}}
\* The rows of games that are still there are copied.  Nobody looks at whether
\* an append failed (cut, a history variable); a row cut in the middle is lost.
CleanFilter ==
    LET there == {i \in DOMAIN file.rows : file.rows[i].key \notin Orphans} IN
    /\ clean.at = "filter"
    /\ \E copied \in SUBSET there :
         /\ \/ copied = there /\ UNCHANGED mishaps
            \/ copied # there /\ Fails
         /\ \E rows \in RowsAt(file.rows, copied) :
              clean' = [at |-> IF there = DOMAIN file.rows THEN "release" ELSE "rewrite",
                        rows |-> rows, cut |-> copied # there]
    /\ UNCHANGED <<file, lock, c, ops>>
CleanRewrite ==
    /\ clean.at = "rewrite"
    /\ \/ Replaced(clean.rows) /\ UNCHANGED mishaps
       \/ Fails /\ UNCHANGED file
    /\ clean' = [clean EXCEPT !.at = "release"]
    /\ UNCHANGED <<lock, c, ops>>
CleanRelease ==
    /\ clean.at = "release"
    /\ lock' = "free"
    /\ clean' = CleanIdle
    /\ UNCHANGED <<file, c, ops, mishaps>>

Proceeds(p) ==
    \/ Stat(p) \/ OpenFile(p) \/ Note(p) \/ Answer(p)
    \/ Lock(p) \/ Unsaved(p) \/ Edit(p) \/ WriteFails(p) \/ Rename(p) \/ DirSync(p)
    \/ NoteWritten(p) \/ Unlock(p)
Cleans == CleanFilter \/ CleanRewrite \/ CleanRelease
PrefNext ==
    \/ \E p \in Clients : Lookup(p) \/ Change(p) \/ Proceeds(p) \/ KillClient(p)
    \/ CleanHold \/ Cleans
PrefSpec == PrefInit /\ [][PrefNext]_prefVars

-----------------------------------------------------------------------------
Same(keys, old, new) == \A k \in keys : Value(old, k) = Value(new, k)
\* Some rows are gone, and none has another value.
SomeGone(keys, old, new) == \A k \in keys : Value(new, k) \in {Value(old, k), 0}

\* Every replacement of the file changes the one row it is about, or rows of
\* games that are gone: no row that another program has set, and none that did
\* not fit into the cache, is lost by a program that began with an older copy
\* (prefsSet, prefsClear and the cleanup, under the lock).  Rows are lost only
\* by a writer that could not read the file to its end, or a cleanup that could
\* not copy it, under its lock; and also then none gets an older value back.
OneRowChanges ==
    \/ file' = file
    \/ \E k \in Keys :
          \/ Same(Keys \ {k}, file.rows, file'.rows)
          \/ /\ \E p \in Clients : lock = p /\ c[p].short
             /\ SomeGone(Keys \ {k}, file.rows, file'.rows)
    \/ /\ clean.at = "rewrite"
       /\ \/ Same(Keys \ Orphans, file.rows, file'.rows)
          \/ clean.cut /\ SomeGone(Keys, file.rows, file'.rows)
KeepsRows == [][OneRowChanges]_prefVars
=============================================================================
