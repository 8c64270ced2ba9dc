------------------------------ MODULE UsbJail ------------------------------
(***************************************************************************)
(* zlyme-usb-enter: confines the USB file transfer.  It leaves the mount   *)
(* namespace of its caller, binds the exported directories and the files   *)
(* the responder needs into a tmpfs, makes that the root and executes the  *)
(* responder there.  Meanwhile other programs replace directories on the   *)
(* way to an export by links and back.  Any step can fail, which ends the  *)
(* process and its namespace with it.                                      *)
(*                                                                         *)
(* A path is the sequence of its components.  A directory is named by the  *)
(* path it has when nothing is replaced.                                   *)
(***************************************************************************)
EXTENDS Integers, Sequences, FiniteSets, SequencesExt

CONSTANTS ExportLists,   \* contents of the exports file
          Conf, Ffs, Mqueue,   \* umtprd.conf, the FunctionFS mount, /dev/mqueue
          Progs,         \* ZLYME_USB_UMTPRD
          Exec,          \* files that are executed: [kind, interp, libs]
          Sensitive,     \* what require_absent names
          LinkTarget,    \* where a link that replaces a directory leads
          MaxExports, MaxBinds,
          MaxSwaps       \* bound: replacements

VARIABLES links,   \* directories that are replaced at present
          u,       \* the process
          mounts,  \* [at, dir]: what is mounted in its namespace
          caller,  \* mounts that reached the caller's namespace
          swaps

jailVars == <<links, u, mounts, caller, swaps>>

Dir(p, r) == [kind |-> "dir", path |-> p, restricted |-> r, depth |-> 0]
File(p) == [kind |-> "file", path |-> p, restricted |-> FALSE, depth |-> 0]
Prog(p, d) == [kind |-> "prog", path |-> p, restricted |-> FALSE, depth |-> d]
Waited == [kind |-> "wait", path |-> << >>, restricted |-> FALSE, depth |-> 0]

Forbidden(p) ==
    \/ p # << >> /\ Head(p) \in {"dev", "sys", "proc", "boot"}
    \/ Range(p) \cap {".config", ".update", ".logs"} # {}

JailInit ==
    /\ links = {}
    /\ \E x \in ExportLists, p \in Progs, s \in BOOLEAN :
          u = [at |-> "load", exports |-> x, prog |-> p, shared |-> s, todo |-> << >>,
               dir |-> << >>, rest |-> << >>, binds |-> {}, root |-> "caller", old |-> FALSE]
    /\ mounts = {} /\ caller = {}
    /\ swaps = 0

Swap(p) ==
    /\ swaps < MaxSwaps /\ swaps' = swaps + 1
    /\ links' = IF p \in links THEN links \ {p} ELSE links \cup {p}
    /\ UNCHANGED <<u, mounts, caller>>

\* die_msg and die_errno.
die ==
    /\ u' = [u EXCEPT !.at = "dead"]
    /\ mounts' = {}
    /\ UNCHANGED <<links, caller, swaps>>
Goes(at) == u' = [u EXCEPT !.at = at]
ProcessOnly == UNCHANGED <<links, mounts, caller, swaps>>

\* A mount in a tree that shares its mounts with the caller's is seen there too.
Mounted(at, dir) ==
    /\ mounts' = mounts \cup {[at |-> at, dir |-> dir]}
    /\ caller' = IF u.shared THEN caller \cup {at} ELSE caller
    /\ UNCHANGED <<links, swaps>>

-----------------------------------------------------------------------------
LoadExports ==
    /\ u.at = "load"
    /\ \/ die
       \/ /\ Len(u.exports) \in 1 .. MaxExports
          /\ Goes("unshare") /\ ProcessOnly

Unshare == u.at = "unshare" /\ (die \/ (Goes("private") /\ ProcessOnly))

MakePrivate ==
    /\ u.at = "private"
    /\ \/ die
       \/ u' = [u EXCEPT !.at = "tmpfs", !.shared = FALSE] /\ ProcessOnly

\* The tmpfs of the jail, and the list of what is bound into it.
Tmpfs ==
    /\ u.at = "tmpfs"
    /\ \/ die
       \/ /\ Mounted(<< >>, <<"tmpfs">>)
          /\ \E queue \in {<<Dir(Mqueue, FALSE)>>, << >>} :
                u' = [u EXCEPT !.at = "bind",
                       !.todo = [i \in DOMAIN u.exports |-> Dir(u.exports[i], TRUE)]
                                \o <<File(Conf), Dir(Ffs, FALSE)>> \o queue \o <<Prog(u.prog, 0)>>]

Item == Head(u.todo)
Then(more) == [u EXCEPT !.todo = more \o Tail(u.todo)]
Binding(kind) == u.at = "bind" /\ u.todo # << >> /\ Item.kind = kind

\* bind_directory: the lexical check, the walk and the mount.
StartWalk ==
    /\ Binding("dir")
    /\ \/ die
       \/ /\ Item.restricted => ~Forbidden(Item.path)
          /\ u' = [u EXCEPT !.at = "walk", !.dir = << >>, !.rest = Item.path]
          /\ ProcessOnly

\* Mutant: openat without O_NOFOLLOW.
Walk_follow ==
    LET next == Append(u.dir, Head(u.rest))
    IN /\ u.at = "walk" /\ u.rest # << >>
       /\ u' = [u EXCEPT !.dir = IF next \in links THEN LinkTarget ELSE next, !.rest = Tail(u.rest)]
       /\ ProcessOnly
Walk ==
    LET next == Append(u.dir, Head(u.rest))
    IN /\ u.at = "walk" /\ u.rest # << >>
       /\ \/ die
          \/ /\ next \notin links
             /\ u' = [u EXCEPT !.dir = next, !.rest = Tail(u.rest)]
             /\ ProcessOnly
Attach ==
    /\ u.at = "walk" /\ u.rest = << >>
    /\ \/ die
       \/ Mounted(Item.path, u.dir) /\ u' = [Then(<< >>) EXCEPT !.at = "bind"]

\* remember_and_bind and bind_file_at.
BindFile ==
    /\ Binding("file")
    /\ \/ die
       \/ Item.path \in u.binds /\ u' = Then(<< >>) /\ ProcessOnly
       \/ /\ Item.path \notin u.binds /\ Cardinality(u.binds) < MaxBinds
          /\ Mounted(Item.path, Item.path)
          /\ u' = [Then(<< >>) EXCEPT !.binds = @ \cup {Item.path}]

\* PT_INTERP of a program, and the paths its loader lists for it.
Interpreter(p) == File(Exec[p].interp)
Listed(p) == [i \in DOMAIN Exec[p].libs |-> File(Exec[p].libs[i])]

\* bind_program: a program, its interpreter and what the interpreter lists; a
\* script and the program that interprets it.
BindProgram ==
    LET e == Exec[Item.path]
    IN /\ Binding("prog")
       /\ \/ die
          \/ /\ e.kind = "static" /\ u' = Then(<<File(Item.path)>>) /\ ProcessOnly
          \/ /\ e.kind = "dynamic" /\ ProcessOnly
             /\ u' = Then(<<File(Item.path), Interpreter(Item.path)>> \o Listed(Item.path) \o <<Waited>>)
          \/ /\ e.kind = "script" /\ Item.depth = 0 /\ ProcessOnly
             /\ u' = Then(<<File(Item.path), Prog(e.interp, 1)>>)
\* The exit status of the loader that listed them.
LoaderWaited == Binding("wait") /\ (die \/ (u' = Then(<< >>) /\ ProcessOnly))

-----------------------------------------------------------------------------
PivotRoot ==
    /\ u.at = "bind" /\ u.todo = << >>
    /\ \/ die
       \/ u' = [u EXCEPT !.at = "detach", !.root = "jail", !.old = TRUE] /\ ProcessOnly
DetachOld ==
    /\ u.at = "detach"
    /\ \/ die
       \/ u' = [u EXCEPT !.at = "absent", !.old = FALSE] /\ ProcessOnly

\* A sensitive path is there if something is mounted on it or below it.
RequireAbsent ==
    /\ u.at = "absent"
    /\ \/ die
       \/ /\ ~u.old
          /\ \A m \in mounts : \A s \in Sensitive : ~IsPrefix(s, m.at)
          /\ Goes("exec") /\ ProcessOnly
Execute == u.at = "exec" /\ (die \/ (Goes("runs") /\ ProcessOnly))

JailNext ==
    \/ \E i \in DOMAIN u.exports : \E n \in DOMAIN u.exports[i] : Swap(SubSeq(u.exports[i], 1, n))
    \/ LoadExports \/ Unshare \/ MakePrivate \/ Tmpfs \/ StartWalk \/ Walk \/ Attach \/ BindFile
    \/ BindProgram \/ LoaderWaited \/ PivotRoot \/ DetachOld \/ RequireAbsent \/ Execute

JailSpec == JailInit /\ [][JailNext]_jailVars

-----------------------------------------------------------------------------
Needs(p) ==
    LET e == Exec[p] IN {p} \cup (IF e.kind = "dynamic" THEN {e.interp} \cup Range(e.libs) ELSE {})
Needed == Needs(u.prog) \cup IF Exec[u.prog].kind = "script" THEN Needs(Exec[u.prog].interp) ELSE {}

\* The responder runs confined and complete, whatever was replaced by a link while
\* the jail was made: each export shows the directory of its name and never one
\* that path_forbidden names, every file the program needs is there, the old root
\* is not, and no mount ever reaches the namespace of the caller.
Confined ==
    /\ caller = {}
    /\ u.at = "runs" =>
         /\ u.root = "jail" /\ ~u.old
         /\ \A m \in mounts : m.at # << >> => m.dir = m.at
         /\ \A i \in DOMAIN u.exports :
               \E m \in mounts : m.at = u.exports[i] /\ ~Forbidden(m.dir)
         /\ Needed \cup {Conf} \subseteq {m.at : m \in mounts}
=============================================================================
