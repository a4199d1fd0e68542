---------------------------- MODULE PluginInstall ----------------------------
(***************************************************************************)
(* install_plugin_archive of download.rs: the archive of a plugin is       *)
(* unpacked into a directory of its own, copied beside the plugin's        *)
(* target and renamed into its place, the older version being set aside    *)
(* meanwhile.  The directory of the copy is named by the plugin alone, so  *)
(* that two installations of one plugin share it.  Every file operation    *)
(* may fail, and some whose result nobody looks at: emptying that          *)
(* directory, putting the older version back, removing what is left over.  *)
(***************************************************************************)
EXTENDS Naturals, FiniteSets

CONSTANTS Install, File     \* installations of one plugin, and the files of their archives

VARIABLES
    archive,        \* the entries of each archive: names with their kinds
    pc,
    left,           \* of these, what is still to be unpacked, then to be copied
    unpacked,       \* what the installation's own directory holds
    copy,           \* the shared directory: files of installations, or "none"
    target, backup, \* the target: such a set, "older" or "none"; what each one set aside
    outside,        \* history: something was written outside the directories
    overlapped,     \* history: two installations used the shared directory at once
    held,           \* history: a version has been in the target
    dirty,          \* history: installations that could not empty the shared directory
    stranded        \* history: those that could not put back what they set aside

historyVars == <<outside, overlapped, held, dirty, stranded>>
vars == <<archive, pc, left, unpacked, copy, target, backup, historyVars>>

Kinds == {"file", "link", "unsafe"}
Piece == Install \X File
None == {<<"none", "none">>}  Older == {<<"older", "older">>}
Tree == (SUBSET Piece) \cup {None, Older}

TypeOK ==
    /\ {archive, left} \subseteq [Install -> SUBSET (File \X Kinds)]
    /\ pc \in [Install -> {"none", "unpack", "clear", "copy", "aside", "rename", "settle", "ok", "error"}]
    /\ unpacked \in [Install -> SUBSET File]
    /\ copy \in Tree /\ target \in Tree /\ backup \in [Install -> Tree]
    /\ {outside, overlapped, held} \subseteq BOOLEAN /\ {dirty, stranded} \subseteq SUBSET Install

Files(i) == {f \in File : <<f, "file">> \in archive[i]}
Whole(i) == {<<i, f>> : f \in Files(i)}

\* The archives hold files, or one entry that is none.
Init ==
    /\ archive \in [Install -> {{<<f, "file">> : f \in s} : s \in SUBSET File \ {{}}} \cup
                               {{<<f, k>>} : f \in File, k \in Kinds \ {"file"}}]
    /\ pc = [i \in Install |-> "none"] /\ left = archive /\ unpacked = [i \in Install |-> {}]
    /\ copy = None /\ target \in {None, Older} /\ backup = [i \in Install |-> None]
    /\ outside = FALSE /\ overlapped = FALSE /\ held = (target = Older)
    /\ dirty = {} /\ stranded = {}

Goes(i, p) == pc' = [pc EXCEPT ![i] = p]
Sharing(i) == \E j \in Install \ {i} : pc[j] \in {"copy", "aside", "rename"}

\* What remove_dir_all may leave of a directory: nobody looks whether it failed.
Remains(d) == {None} \cup (IF d = None THEN {} ELSE SUBSET d)
LeavesStaging(i) == \E u \in SUBSET unpacked[i] : unpacked' = [unpacked EXCEPT ![i] = u]

\* create_dir_all
Made(d) == IF d = None THEN {} ELSE d
-----------------------------------------------------------------------------
Starts(i) ==
    /\ pc[i] = "none" /\ Goes(i, "unpack")
    /\ UNCHANGED <<archive, left, unpacked, copy, target, backup, historyVars>>

MayJoin(e) == e[2] # "unsafe"

\* extract_zip_archive, extract_tar_gz_archive: safe_join takes only plain segments, links are
\* left out, and an unsafe path ends it.
Unpacks(i, e) ==
    /\ pc[i] = "unpack" /\ e \in left[i]
    /\ left' = [left EXCEPT ![i] = @ \ {e}]
    /\ IF MayJoin(e)
       THEN /\ unpacked' = [unpacked EXCEPT ![i] = IF e[2] = "file" THEN @ \cup {e[1]} ELSE @]
            /\ outside' = (outside \/ e[2] = "unsafe") /\ UNCHANGED pc
       ELSE Goes(i, "error") /\ LeavesStaging(i) /\ UNCHANGED outside
    /\ UNCHANGED <<archive, copy, target, backup, overlapped, held, dirty, stranded>>

\* find_plugin_roots and read_plugin_id: an archive without a plugin is refused.
Unpacked(i) ==
    /\ pc[i] = "unpack" /\ left[i] = {} /\ unpacked[i] # {} /\ Goes(i, "clear")
    /\ UNCHANGED <<archive, left, unpacked, copy, target, backup, historyVars>>

Refuses(i) ==
    /\ pc[i] \in {"unpack", "clear"} /\ Goes(i, "error") /\ LeavesStaging(i)
    /\ UNCHANGED <<archive, left, copy, target, backup, historyVars>>

\* install_plugin_root: what could not be removed stays among the files that are copied.
Clears(i) ==
    /\ pc[i] = "clear" /\ Goes(i, "copy")
    /\ copy' \in {Made(d) : d \in Remains(copy)}
    /\ left' = [left EXCEPT ![i] = {<<f, "file">> : f \in unpacked[i]}]
    /\ overlapped' = (overlapped \/ Sharing(i))
    /\ dirty' = IF copy' = {} THEN dirty ELSE dirty \cup {i}
    /\ UNCHANGED <<archive, unpacked, target, backup, outside, held, stranded>>

\* copy_dir_recursive, file by file, over what is there.  When somebody has taken its directory
\* away it fails, or makes it again on its way down.
Copies(i, f) ==
    /\ pc[i] = "copy" /\ <<f, "file">> \in left[i]
    /\ left' = [left EXCEPT ![i] = @ \ {<<f, "file">>}]
    /\ copy' = {p \in Made(copy) : p[2] # f} \cup {<<i, f>>}
    /\ UNCHANGED <<archive, pc, unpacked, target, backup, historyVars>>

CopyFails(i) ==
    /\ pc[i] = "copy" /\ Goes(i, "error")
    /\ UNCHANGED <<archive, left, unpacked, copy, target, backup, historyVars>>

CopiedSome(i) == Cardinality(left[i]) < Cardinality(unpacked[i])
CopiedAll(i) == left[i] = {}

Copied(i) ==
    /\ pc[i] = "copy" /\ CopiedAll(i) /\ Goes(i, "aside")
    /\ UNCHANGED <<archive, left, unpacked, copy, target, backup, historyVars>>

SetsAside(i) ==
    /\ pc[i] = "aside"
    /\ IF target = None THEN Goes(i, "rename") /\ UNCHANGED <<target, backup>>
       ELSE \/ backup' = [backup EXCEPT ![i] = target] /\ target' = None /\ Goes(i, "rename")
            \/ Goes(i, "error") /\ UNCHANGED <<target, backup>>
    /\ UNCHANGED <<archive, left, unpacked, copy, historyVars>>

\* A directory may be renamed to a name nobody has, or one of an empty directory.
Vacant == target \in {None, {}}

\* Whether putting back succeeded is not looked at: the target may stay without a version.
PutsBack(i) ==
    \/ backup[i] = None /\ UNCHANGED <<target, backup, stranded>>
    \/ /\ backup[i] # None /\ Vacant /\ UNCHANGED stranded
       /\ target' = backup[i] /\ backup' = [backup EXCEPT ![i] = None]
    \/ backup[i] # None /\ stranded' = stranded \cup {i} /\ UNCHANGED <<target, backup>>

\* The rename fails, too, when the copy is gone or the target is there again.
Renames(i) ==
    /\ pc[i] = "rename"
    /\ \/ /\ copy # None /\ Vacant /\ target' = copy /\ copy' = None /\ held' = TRUE
          /\ Goes(i, "settle") /\ UNCHANGED <<backup, stranded>>
       \/ PutsBack(i) /\ copy' \in Remains(copy) /\ Goes(i, "error") /\ UNCHANGED held
    /\ UNCHANGED <<archive, left, unpacked, outside, overlapped, dirty>>

\* What was set aside goes last, then the staging directory: or all that could be removed.
Settles(i) ==
    /\ pc[i] = "settle" /\ Goes(i, "ok") /\ LeavesStaging(i)
    /\ backup' \in {backup, [backup EXCEPT ![i] = None]}
    /\ UNCHANGED <<archive, left, copy, target, historyVars>>

Step(i) ==
    \/ Unpacked(i) \/ Refuses(i) \/ Clears(i) \/ CopyFails(i) \/ Copied(i) \/ SetsAside(i)
    \/ Renames(i) \/ Settles(i)
    \/ \E f \in File : Copies(i, f)
    \/ \E e \in File \X Kinds : Unpacks(i, e)

Next == \E i \in Install : Starts(i) \/ Step(i)
Spec == Init /\ [][Next]_vars
-----------------------------------------------------------------------------
\* The version from before, or all of one archive; more than it only where the shared
\* directory could not be emptied.
Version(t) ==
    \/ t = Older
    \/ \E i \in Install :
         Files(i) # {} /\ Whole(i) \subseteq t /\ (t = Whole(i) \/ i \in dirty)

\* Nothing is written outside the directories of the installation.  As long as installations
\* of one plugin do not overlap, its target holds a version or nothing, and once it held one
\* it is without only while an installation, or one that could not put it back, has it aside.
PluginsAreWhole ==
    /\ ~outside
    /\ ~overlapped =>
         /\ target = None \/ Version(target)
         /\ held /\ target = None => \E i \in Install :
              backup[i] # None /\ Version(backup[i]) /\ (pc[i] = "rename" \/ i \in stranded)
=============================================================================
