----------------------------- MODULE GatewayFiles -----------------------------
(***************************************************************************)
(* The static files of startup_gateway.rs: the inventory binds every file  *)
(* of the frontend to the identities of its directories and of itself, and *)
(* a request opens the file again, directory by directory without          *)
(* following links, and serves it only when nothing has changed.           *)
(* Another program changes the frontend between any two openings.          *)
(* One file in one directory below the root stands for all of them.  The   *)
(* handles Windows holds forbid some of these changes; Unix forbids none.  *)
(***************************************************************************)
EXTENDS Naturals

CONSTANT MaxChanges     \* changes another program makes

\* Directories and files by identity; a link is not an identity that can be opened.
Roots == {"root", "otherRoot"}
Dirs == {"dir", "otherDir"}
Files == {"file", "otherFile"}
None == "none"

VARIABLES
    rootAt, dirAt, fileAt, length,  \* what the names lead to, and the length of the file
    changes,
    inventory, binding,             \* the walk, and what it bound
    server, opened,                 \* reopen_bound_static_file, and what it holds
    served                          \* the body that is streamed

diskVars == <<rootAt, dirAt, fileAt, length, changes>>
vars == <<diskVars, inventory, binding, server, opened, served>>

Nothing == [root |-> None, dir |-> None, file |-> None, length |-> 0]
TypeOK ==
    /\ rootAt \in Roots \cup {"link"} /\ changes \in 0..MaxChanges
    /\ dirAt \in [Roots -> Dirs \cup {"link"}] /\ fileAt \in [Dirs -> Files \cup {"link"}]
    /\ length \in [Files -> 0..1]
    /\ inventory \in {"root", "parents", "file", "bound", "failed"}
    /\ server \in {"idle", "root", "parents", "file", "compare", "refused", "sent"}

Init ==
    /\ rootAt = "root" /\ dirAt = [r \in Roots |-> IF r = "root" THEN "dir" ELSE "otherDir"]
    /\ fileAt = [d \in Dirs |-> IF d = "dir" THEN "file" ELSE "otherFile"]
    /\ length = [f \in Files |-> 0] /\ changes = 0
    /\ inventory = "root" /\ binding = Nothing
    /\ server = "idle" /\ opened = Nothing /\ served = Nothing

\* Another program renames, links and rewrites.
DiskChanges ==
    /\ changes < MaxChanges /\ changes' = changes + 1
    /\ \/ rootAt' \in (Roots \cup {"link"}) \ {rootAt} /\ UNCHANGED <<dirAt, fileAt, length>>
       \/ \E r \in Roots, d \in Dirs \cup {"link"} : dirAt' = [dirAt EXCEPT ![r] = d]
          /\ UNCHANGED <<rootAt, fileAt, length>>
       \/ \E d \in Dirs, f \in Files \cup {"link"} : fileAt' = [fileAt EXCEPT ![d] = f]
          /\ UNCHANGED <<rootAt, dirAt, length>>
       \/ \E f \in Files : length' = [length EXCEPT ![f] = 1 - @]
          /\ UNCHANGED <<rootAt, dirAt, fileAt>>
    /\ UNCHANGED <<inventory, binding, server, opened, served>>
-----------------------------------------------------------------------------
\* platform_open_static_file: each opening starts from the directory that is held.
OpensRoot(h) == [h EXCEPT !.root = rootAt]
OpensDir(h) == [h EXCEPT !.dir = dirAt[h.root]]
OpensFile(h) == [h EXCEPT !.file = fileAt[h.dir],
                          !.length = IF fileAt[h.dir] = "link" THEN 0 ELSE length[fileAt[h.dir]]]

\* capture_bound_static_file, for a file the walk has come to.
Walks(pc, field, h, next) ==
    /\ inventory = pc /\ binding' = h
    /\ inventory' = IF h[field] = "link" THEN "failed" ELSE next
    /\ UNCHANGED <<diskVars, server, opened, served>>

\* The identity of the root was taken when the walk began.
InventoryStep ==
    \/ Walks("root", "root", OpensRoot(binding), "parents")
    \/ inventory = "parents" /\ rootAt # binding.root /\ inventory' = "failed"
       /\ UNCHANGED <<diskVars, binding, server, opened, served>>
    \/ rootAt = binding.root /\ Walks("parents", "dir", OpensDir(binding), "file")
    \/ Walks("file", "file", OpensFile(binding), "bound")

\* static_asset
Reopens(pc, field, h, next) ==
    /\ server = pc /\ opened' = h
    /\ server' = IF h[field] = "link" THEN "refused" ELSE next
    /\ UNCHANGED <<diskVars, inventory, binding, served>>

Requested ==
    /\ inventory = "bound" /\ server = "idle" /\ server' = "root"
    /\ UNCHANGED <<diskVars, inventory, binding, opened, served>>

\* reopen_bound_static_file compares every identity and the length.
IsBound(h) ==
    /\ h.root = binding.root /\ h.dir = binding.dir
    /\ h.file = binding.file /\ h.length = binding.length

Compares ==
    /\ server = "compare"
    /\ server' = IF IsBound(opened) THEN "sent" ELSE "refused"
    /\ served' = IF IsBound(opened) THEN opened ELSE served
    /\ UNCHANGED <<diskVars, inventory, binding, opened>>

ServeStep ==
    \/ Reopens("root", "root", OpensRoot(opened), "parents")
    \/ Reopens("parents", "dir", OpensDir(opened), "file")
    \/ Reopens("file", "file", OpensFile(opened), "compare")
    \/ Compares

NextRequest ==
    /\ server \in {"sent", "refused"} /\ server' = "idle" /\ opened' = Nothing
    /\ UNCHANGED <<diskVars, inventory, binding, served>>

Next == DiskChanges \/ InventoryStep \/ Requested \/ ServeStep \/ NextRequest
Spec == Init /\ [][Next]_vars
-----------------------------------------------------------------------------
\* A body comes from the file of the inventory, found through the directories of the
\* inventory, although names are moved between any two openings; it is cut at the length
\* that was announced.
ServedIsBound ==
    /\ served # Nothing => served = binding
    /\ inventory = "bound" => {binding.root, binding.dir, binding.file} \cap {"link", None} = {}
=============================================================================
