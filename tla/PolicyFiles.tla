----------------------------- MODULE PolicyFiles -----------------------------
(***************************************************************************)
(* crates/mdok-curl, CurlPolicy: which files a transfer reads and writes.   *)
(*                                                                         *)
(* A request body is read from a file inside the allowed read roots, up to  *)
(* a limit, while the file may grow.  A response body or a cookie jar is    *)
(* written under an allowed artifact root: the destination is checked, its  *)
(* directory made, and checked again before a temporary file is put there   *)
(* and renamed.  Meanwhile another document makes directories and artifacts *)
(* of its own.                                                              *)
(*                                                                         *)
(* A path is the sequence of its names; the path of a real file or          *)
(* directory is its canonical one, and a link leads from a path to one.     *)
(* Devices, "." and ".." and Windows paths, refused by their form, are one  *)
(* name that no file has.                                                   *)
(***************************************************************************)
EXTENDS Integers, Sequences, SequencesExt, FiniteSets

CONSTANTS Names,        \* names of files and directories
          MaxDepth,     \* bound: names of a path
          Trees,        \* the directories, files and links considered at the start
          RootSets,     \* the allowed roots considered, paths as configured
          MaxBytes,     \* CurlPolicy::max_body_bytes
          MaxPiece,     \* most bytes of one read
          MaxGrowth,    \* bound: length of a growing file
          MaxOthers     \* bound: what the other document makes

Unsafe == "unsafe"
Paths == UNION {[1..n -> Names \cup {Unsafe}] : n \in 0..MaxDepth}

VARIABLES
    op,         \* "read", "body" or "cookies"
    roots,      \* the allowed roots of the operation
    allowed,    \* allow_file_reads or allow_artifact_writes
    path,       \* the file to read or to write
    dirs,       \* canonical paths of directories
    files,      \* canonical paths of files
    links,      \* symbolic links: path -> canonical path
    length,     \* length of the file that is read
    pc,
    bytes,      \* bytes read so far
    parent,     \* canonical parent of the temporary file
    written,    \* history: the canonical path this operation wrote, whether something
                \* was there, and where the roots were then
    result,
    others      \* directories and artifacts the other document made

tree == <<dirs, files, links>>
vars == <<op, roots, allowed, path, tree, length, pc, bytes, parent, written, result,
          others>>

-----------------------------------------------------------------------------
(* The file system, external.                                                *)
Missing == <<"missing">>
Exists(p) == p \in dirs \cup files
EntryAt(p) == Exists(p) \/ p \in DOMAIN links       \* symlink_metadata finds it
Follow(p) == IF p \in DOMAIN links THEN links[p] ELSE p

(* fs::canonicalize: the real path, or Missing.                              *)
Enter(dir, name) ==
    IF dir \notin dirs THEN Missing
    ELSE LET p == Follow(Append(dir, name)) IN IF Exists(p) THEN p ELSE Missing
Canonicalize(p) ==
    LET walk[i \in 0..Len(p)] == IF i = 0 THEN <<>> ELSE Enter(walk[i - 1], p[i])
    IN  walk[Len(p)]

(* Where the entry a path names is, its directory resolved, itself not.      *)
Place(p) ==
    LET dir == Canonicalize(Front(p)) IN IF dir \in dirs THEN Append(dir, Last(p)) ELSE Missing
IsLink(p) == Place(p) \in DOMAIN links

Components(p) == Prefixes(p) \ {<<>>}

-----------------------------------------------------------------------------
Init ==
    /\ op \in {"read", "body", "cookies"} /\ allowed \in BOOLEAN
    /\ roots \in RootSets /\ path \in Paths \ {<<>>}
    /\ \E t \in Trees : dirs = t.dirs /\ files = t.files /\ links = t.links
    /\ length = 1 /\ pc = "check" /\ bytes = 0 /\ parent = Missing /\ written = {}
    /\ result = "none" /\ others = 0

Return(answer) == pc' = "returned" /\ result' = answer
GoTo(label) == pc' = label /\ UNCHANGED result

(* CurlPolicy::canonical_read_path.  No roots means any place.               *)
ReadAllowed ==
    /\ Unsafe \notin Range(path) /\ allowed
    /\ Canonicalize(path) # Missing
    /\ \/ roots = {}
       \/ \E r \in roots : Canonicalize(r) # Missing /\ IsPrefix(Canonicalize(r), Canonicalize(path))

(* canonical_artifact_parent: the real path of the deepest directory that    *)
(* exists, and the names still to be made.  A file, or a link to no          *)
(* directory, on the way is an error.                                        *)
ParentPath == Front(path)
CanonicalArtifactParent ==
    LET reached == {p \in Prefixes(ParentPath) : Canonicalize(p) \in dirs}
        existing == CHOOSE p \in reached : \A q \in reached : Len(q) <= Len(p)
        blocked == \E p \in Components(ParentPath) :
                      Place(p) # Missing /\ EntryAt(Place(p)) /\ Canonicalize(p) \notin dirs
    IN  IF blocked THEN Missing
        ELSE Canonicalize(existing) \o SubSeq(ParentPath, Len(existing) + 1, Len(ParentPath))

(* reject_unsafe_artifact_symlink_parents: a link may only be a configured   *)
(* root or lie above one.                                                    *)
NoLinkBelowRoot ==
    \A p \in Components(ParentPath) : IsLink(p) => \E r \in roots : IsPrefix(p, r)

(* Mutant of Confined: the parent as written, not as resolved.               *)
LexicallyConfined == \E r \in roots : IsPrefix(<<Head(r)>>, path)

Confined ==
    \E r \in roots : Canonicalize(r) # Missing /\ IsPrefix(Canonicalize(r), CanonicalArtifactParent)

CheckArtifact ==
    /\ allowed /\ Unsafe \notin Range(path)
    /\ roots # {} /\ CanonicalArtifactParent # Missing /\ Confined /\ NoLinkBelowRoot

Check ==
    /\ pc = "check"
    /\ IF op = "read"
         THEN IF ReadAllowed THEN GoTo("open") ELSE Return("denied")
         ELSE IF CheckArtifact THEN GoTo("mkdir") ELSE Return("denied")
    /\ UNCHANGED <<op, roots, allowed, path, tree, length, bytes, parent, written, others>>

-----------------------------------------------------------------------------
(* read_file_limited.                                                        *)
Open ==
    /\ pc = "open"
    /\ IF Canonicalize(path) \notin files THEN Return("denied")
       ELSE IF length > MaxBytes THEN Return("limit")
       ELSE GoTo("reading")
    /\ UNCHANGED <<op, roots, allowed, path, tree, length, bytes, parent, written, others>>

Grow ==
    /\ pc \in {"open", "reading"} /\ length < MaxGrowth
    /\ length' = length + 1
    /\ UNCHANGED <<op, roots, allowed, path, tree, pc, bytes, parent, written, result, others>>

(* At the limit one more byte is asked for, to tell a full file from a       *)
(* longer one.                                                               *)
ReadPiece ==
    /\ pc = "reading"
    /\ \/ bytes = length /\ Return("ok") /\ UNCHANGED bytes
       \/ bytes < length /\ bytes = MaxBytes /\ Return("limit") /\ UNCHANGED bytes
       \/ \E n \in 1..MaxPiece :
             /\ bytes + n <= length /\ bytes + n <= MaxBytes
             /\ bytes' = bytes + n /\ GoTo("reading")
    /\ UNCHANGED <<op, roots, allowed, path, tree, length, parent, written, others>>

-----------------------------------------------------------------------------
(* fs::create_dir_all, then the destination must not exist for a body.       *)
MakeDirs ==
    /\ pc = "mkdir"
    /\ IF CanonicalArtifactParent = Missing
         THEN Return("denied") /\ UNCHANGED dirs
         ELSE dirs' = dirs \cup Prefixes(CanonicalArtifactParent) /\ GoTo("look")
    /\ UNCHANGED <<op, roots, allowed, path, files, links, length, bytes, parent, written, others>>

Look ==
    /\ pc = "look"
    /\ IF op = "body" /\ EntryAt(Place(path)) THEN Return("denied") ELSE GoTo("recheck")
    /\ UNCHANGED <<op, roots, allowed, path, tree, length, bytes, parent, written, others>>

(* checked_artifact_parent, the temporary file and the copy.                 *)
Recheck ==
    /\ pc = "recheck"
    /\ IF CheckArtifact
         THEN parent' = CanonicalArtifactParent /\ GoTo("persist")
         ELSE Return("denied") /\ UNCHANGED parent
    /\ UNCHANGED <<op, roots, allowed, path, tree, length, bytes, written, others>>

(* persist_noclobber for a body; persist, which replaces, for cookies.  The  *)
(* rename is to the destination as given.                                    *)
Persist ==
    /\ pc = "persist"
    /\ LET place == Place(path)
       IN IF place = Missing \/ place \in dirs \/ (op = "body" /\ EntryAt(place))
            THEN Return("denied") /\ UNCHANGED <<files, links, written>>
            ELSE /\ files' = files \cup {place}
                 /\ links' = [p \in DOMAIN links \ {place} |-> links[p]]
                 /\ written' = {[at |-> place, over |-> EntryAt(place),
                                under |-> {Canonicalize(r) : r \in roots}]}
                 /\ Return("ok")
    /\ UNCHANGED <<op, roots, allowed, path, dirs, length, bytes, parent, others>>

(* Another document makes a directory or an artifact, where nothing is.      *)
OtherMakes ==
    /\ op # "read" /\ pc # "returned"
    /\ others < MaxOthers /\ others' = others + 1
    /\ \E d \in dirs, n \in Names :
          LET p == Append(d, n)
          IN  /\ Len(p) <= MaxDepth /\ ~EntryAt(p)
              /\ \/ dirs' = dirs \cup {p} /\ UNCHANGED files
                 \/ files' = files \cup {p} /\ UNCHANGED dirs
    /\ UNCHANGED <<op, roots, allowed, path, links, length, pc, bytes, parent, written, result>>

Done == pc = "returned" /\ UNCHANGED vars

Next ==
    \/ Check \/ Open \/ Grow \/ ReadPiece \/ MakeDirs \/ Look \/ Recheck \/ Persist \/ OtherMakes
    \/ Done

Spec == Init /\ [][Next]_vars

-----------------------------------------------------------------------------
TypeOK ==
    /\ op \in {"read", "body", "cookies"} /\ path \in Paths
    /\ dirs \subseteq Paths /\ files \subseteq Paths /\ DOMAIN links \subseteq Paths
    /\ pc \in {"check", "open", "reading", "mkdir", "look", "recheck", "persist", "returned"}
    /\ length \in 1..MaxGrowth /\ bytes \in 0..MaxBytes

(* Whatever links are on the way and whatever another document makes in the  *)
(* meantime: a file is only written in a real directory under the place a    *)
(* root of the policy has at that time (a cookie jar may take the place of a *)
(* link that a root goes through), the temporary file was made in that       *)
(* directory, and a response body never takes the place of anything; a body  *)
(* read from a file that grows is complete and within the limit, or refused. *)
(* (check_artifact, promote_to_artifact, write_cookie_artifact,              *)
(* read_file_limited)                                                        *)
FilesConfined ==
    /\ \A w \in written :
         /\ \E root \in w.under : root \in dirs /\ IsPrefix(root, Front(w.at))
         /\ Front(w.at) = parent
         /\ w.over => op = "cookies"
    /\ op = "read" /\ result = "ok" =>
         /\ bytes = length /\ bytes <= MaxBytes
         /\ \/ roots = {}
            \/ \E r \in roots : IsPrefix(Canonicalize(r), Canonicalize(path))
=============================================================================
