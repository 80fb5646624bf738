------------------------------ MODULE Discovery ------------------------------
(***************************************************************************)
(* crates/mdok-cli, discover_paths: from the arguments of a command to the  *)
(* list of documents.                                                       *)
(*                                                                         *)
(* A file given is taken as it is.  A directory is walked, in whatever      *)
(* order the file system lists it; directories are pruned by name and by    *)
(* the .gitignore files between the argument and them, documents are        *)
(* filtered by the same rules and by their ancestors, and what is found is  *)
(* sorted.  A path found twice is listed once; paths are compared as they    *)
(* are spelled, and a walk spells what it finds like its argument.           *)
(*                                                                         *)
(* A path is the sequence of the names it is spelled with, so that ./d/x     *)
(* and d/x are two paths: <<".", "d", "x">> and <<"d", "x">>.  Of a glob the *)
(* model keeps the segments: a name, "*" for any one name, "**" for any      *)
(* number of them.                                                           *)
(***************************************************************************)
EXTENDS Integers, Sequences, SequencesExt, FiniteSets

CONSTANTS Files,        \* the regular files, in each spelling considered, in path order
          Markdown,     \* names that end in .md
          Pruned,       \* directory names that are never walked: hidden, target, vendor...
          Inputs,       \* the arguments considered, sequences of paths
          IgnoreFiles   \* the .gitignore files considered: directory, in each spelling -> rules

Rule(negated, directoryOnly, pattern) ==
    [negated |-> negated, directory_only |-> directoryOnly, pattern |-> pattern]

Dirs == UNION {Prefixes(f) \ {f} : f \in Range(Files)}
Parent(p) == Front(p)
Below(root, p) == IsStrictPrefix(root, p)

VARIABLES
    inputs,     \* arguments still to be looked at
    ignore,     \* directory -> rules of its .gitignore
    given,      \* all arguments
    todo,       \* the walk: entries to visit
    found,      \* discovered: documents of this walk
    paths,      \* the documents so far, as spelled
    pc

vars == <<inputs, ignore, given, todo, found, paths, pc>>

(* glob_match, by pattern and value positions.  "**" followed by more of the *)
(* pattern takes any number of names; the last one takes all that is left.   *)
GlobMatch(pattern, value) ==
    LET n == Len(pattern)
        m == Len(value)
        matches[i \in 1..(n + 1), j \in 1..(m + 1)] ==
            IF i > n THEN j > m
            ELSE IF pattern[i] # "**"
              THEN j <= m /\ pattern[i] \in {"*", value[j]} /\ matches[i + 1, j + 1]
            ELSE IF i = n THEN j <= m
            ELSE \E k \in j..m : matches[i + 1, k]
    IN  matches[1, 1]

GitignoreRuleMatches(rule, relative, isDirectory) ==
    /\ rule.directory_only => isDirectory
    /\ IF Len(rule.pattern) > 1 THEN GlobMatch(rule.pattern, relative)
       ELSE \E i \in DOMAIN relative : GlobMatch(rule.pattern, <<relative[i]>>)

(* ignored_path_state: of the rules in the .gitignore files from the root of *)
(* the walk down to the entry, the last one that matches decides.            *)
IgnoredPathState(path, root, isDirectory) ==
    LET hits == UNION {{<<n, r>> : r \in
                    {k \in DOMAIN ignore[SubSeq(path, 1, n)] :
                        GitignoreRuleMatches(ignore[SubSeq(path, 1, n)][k],
                                             SubSeq(path, n + 1, Len(path)), isDirectory)}}
                    : n \in Len(root)..(Len(path) - 1)}
        last == CHOOSE h \in hits :
                    \A g \in hits : g[1] < h[1] \/ (g[1] = h[1] /\ g[2] <= h[2])
    IN  hits # {} /\ ~ignore[SubSeq(path, 1, last[1])][last[2]].negated

Ancestors(path, root) == {SubSeq(path, 1, n) : n \in (Len(root) + 1)..(Len(path) - 1)}

(* Mutant of IgnoredByGitignore: the ancestors are left to the walk.         *)
IgnoredItself(path, root) == IgnoredPathState(path, root, FALSE)

IgnoredByGitignore(path, root) ==
    \/ \E d \in Ancestors(path, root) : IgnoredPathState(d, root, TRUE)
    \/ IgnoredPathState(path, root, FALSE)

Init ==
    /\ given \in Inputs /\ inputs = given /\ ignore \in IgnoreFiles
    /\ todo = {} /\ found = {} /\ paths = <<>> /\ pc = "input"

AddPath(list, path) == IF path \in Range(list) THEN list ELSE Append(list, path)
AddPaths(list, set) ==
    LET added[i \in 0..Len(Files)] ==
            IF i = 0 THEN list
            ELSE IF Files[i] \in set THEN AddPath(added[i - 1], Files[i]) ELSE added[i - 1]
    IN  added[Len(Files)]

(* The next argument: a file, a directory to walk, or neither.               *)
TakeInput ==
    /\ pc = "input" /\ inputs # <<>>
    /\ LET input == Head(inputs)
       IN \/ /\ input \in Range(Files)
             /\ paths' = AddPath(paths, input) /\ inputs' = Tail(inputs)
             /\ UNCHANGED <<todo, pc>>
          \/ /\ input \in Dirs
             /\ todo' = {e \in Dirs \cup Range(Files) : e # <<>> /\ Parent(e) = input}
             /\ pc' = "walk" /\ UNCHANGED <<paths, inputs>>
          \/ /\ input \notin Range(Files) \cup Dirs
             /\ pc' = "failed" /\ UNCHANGED <<todo, paths, inputs>>
    /\ UNCHANGED <<ignore, given, found>>

(* WalkDir lists an entry: the closure of filter_entry and the loop body.    *)
Visit ==
    /\ pc = "walk"
    /\ \E e \in todo :
          LET root == Head(inputs)
              kept == ~IgnoredByGitignore(e, root)
          IN IF e \in Dirs
               THEN /\ todo' = (todo \ {e}) \cup
                         (IF kept /\ Last(e) \notin Pruned
                            THEN {c \in Dirs \cup Range(Files) : c # <<>> /\ Parent(c) = e}
                            ELSE {})
                    /\ UNCHANGED found
               ELSE /\ todo' = todo \ {e}
                    /\ found' = IF kept /\ Last(e) \in Markdown THEN found \cup {e} ELSE found
    /\ UNCHANGED <<inputs, ignore, given, paths, pc>>

(* The walk is over: what it found is sorted and added.                      *)
EndWalk ==
    /\ pc = "walk" /\ todo = {}
    /\ paths' = AddPaths(paths, found)
    /\ found' = {} /\ inputs' = Tail(inputs) /\ pc' = "input"
    /\ UNCHANGED <<ignore, given, todo>>

EndInputs ==
    /\ pc = "input" /\ inputs = <<>>
    /\ pc' = IF paths = <<>> THEN "failed" ELSE "done"
    /\ UNCHANGED <<inputs, ignore, given, todo, found, paths>>

Done == pc \in {"failed", "done"} /\ UNCHANGED vars

Next == TakeInput \/ Visit \/ EndWalk \/ EndInputs \/ Done

Spec == Init /\ [][Next]_vars

-----------------------------------------------------------------------------
(* A document below an argument is ignored when a directory above it, or     *)
(* itself, is.                                                               *)
Ignored(f, root) ==
    \/ \E d \in Ancestors(f, root) : IgnoredPathState(d, root, TRUE) \/ Last(d) \in Pruned
    \/ IgnoredPathState(f, root, FALSE)

(* A directory that only a rule for directories takes back is walked past:   *)
(* the prune asks about it as if it were a file.                             *)
TakenBack(f, root) ==
    \E d \in Ancestors(f, root) :
        IgnoredPathState(d, root, FALSE) /\ ~IgnoredPathState(d, root, TRUE)

Yields(input, f) ==
    \/ input = f
    \/ Below(input, f) /\ Last(f) \in Markdown /\ ~Ignored(f, input)

TypeOK ==
    /\ given \in Inputs /\ IsSuffix(inputs, given)
    /\ todo \subseteq Dirs \cup Range(Files) /\ found \subseteq Range(Files)
    /\ Range(paths) \subseteq Range(Files)
    /\ pc \in {"input", "walk", "failed", "done"}

(* The first argument that yields a document, and its place below one.       *)
First(f) ==
    CHOOSE i \in DOMAIN given : Yields(given[i], f) /\ \A j \in 1..(i - 1) : ~Yields(given[j], f)
Rank(f) == CHOOSE i \in DOMAIN Files : Files[i] = f

(* In whatever order directories are listed, the documents are those the     *)
(* arguments name and those below them that no .gitignore rule leaves out,   *)
(* each once in each spelling the arguments lead to, in the order of the     *)
(* arguments and sorted below each; a directory only taken back by a rule    *)
(* for directories may be missed.                                            *)
(* (discover_paths, ignored_by_gitignore)                                    *)
DiscoveryExact ==
    pc = "done" =>
        /\ \A f \in Range(Files) :
             /\ f \in Range(paths) => \E i \in DOMAIN given : Yields(given[i], f)
             /\ \A i \in DOMAIN given :
                   Yields(given[i], f) => f \in Range(paths) \/ TakenBack(f, given[i])
        /\ IsInjective(paths)
        /\ \A i, j \in DOMAIN paths : i < j =>
             LET p == paths[i]
                 q == paths[j]
             IN \/ First(p) < First(q)
                \/ First(p) = First(q) /\ Rank(p) < Rank(q)
                \/ TakenBack(q, given[First(q)]) \/ TakenBack(p, given[First(p)])
=============================================================================
