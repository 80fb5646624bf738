----------------------------- MODULE PlanBuilder -----------------------------
(***************************************************************************)
(* crates/mdok-cli build_plan with crates/mdok-markdown: from the lines of  *)
(* a document to the plan that runs.                                        *)
(*                                                                         *)
(* Two readers go over the same lines.  The adapter (parse_fences) knows    *)
(* fences of three backticks; the core reader (comrak and plan_document)    *)
(* knows CommonMark's.  Each gives a view: steps in order and the checks    *)
(* and captures attached to them.  build_plan validates the adapter's steps *)
(* and merges the two views.                                                *)
(*                                                                         *)
(* Only lines that begin with a fence marker matter.  A marker is three     *)
(* backticks ("tick"), four ("quad"), three tildes ("tilde"), or three      *)
(* backticks that are no fence to CommonMark ("hidden": indented by four     *)
(* columns or more, inside an HTML block or comment, or with a backtick in   *)
(* the info string); what follows it is an info string, or nothing.  Lines   *)
(* of block quotes and list items are left out.  A fence is known by the     *)
(* number of its first line.  Whether the text of a command or an expression *)
(* is valid is a free choice.                                               *)
(***************************************************************************)
EXTENDS Integers, SequencesExt

CONSTANTS Names,        \* step names
          MaxLines,     \* bound: marker lines of a document
          MaxSteps      \* MAX_STEPS

Marks == {"tick", "quad", "tilde", "hidden"}
Roles == {"step", "check", "capture"}

(* Info strings: executable fences, fences without the mdok marker, fences  *)
(* both readers refuse (a missing name, an invalid flag), and fences only   *)
(* the core reader refuses (an unknown attribute, a missing role).          *)
Executable == [role : Roles, name : Names]
Other == {[role |-> r] : r \in {"plain", "bad", "lax"}}
NoInfo == [role |-> "bare"]
Infos == Executable \cup Other \cup {NoInfo}
Plain == [role |-> "plain"]

NoFence == [role |-> "none"]
NoView == [steps |-> <<>>, attached |-> {}, err |-> FALSE]
NoPlan == [steps |-> <<>>, attached |-> {}, ok |-> FALSE]

VARIABLES
    line,       \* number of marker lines read
    fence,      \* for each reader, its open fence or NoFence
    view,       \* for each reader, what it has collected
    plain,      \* history: only lines that both readers take alike were read
    pc,         \* "read", "merge", "planned"
    plan        \* PlanOutcome

vars == <<line, fence, view, plain, pc, plan>>
Readers == {"adapter", "core"}

(* Which readers find the marker word mdok in an info string: both; the      *)
(* adapter alone, which strips quotes (split_info), or the core reader       *)
(* alone, which gets character references resolved.                          *)
Markers == {Readers, {"adapter"}, {"core"}}

Init ==
    /\ line = 0 /\ pc = "read" /\ plain = TRUE /\ plan = NoPlan
    /\ fence = [r \in Readers |-> NoFence]
    /\ view = [r \in Readers |-> NoView]

-----------------------------------------------------------------------------
(* Which lines open and close a fence.  The adapter ignores an opening line *)
(* without info string, and takes any indentation; its closing line is any  *)
(* line that trims to three backticks.  The core reader follows CommonMark. *)
Opens(r, mark, info) ==
    IF r = "adapter" THEN mark = "quad" \/ (mark # "tilde" /\ info # NoInfo) ELSE mark # "hidden"

Closes(r, mark, info) ==
    /\ info = NoInfo
    /\ IF r = "adapter" THEN mark \in {"tick", "hidden"}
       ELSE mark = fence[r].mark \/ (mark = "quad" /\ fence[r].mark = "tick")

(* A fence whose marker word a reader does not find is not executable to it. *)
(* To the adapter a fourth backtick is the first character of the language,  *)
(* for which the roles of executable fences are invalid metadata.            *)
InfoRead(r, mark, info, by) ==
    CASE info # NoInfo /\ r \notin by -> Plain
      [] r = "adapter" /\ mark = "quad" /\ r \in by /\ info \in Executable -> [role |-> "bad"]
      [] r = "adapter" /\ mark = "quad" /\ info = NoInfo -> Plain
      [] OTHER -> info

Fence(r, mark, info, by) ==
    [role |-> "open", mark |-> mark, info |-> InfoRead(r, mark, info, by), at |-> line + 1]

-----------------------------------------------------------------------------
(* What a reader makes of a complete fence.                                 *)
Refuse(v) == [v EXCEPT !.err = TRUE]

AddStep(v, name, usable) ==
    IF Len(v.steps) >= MaxSteps \/ name \in Range(v.steps) \/ ~usable THEN Refuse(v)
    ELSE [v EXCEPT !.steps = Append(@, name)]

Attach(v, info, at) ==
    IF info.name \notin Range(v.steps) THEN Refuse(v)
    ELSE [v EXCEPT !.attached = @ \cup {[role |-> info.role, name |-> info.name, at |-> at]}]

(* Only the adapter looks into the source of a step; only the core reader   *)
(* looks at every attribute.                                                *)
Collected(r, f, valid) ==
    LET v == view[r] IN
    CASE f.info.role = "step" -> AddStep(v, f.info.name, r = "core" \/ valid)
      [] f.info.role \in {"check", "capture"} -> Attach(v, f.info, f.at)
      [] f.info.role = "bad" -> Refuse(v)
      [] f.info.role = "lax" -> IF r = "core" THEN Refuse(v) ELSE v
      [] f.info.role \in {"plain", "bare"} -> v

-----------------------------------------------------------------------------
(* One reader takes one line.                                               *)
FenceAfter(r, mark, info, by) ==
    IF fence[r] = NoFence
      THEN IF Opens(r, mark, info) THEN Fence(r, mark, info, by) ELSE NoFence
      ELSE IF Closes(r, mark, info) THEN NoFence ELSE fence[r]

Ends(r, mark, info) == fence[r] # NoFence /\ Closes(r, mark, info)

(* The next marker line of the document.  Only an executable fence has a     *)
(* marker word to miss, and only a bare line completes a fence, whose text   *)
(* may be valid or not.                                                      *)
ReadLine(mark, info, by, valid) ==
    /\ pc = "read" /\ line < MaxLines
    /\ info \in {NoInfo, Plain} => by = Readers
    /\ info # NoInfo => valid
    /\ line' = line + 1
    /\ fence' = [r \in Readers |-> FenceAfter(r, mark, info, by)]
    /\ view' = [r \in Readers |-> IF Ends(r, mark, info) THEN Collected(r, fence[r], valid)
                                  ELSE view[r]]
    /\ plain' = (plain /\ mark = "tick" /\ by = Readers /\ (info = NoInfo => fence["core"] # NoFence))
    /\ UNCHANGED <<pc, plan>>

(* Bug: the adapter drops a fence the document does not close.              *)
EndOfDocumentDropsOpen(valid) ==
    /\ pc = "read"
    /\ view' = [view EXCEPT !["core"] = IF fence["core"] # NoFence
                                        THEN Collected("core", fence["core"], valid) ELSE @]
    /\ fence' = [r \in Readers |-> NoFence]
    /\ pc' = "merge"
    /\ UNCHANGED <<line, plain, plan>>

(* The end of the document closes what is open.                             *)
EndOfDocument(valid) ==
    /\ pc = "read"
    /\ view' = [r \in Readers |-> IF fence[r] # NoFence THEN Collected(r, fence[r], valid)
                                  ELSE view[r]]
    /\ fence' = [r \in Readers |-> NoFence]
    /\ pc' = "merge"
    /\ UNCHANGED <<line, plain, plan>>

-----------------------------------------------------------------------------
(* The merge: the core steps the adapter knows, with the core's checks and  *)
(* captures, if that is all of the adapter's steps; else the adapter's view.*)
Adapter == view["adapter"]
Core == view["core"]
Kept ==
    LET known(s) == s \in Range(Adapter.steps)
        kept[i \in 0..Len(Core.steps)] ==
          IF i = 0 THEN <<>>
          ELSE kept[i - 1] \o (IF known(Core.steps[i]) THEN <<Core.steps[i]>> ELSE <<>>)
    IN  kept[Len(Core.steps)]

Merged ==
    IF Len(Kept) = Len(Adapter.steps)
      THEN [steps |-> Kept, attached |-> {a \in Core.attached : a.name \in Range(Kept)}, ok |-> TRUE]
      ELSE [steps |-> Adapter.steps, attached |-> Adapter.attached, ok |-> TRUE]

Accepted == ~Adapter.err /\ ~Core.err

(* A plan, unless a template, a URL or an expression turns out invalid.     *)
Plan ==
    /\ pc = "merge"
    /\ plan' \in IF Accepted THEN {Merged, NoPlan} ELSE {NoPlan}
    /\ pc' = "planned"
    /\ UNCHANGED <<line, fence, view, plain>>

Planned == pc = "planned" /\ UNCHANGED vars

Next ==
    \/ \E mark \in Marks, info \in Infos, by \in Markers, valid \in BOOLEAN :
          ReadLine(mark, info, by, valid)
    \/ \E valid \in BOOLEAN : EndOfDocument(valid)
    \/ Plan \/ Planned

Spec == Init /\ [][Next]_vars

-----------------------------------------------------------------------------
Fences == {NoFence} \cup [role : {"open"}, mark : Marks, info : Infos, at : 1..MaxLines]
Attachments == [role : {"check", "capture"}, name : Names, at : 1..MaxLines]

(* Every variable has its type; no view and no plan names a step twice.      *)
TypeOK ==
    /\ line \in 0..MaxLines /\ pc \in {"read", "merge", "planned"} /\ plain \in BOOLEAN
    /\ \A r \in Readers :
          /\ fence[r] \in Fences
          /\ Range(view[r].steps) \subseteq Names /\ view[r].attached \subseteq Attachments
          /\ Len(view[r].steps) <= MaxSteps /\ IsInjective(view[r].steps)
    /\ plan.ok => IsInjective(plan.steps)

(* On documents whose fences all have three backticks that CommonMark takes  *)
(* for a fence, an info string, and the marker word as it is, the readers    *)
(* agree: the plan is exactly the core's view, checks and captures included. *)
(* (parse_fences, parse_document, build_plan)                                *)
ReadersAgreeOnPlain ==
    plain /\ plan.ok => plan.steps = Core.steps /\ plan.attached = Core.attached
=============================================================================
