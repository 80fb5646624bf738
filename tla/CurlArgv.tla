------------------------------ MODULE CurlArgv ------------------------------
(***************************************************************************)
(* The two parsers of a curl command line, CurlPlan::parse of               *)
(* crates/mdok-curl and Parse of go/curlplan, reading the same arguments.   *)
(*                                                                         *)
(* Each keeps its own state and stops at its first error; the end of the    *)
(* arguments makes the plan.  An argument is an option together with its    *)
(* value.  Options that only set a field nobody else reads (headers,        *)
(* cookies, timeouts...) are one kind, "field".  A part of a body is its    *)
(* kind and its length, files are readable and of a known length, and the   *)
(* URL policy is left to the policy check.  MDOK-Exyz is the number xyz.    *)
(***************************************************************************)
EXTENDS Integers, Sequences, SequencesExt

CONSTANTS MaxArgs,      \* bound: arguments of a command
          MaxBody,      \* CurlPolicy::max_body_bytes
          Lengths,      \* lengths of values and files
          Overhead      \* boundary and headers of one multipart part

E_UNKNOWN_OPTION == 300
E_UNSUPPORTED == 301
E_FILE_DENIED == 303
E_POLICY == 304
E_BODY_LIMIT == 700
NoError == 0

(* "request" is -X M or --request M, "attached" -XM; "urlOption" is --url;   *)
(* "denied" stands for --output, --parallel...; "noValue" is an option       *)
(* whose value is missing; "badValue" a field that does not parse.          *)
Plain == {"get", "noGet", "location", "noLocation", "field", "badValue", "denied", "unknown",
          "noValue", "urlOption"}
Sized == {"data", "dataFile", "urlencode", "form", "upload"}
Arguments == [opt : Plain] \cup [opt : Sized, len : Lengths]
             \cup [opt : {"request", "attached"}, method : {"GET", "PUT"}]
             \cup [opt : {"url"}, valid : BOOLEAN]

VARIABLES
    rust,       \* ParserState
    go,         \* Plan, explicitMethod and what ClassifyOptions found
    count,      \* arguments read
    seen,       \* history: what the arguments were
    rustPlan,   \* what parse returned
    goPlan      \* what validateCurl made of the command

vars == <<rust, go, count, seen, rustPlan, goPlan>>

NoPlan == [err |-> NoError, made |-> FALSE]
Refused(code) == [err |-> code, made |-> FALSE]

Init ==
    /\ rust = [method |-> "GET", parts |-> <<>>, body |-> "none", form |-> <<>>, get |-> FALSE,
               follow |-> FALSE, urls |-> 0, valid |-> TRUE, err |-> NoError]
    /\ go = [method |-> "GET", explicit |-> FALSE, data |-> <<>>, encoded |-> <<>>, get |-> FALSE,
             follow |-> FALSE, urls |-> 0, valid |-> TRUE, err |-> NoError, class |-> NoError]
    /\ count = 0
    /\ seen = [method |-> "none", parts |-> <<>>, opts |-> {}, late |-> FALSE, mixed |-> FALSE]
    /\ rustPlan = NoPlan /\ goPlan = NoPlan

-----------------------------------------------------------------------------
(* crates/mdok-curl.                                                        *)

Length(parts) ==
    LET sum[i \in 0..Len(parts)] == IF i = 0 THEN 0 ELSE sum[i - 1] + parts[i].len
    IN  sum[Len(parts)]

(* body_parts_len: the parts joined with "&".                               *)
Joined(parts) == Length(parts) + (IF parts = <<>> THEN 0 ELSE Len(parts) - 1)

(* multipart_wire_len: every part has its overhead, and there is a closing  *)
(* boundary.                                                                *)
WireLen(form) == IF form = <<>> THEN 0 ELSE Length(form) + (Len(form) + 1) * Overhead

(* Bug: the separator is counted before the first part too.                 *)
CapacityShort(parts) == MaxBody - (Joined(parts) + 1)

(* body_part_capacity, with the separator the next part needs.              *)
Capacity(parts) == MaxBody - (Joined(parts) + (IF parts = <<>> THEN 0 ELSE 1))

RustPart(r, kind, len) ==
    IF len > Capacity(r.parts) THEN [r EXCEPT !.err = E_BODY_LIMIT]
    ELSE [r EXCEPT !.parts = Append(@, [kind |-> kind, len |-> len]), !.method = "POST"]

(* A form part joins the parts of an earlier form, and replaces an upload.  *)
RustForm(r, len) ==
    LET form == Append(IF r.body = "form" THEN r.form ELSE <<>>, [kind |-> "form", len |-> len])
    IN  IF WireLen(form) > MaxBody THEN [r EXCEPT !.err = E_BODY_LIMIT]
        ELSE [r EXCEPT !.body = "form", !.form = form, !.method = "POST"]

RustUpload(r, len) ==
    IF len > MaxBody THEN [r EXCEPT !.err = E_BODY_LIMIT]
    ELSE [r EXCEPT !.body = "upload", !.form = <<[kind |-> "file", len |-> len]>>,
                   !.method = "PUT"]

RustReads(r, a) ==
    IF r.err # NoError THEN r ELSE
    CASE a.opt = "get" -> [r EXCEPT !.get = TRUE]
      [] a.opt = "noGet" -> [r EXCEPT !.get = FALSE]
      [] a.opt = "location" -> [r EXCEPT !.follow = TRUE]
      [] a.opt = "noLocation" -> [r EXCEPT !.follow = FALSE]
      [] a.opt \in {"request", "attached"} -> [r EXCEPT !.method = a.method]
      [] a.opt \in {"data", "dataFile"} -> RustPart(r, a.opt, a.len)
      [] a.opt = "urlencode" -> RustPart(r, "enc", a.len)
      [] a.opt = "form" -> RustForm(r, a.len)
      [] a.opt = "upload" -> RustUpload(r, a.len)
      [] a.opt = "url" -> [r EXCEPT !.urls = @ + 1, !.valid = a.valid]
      [] a.opt \in {"unknown", "noValue", "urlOption"} -> [r EXCEPT !.err = E_UNKNOWN_OPTION]
      [] a.opt = "denied" -> [r EXCEPT !.err = E_UNSUPPORTED]
      [] a.opt = "badValue" -> [r EXCEPT !.err = E_POLICY]
      [] OTHER -> r

(* The end of parse, and finish: --get moves the parts into the query, and   *)
(* parts replace a form or an upload.                                       *)
RustFinish ==
    IF rust.err # NoError THEN Refused(rust.err)
    ELSE IF rust.urls # 1 \/ ~rust.valid THEN Refused(E_POLICY)
    ELSE IF rust.get /\ rust.body # "none" THEN Refused(E_UNSUPPORTED)
    ELSE [err |-> NoError, made |-> TRUE, follow |-> rust.follow,
          method |-> IF rust.get THEN "GET" ELSE rust.method,
          query |-> IF rust.get THEN rust.parts ELSE <<>>,
          body |-> IF rust.get THEN <<>> ELSE IF rust.parts # <<>> THEN rust.parts
                   ELSE rust.form]

-----------------------------------------------------------------------------
(* go/curlplan.                                                             *)

(* Bug: data does not imply POST.                                           *)
ImpliedNever(g) == g

Implied(g) == [g EXCEPT !.method = IF g.explicit THEN g.method ELSE "POST"]

(* "@path" is not a file here: it is the text of the part.                  *)
GoParses(g, a) ==
    IF g.err # NoError THEN g ELSE
    CASE a.opt = "get" -> [g EXCEPT !.get = TRUE]
      [] a.opt = "noGet" -> [g EXCEPT !.get = FALSE]
      [] a.opt = "location" -> [g EXCEPT !.follow = TRUE]
      [] a.opt = "noLocation" -> [g EXCEPT !.follow = FALSE]
      [] a.opt = "request" -> [g EXCEPT !.method = a.method, !.explicit = TRUE]
      [] a.opt = "attached" -> [g EXCEPT !.method = a.method]
      [] a.opt \in {"data", "dataFile"} ->
           Implied([g EXCEPT !.data = Append(@, [kind |-> "data", len |-> a.len])])
      [] a.opt = "urlencode" ->
           Implied([g EXCEPT !.encoded = Append(@, [kind |-> "enc", len |-> a.len])])
      [] a.opt = "url" -> [g EXCEPT !.urls = @ + 1, !.valid = a.valid]
      [] a.opt = "urlOption" -> [g EXCEPT !.urls = @ + 1, !.valid = TRUE]
      [] a.opt \in {"unknown", "noValue", "denied", "form", "upload"} ->
           [g EXCEPT !.err = E_UNKNOWN_OPTION]
      [] a.opt = "badValue" -> [g EXCEPT !.err = E_POLICY]
      [] OTHER -> g

(* ClassifyOptions looks at the whole command before Parse does.            *)
ClassOf(a) ==
    CASE a.opt = "form" -> E_POLICY
      [] a.opt = "upload" -> E_FILE_DENIED
      [] OTHER -> NoError

GoReads(g, a) == [GoParses(g, a) EXCEPT !.class = IF g.class # NoError THEN g.class ELSE ClassOf(a)]

(* The end of Parse, and buildTarget, which puts the encoded parts last.    *)
GoFinish ==
    IF go.class # NoError THEN Refused(go.class)
    ELSE IF go.err # NoError THEN Refused(go.err)
    ELSE IF go.urls # 1 \/ ~go.valid THEN Refused(E_POLICY)
    ELSE [err |-> NoError, made |-> TRUE, follow |-> go.follow,
          method |-> IF go.get THEN "GET" ELSE go.method,
          query |-> IF go.get THEN go.data \o go.encoded ELSE <<>>,
          body |-> IF go.get THEN <<>> ELSE go.data \o go.encoded]

-----------------------------------------------------------------------------
BodyOptions == {"data", "dataFile", "urlencode"}

(* History: the last explicit method and whether data came after one, the   *)
(* parts in order, and whether an encoded part came before another one.     *)
Saw(a) ==
    [method |-> IF a.opt \in {"request", "attached"} THEN a.method ELSE seen.method,
     parts |-> IF a.opt \in BodyOptions
                 THEN Append(seen.parts, [kind |-> IF a.opt = "urlencode" THEN "enc" ELSE a.opt,
                                          len |-> a.len])
                 ELSE seen.parts,
     opts |-> seen.opts \cup {a.opt},
     late |-> seen.late \/ (a.opt \in BodyOptions /\ seen.method # "none"),
     mixed |-> seen.mixed \/ (a.opt = "data" /\ "urlencode" \in seen.opts)]

ReadArgument(a) ==
    /\ count < MaxArgs /\ rustPlan = NoPlan
    /\ count' = count + 1
    /\ rust' = RustReads(rust, a)
    /\ go' = GoReads(go, a)
    /\ seen' = Saw(a)
    /\ UNCHANGED <<rustPlan, goPlan>>

EndOfArguments ==
    /\ rustPlan = NoPlan
    /\ rustPlan' = RustFinish /\ goPlan' = GoFinish
    /\ UNCHANGED <<rust, go, count, seen>>

Done == rustPlan # NoPlan /\ UNCHANGED vars

Next == (\E a \in Arguments : ReadArgument(a)) \/ EndOfArguments \/ Done

Spec == Init /\ [][Next]_vars

-----------------------------------------------------------------------------
IsPlan(p) ==
    \/ p.made = FALSE /\ p.err \in {NoError, E_UNKNOWN_OPTION, E_UNSUPPORTED, E_FILE_DENIED,
                                    E_POLICY, E_BODY_LIMIT}
    \/ /\ p.made /\ p.err = NoError /\ p.follow \in BOOLEAN /\ p.method \in {"GET", "POST", "PUT"}
       /\ Len(p.query) <= MaxArgs /\ Len(p.body) <= MaxArgs

(* The plans are plans; and the Rust parser, which checks every part as it   *)
(* reads it, never holds a body over the limit.                             *)
TypeOK ==
    /\ IsPlan(rustPlan) /\ IsPlan(goPlan)
    /\ count \in 0..MaxArgs
    /\ Joined(rust.parts) <= MaxBody
    /\ IF rust.body = "form" THEN WireLen(rust.form) <= MaxBody ELSE Length(rust.form) <= MaxBody

(* Checking the parts one by one is the same as checking the joined body: a  *)
(* command with data, one good URL and no option but --get and --location    *)
(* is refused exactly when its joined body passes the limit.                *)
BodyLimitExact ==
    rustPlan # NoPlan /\ seen.opts \subseteq {"data", "urlencode", "get", "noGet", "location", "url"}
      /\ rust.urls = 1 /\ rust.valid
    => (rustPlan.err = E_BODY_LIMIT) = (Joined(seen.parts) > MaxBody)

(* Where the data comes without a method before it, without an encoded part  *)
(* before it and not from a file, the two parsers agree, over the options    *)
(* both have: the same plan or the same diagnostic (a body over the limit is *)
(* only known to the Rust one).                                             *)
PlansAgree ==
    rustPlan # NoPlan
      /\ seen.opts \cap {"form", "upload", "dataFile", "urlOption", "denied"} = {}
      /\ ~seen.late /\ ~seen.mixed
    => rustPlan = goPlan \/ rustPlan.err = E_BODY_LIMIT
=============================================================================
