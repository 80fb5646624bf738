---------------------------- MODULE ResponseBody ----------------------------
(***************************************************************************)
(* crates/mdok-curl: the metadata of a captured body, and the body a        *)
(* response shows to assertions.                                            *)
(*                                                                         *)
(* A captured body is read back once, in pieces, through MetadataReader,    *)
(* which counts it, and feeds a UTF-8 validator that keeps its state from   *)
(* one piece to the next; a JSON parser that ignores the values pulls the   *)
(* bytes and may stop early, and a loop reads the rest.  Later the body is  *)
(* loaded whole and classified again, by other means, for the response.     *)
(* Spooled bytes are in a file, which may have changed meanwhile.           *)
(*                                                                         *)
(* A byte is one of the classes the validator tells apart.  What makes a    *)
(* text JSON is left out: a body says whether the parser that keeps values  *)
(* accepts it, and whether the one that ignores them does.                  *)
(***************************************************************************)
EXTENDS Integers, Sequences

CONSTANTS MaxLen,       \* bound: bytes of a body
          MaxPiece,     \* most bytes of one read
          Bytes         \* the byte classes of the bodies considered

(* Lead bytes by the continuation they ask for; continuations by range.      *)
Classes == {"ascii", "c2", "e0", "e1", "ed", "f0", "f1", "f4", "80", "90", "a0", "bad"}
Expected(b) ==
    CASE b = "c2" -> 2 [] b \in {"e0", "e1", "ed"} -> 3 [] b \in {"f0", "f1", "f4"} -> 4
Continuations == {"80", "90", "a0"}

(* Utf8Validator.                                                            *)
Start == [valid |-> TRUE, lead |-> "ascii", expected |-> 0, seen |-> 0]
Invalid == [Start EXCEPT !.valid = FALSE]

(* Mutant of FirstContinuation: any continuation follows any lead byte.      *)
AnyContinuation(lead, b) == TRUE

FirstContinuation(lead, b) ==
    CASE lead = "e0" -> b = "a0"
      [] lead = "ed" -> b # "a0"
      [] lead = "f0" -> b # "80"
      [] lead = "f4" -> b = "80"
      [] OTHER -> TRUE

PushByte(v, b) ==
    IF ~v.valid THEN v
    ELSE IF v.expected = 0
      THEN IF b = "ascii" THEN v
           ELSE IF b \in Continuations \cup {"bad"} THEN Invalid
           ELSE [v EXCEPT !.lead = b, !.expected = Expected(b), !.seen = 1]
    ELSE IF b \notin Continuations \/ (v.seen = 1 /\ ~FirstContinuation(v.lead, b)) THEN Invalid
    ELSE IF v.seen + 1 = v.expected THEN Start
    ELSE [v EXCEPT !.seen = @ + 1]

IsValid(v) == v.valid /\ v.expected = 0

(* What UTF-8 is, external: String::from_utf8.  A character is a lead byte   *)
(* and its continuations, of which the first is restricted.                  *)
Characters ==
    {<<"ascii">>} \cup {<<"c2", x>> : x \in Continuations}
    \cup {<<l, x, y>> : l \in {"e1"}, x \in Continuations, y \in Continuations}
    \cup {<<"e0", "a0", y>> : y \in Continuations}
    \cup {<<"ed", x, y>> : x \in {"80", "90"}, y \in Continuations}
    \cup {<<"f0", x, y, z>> : x \in {"90", "a0"}, y \in Continuations, z \in Continuations}
    \cup {<<"f1", x, y, z>> : x \in Continuations, y \in Continuations, z \in Continuations}
    \cup {<<"f4", "80", y, z>> : y \in Continuations, z \in Continuations}
IsUtf8(s) ==
    \E cuts \in SUBSET (0..Len(s)) :
        /\ 0 \in cuts /\ Len(s) \in cuts
        /\ \A i \in cuts \ {Len(s)} :
              LET j == CHOOSE k \in cuts : k > i /\ \A m \in cuts : m > i => k <= m
              IN  SubSeq(s, i + 1, j) \in Characters

Bodies == UNION {[1..n -> Bytes] : n \in 0..MaxLen}

VARIABLES
    body,       \* the bytes captured
    ignoring,   \* IgnoredAny and end() accept the body
    keeping,    \* serde_json::from_slice::<Value> accepts the body
    file,       \* what the storage holds when it is read back
    pc,
    at,         \* MetadataReader::bytes, all of them taken from the start of the file
    utf8,       \* MetadataReader::utf8
    metadata,   \* BodyMetadata
    result      \* what the response shows of the body

vars == <<body, ignoring, keeping, file, pc, at, utf8, metadata, result>>

None == [kind |-> "none"]
Shown(kind, value, text, base64) ==
    [kind |-> kind, body |-> value, text |-> text, base64 |-> base64]

(* A parser that keeps values refuses some of what the other one skips: an   *)
(* invalid byte in a string, a number out of range.                          *)
Init ==
    /\ body \in Bodies /\ file = body
    /\ ignoring \in BOOLEAN /\ keeping \in BOOLEAN
    /\ ignoring => body # <<>>
    /\ keeping => ignoring /\ IsUtf8(body)
    /\ pc = IF body = <<>> THEN "drain" ELSE "parse"
    /\ at = 0 /\ utf8 = Start /\ metadata = None /\ result = None

(* The spool file loses bytes before it is read back.                        *)
SpoolShrinks ==
    /\ pc = "parse" /\ at = 0 /\ Len(file) = Len(body)
    /\ file' = SubSeq(file, 1, Len(file) - 1)
    /\ ignoring' \in BOOLEAN /\ UNCHANGED keeping
    /\ UNCHANGED <<body, pc, at, utf8, metadata, result>>

(* MetadataReader::read: n bytes go to the digest and the validator.         *)
Read(n) ==
    /\ at' = at + n
    /\ utf8' = LET pushed[i \in 0..n] ==
                       IF i = 0 THEN utf8 ELSE PushByte(pushed[i - 1], file[at + i])
               IN  pushed[n]

(* The JSON parser takes single bytes; it stops early unless it accepts.     *)
ParserReads ==
    /\ pc = "parse" /\ at < Len(file) /\ Read(1)
    /\ UNCHANGED <<body, ignoring, keeping, file, pc, metadata, result>>

ParserStops ==
    /\ pc = "parse" /\ (ignoring => at = Len(file))
    /\ pc' = "drain"
    /\ UNCHANGED <<body, ignoring, keeping, file, at, utf8, metadata, result>>

Drain ==
    /\ pc = "drain"
    /\ \E n \in 1..MaxPiece : at + n <= Len(file) /\ Read(n)
    /\ UNCHANGED <<body, ignoring, keeping, file, pc, metadata, result>>

(* The end of compute_body_metadata.                                         *)
Metadata(kind, bytes, storage) == [kind |-> kind, bytes |-> bytes, storage |-> storage]

Describe ==
    /\ pc = "drain" /\ at = Len(file)
    /\ IF at # Len(body)
         THEN pc' = "failed" /\ UNCHANGED metadata
         ELSE /\ pc' = "captured"
              /\ metadata' = Metadata(IF body = <<>> THEN "empty" ELSE IF ignoring THEN "json"
                                       ELSE IF IsValid(utf8) THEN "text" ELSE "binary",
                                      Len(body), IF body = <<>> THEN "none" ELSE "inline")
    /\ UNCHANGED <<body, ignoring, keeping, file, at, utf8, result>>

(* TransferResponse::body_value, on the body read whole.                     *)
BodyValue ==
    IF body = <<>> THEN Shown("empty", "null", TRUE, FALSE)
    ELSE IF keeping THEN Shown("json", "value", TRUE, FALSE)
    ELSE IF IsUtf8(body) THEN Shown("text", "string", TRUE, FALSE)
    ELSE Shown("binary", "null", FALSE, TRUE)

(* evaluation_json_limited_with_artifact.  A HEAD request that got no body   *)
(* shows its method instead.                                                 *)
Evaluate(head, artifact, max) ==
    /\ pc = "captured"
    /\ LET plain == IF artifact THEN Shown(metadata.kind, "null", FALSE, FALSE) ELSE BodyValue
       IN IF ~artifact /\ Len(body) > max
            THEN pc' = "failed" /\ UNCHANGED <<metadata, result>>
            ELSE /\ pc' = "shown"
                 /\ result' = IF head /\ plain.kind = "empty"
                                THEN Shown("json", "value", TRUE, FALSE) ELSE plain
                 /\ metadata' =
                      LET m == IF head /\ plain.kind = "empty"
                                 THEN Metadata("json", 1, "inline") ELSE metadata
                      IN  IF artifact THEN [m EXCEPT !.storage = "artifact"] ELSE m
    /\ UNCHANGED <<body, ignoring, keeping, file, at, utf8>>

Done == pc \in {"shown", "failed"} /\ UNCHANGED vars

Next ==
    \/ SpoolShrinks \/ ParserReads \/ ParserStops \/ Drain \/ Describe \/ Done
    \/ \E head, artifact \in BOOLEAN, max \in 0..MaxLen : Evaluate(head, artifact, max)

Spec == Init /\ [][Next]_vars

-----------------------------------------------------------------------------
TypeOK ==
    /\ body \in Bodies /\ file \in Bodies /\ at \in 0..MaxLen
    /\ utf8 \in [valid : BOOLEAN, lead : Classes, expected : {0, 2, 3, 4}, seen : 0..3]
    /\ pc \in {"parse", "drain", "captured", "shown", "failed"}

(* However the reads cut the body, the streamed classification is the one of *)
(* the whole body, it is given only for a body read back complete, and the   *)
(* kind a response shows is that of its metadata, with an artifact as well   *)
(* as without, unless the two JSON parsers disagree about the body.          *)
(* (Utf8Validator, compute_body_metadata, body_value)                        *)
BodyKindRight ==
    /\ pc = "captured" =>
         /\ metadata.bytes = Len(body) /\ file = body
         /\ metadata.kind = "text" => IsUtf8(body)
         /\ metadata.kind = "binary" => ~IsUtf8(body)
    /\ pc = "shown" /\ ignoring = keeping => result.kind = metadata.kind
=============================================================================
