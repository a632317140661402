---------------------------- MODULE ContainerNames ----------------------------
(***************************************************************************)
(* The names a container has on its way to Kubernetes and back, and the    *)
(* message a failure comes back with: sanitize_container_name, the suffix  *)
(* that ContainerService strips, clean_k8s_error_message.                  *)
(*                                                                         *)
(* A name is a sequence of pieces: "a" stands for a letter, of either      *)
(* case, "1" for a digit, "pod" and "service" for the words, "!" for any   *)
(* other character.  A raw error is a sequence of pieces too: plain text,  *)
(* text that says "exceeded quota", the repr of a dict of headers, and     *)
(* JSON bodies with a message, with a message about quota, without one.    *)
(***************************************************************************)
EXTENDS Naturals, Sequences, FiniteSetsExt, Functions

CONSTANT MaxLabel           \* the length of a label, in pieces: 63 characters

ASSUME LabelAssumption == MaxLabel \in Nat \ {0}

Alphanumeric == {"a", "1", "pod", "service"}

LabelPieces == Alphanumeric \cup {"-"}

Suffixes == {"pod", "service", "ingress"}

Pieces == LabelPieces \cup {" ", "_", "!"}

\* No piece, or one that is the same as it is.
Hyphenated(piece) == IF piece \in {" ", "_"} THEN "-" ELSE piece

\* The name without the hyphens at either end.
Trimmed(s) ==
    LET solid == {i \in DOMAIN s : s[i] # "-"}
    IN  IF solid = {} THEN <<>> ELSE SubSeq(s, Min(solid), Max(solid))

\* "container", for a name of which nothing is left.
Fallback == <<"a">>

\* The pieces of s that a name may have, in their order.
Kept(s) ==
    LET kept[i \in 0 .. Len(s)] ==
            IF i = 0 THEN <<>>
            ELSE IF s[i] \in LabelPieces THEN Append(kept[i - 1], s[i])
            ELSE kept[i - 1]
    IN  kept[Len(s)]

\* Variant, not part of the specification.  NamesSurvive: the hyphens are
\* trimmed before the other characters are dropped.
SanitizeTrimmedFirst(name) ==
    LET hyphenated == [i \in DOMAIN name |-> Hyphenated(name[i])]
        kept == Kept(Trimmed(hyphenated))
    IN  IF kept = <<>> THEN Fallback ELSE kept

\* sanitize_container_name, of a name that is not empty.
Sanitize(name) ==
    LET hyphenated == [i \in DOMAIN name |-> Hyphenated(name[i])]
        kept == Trimmed(Kept(hyphenated))
    IN  IF kept = <<>> THEN Fallback ELSE kept

\* The pattern of a label.
IsPlain(name) ==
    /\ name # <<>> /\ Range(name) \subseteq LabelPieces
    /\ name[1] # "-" /\ name[Len(name)] # "-"

\* What Kubernetes takes for a name.
IsLabel(name) == IsPlain(name) /\ Len(name) <= MaxLabel

\* What container-maker makes of a name, by the formats ContainerService names.
Named(name, kind) ==
    IF kind = "pod" THEN name \o <<"-", "pod", "-", "1">> ELSE name \o <<"-", kind>>

Hyphens(s) == {i \in DOMAIN s : s[i] = "-"}

\* '-'.join of all the parts but the last, and the last part.
Before(s) == IF Hyphens(s) = {} THEN <<>> ELSE SubSeq(s, 1, Max(Hyphens(s)) - 1)

LastPart(s) == IF Hyphens(s) = {} THEN s ELSE SubSeq(s, Max(Hyphens(s)) + 1, Len(s))

IsDigits(s) == s # <<>> /\ Range(s) = {"1"}

\* A part that is a number follows the word and is dropped with it; a word at the
\* end is dropped alone.
Recovered(s) ==
    IF Hyphens(s) # {} /\ IsDigits(LastPart(s)) THEN Before(Before(s))
    ELSE IF LastPart(s) \in {<<w>> : w \in Suffixes} THEN Before(s)
    ELSE s

RawPieces == {"text", "quota text", "headers", "body", "quota body", "mute body"}

Messages == {"quota", "its own", "fallback"}

\* Everything but plain text starts and ends with a brace.
Braced(raw) == {i \in DOMAIN raw : raw[i] \notin {"text", "quota text"}}

\* Variant, not part of the specification.  TypeOK: the raw error is shown when
\* nothing can be made of it.
CleanMessageOrRaw(raw) ==
    LET found == Braced(raw)
    IN  IF Cardinality(found) = 1 /\ raw[Min(found)] = "body" THEN "its own"
        ELSE IF Range(raw) \cap {"quota text", "quota body"} # {} THEN "quota"
        ELSE "raw"

\* Variant, not part of the specification.  QuotaIsExplained: the phrase is
\* looked for in the message of the body only.
CleanMessageOfBody(raw) ==
    LET found == Braced(raw)
    IN  IF Cardinality(found) = 1 /\ raw[Min(found)] = "body" THEN "its own"
        ELSE IF Cardinality(found) = 1 /\ raw[Min(found)] = "quota body" THEN "quota"
        ELSE "fallback"

\* The text from the first brace to the last is JSON only when it is one body;
\* if that yields no message, the phrase is looked for in the whole text.
CleanMessage(raw) ==
    LET found == Braced(raw)
    IN  IF Cardinality(found) = 1 /\ raw[Min(found)] = "body" THEN "its own"
        ELSE IF Range(raw) \cap {"quota text", "quota body"} # {} THEN "quota"
        ELSE "fallback"
=============================================================================
