----------------------------- MODULE OwnedName -----------------------------
(***************************************************************************)
(* How the backends name what they create, as pure functions on short      *)
(* sequences of characters.  The lengths are scaled down: garm- is here    *)
(* g-, a controller part of 12 characters is ControllerMax, an app name of *)
(* 40 is NameMax, a readable VM prefix of 48 is PrefixMax.  Upper case is  *)
(* left out: lowering it makes names alike just as sanitize's dash does.   *)
(*                                                                         *)
(* A SHA-256 digest is what was digested, beside the text: two digests are *)
(* equal only if their inputs are, and no readable name looks like one.    *)
(***************************************************************************)
EXTENDS Integers, Sequences, SequencesExt

CONSTANTS
    Alphanumeric,   \* the characters sanitize keeps
    ControllerMax, NameMax, PrefixMax,
    DigestLen       \* the characters a digest takes up in an app name

Prefix == <<"g", "-">>

ASSUME LengthsAssumption ==
    /\ ControllerMax \in Nat \ {0} /\ DigestLen \in Nat \ {0}
    /\ PrefixMax \in Nat \ {0} /\ NameMax \in Nat
    \* 40 leaves room for garm-, a controller part, a dash, one character of
    \* the runner's name and the digest behind its own dash.
    /\ NameMax >= Len(Prefix) + ControllerMax + DigestLen + 3

\* strings.Trim and strings.TrimSpace.
Trim(s, c) == LET kept == {i \in DOMAIN s : s[i] # c}
              IN  IF kept = {} THEN <<>> ELSE SubSeq(s, Min(kept), Max(kept))
TrimSpace(s) == Trim(s, " ")

Take(s, n) == SubSeq(s, 1, IF Len(s) < n THEN Len(s) ELSE n)

\* Runs of other characters become one dash.
Dashed(in) ==
    LET out[n \in 0..Len(in)] ==
            IF n = 0 THEN <<>>
            ELSE IF in[n] \in Alphanumeric THEN Append(out[n - 1], in[n])
            ELSE IF n > 1 /\ in[n - 1] \notin Alphanumeric THEN out[n - 1]
            ELSE Append(out[n - 1], "-")
    IN  out[Len(in)]

\* mutant: sanitize keeps a dash at either end.
sanitizeUntrimmed(in) == Dashed(in)

sanitize(in) == Trim(Dashed(in), "-")

ControllerPart(controllerID) == Take(sanitize(controllerID), ControllerMax)

\* mutant: a long name is cut off, without a digest.
ownedNameTruncated(controllerID, requested) ==
    [text |-> Trim(Take(Prefix \o ControllerPart(controllerID) \o <<"-">>
                          \o sanitize(requested), NameMax), "-"),
     digest |-> <<>>]

ownedName(controllerID, requested) ==
    LET raw == Trim(Prefix \o ControllerPart(controllerID) \o <<"-">>
                      \o sanitize(requested), "-")
    IN  IF Len(raw) <= NameMax
        THEN [text |-> raw, digest |-> <<>>]
        ELSE [text |-> Trim(Take(raw, NameMax - DigestLen - 1), "-")
                         \o <<"-">>,
              digest |-> raw]

\* mutant: only the readable part of the name is digested.
ownedGuestNameCut(controllerID, requested) ==
    LET raw == sanitize(controllerID) \o <<"-">> \o sanitize(requested)
        text == Trim(Take(Trim(Prefix \o raw, "-"), PrefixMax), "-")
    IN  [text |-> text \o <<"-">>, digest |-> text]

\* vm-v1 and container-v1 digest always and do not cut the controller; the
\* separator, _ or -, makes no difference to which names are alike.
ownedGuestName(controllerID, requested) ==
    LET raw == sanitize(controllerID) \o <<"-">> \o sanitize(requested)
    IN  [text |-> Trim(Take(Trim(Prefix \o raw, "-"), PrefixMax), "-")
                    \o <<"-">>,
         digest |-> raw]

Length(name) == Len(name.text) + IF name.digest = <<>> THEN 0 ELSE DigestLen

\* garm-, something up to the next dash, and something behind it.
plausibleManagedAppName(name) ==
    /\ IsPrefix(Prefix, name.text)
    /\ LET remainder == SubSeq(name.text, Len(Prefix) + 1, Len(name.text))
           dashes == {i \in DOMAIN remainder : remainder[i] = "-"}
       IN  /\ dashes # {} /\ Min(dashes) > 1
           /\ Min(dashes) < Len(remainder) \/ name.digest # <<>>
=============================================================================
