------------------------------ MODULE MCParser ------------------------------
(***************************************************************************)
(* Inputs for RewriteParser: every short sequence over a few tokens, and   *)
(* every sequence that one edit makes of a program that uses headers, fan- *)
(* outs, vectors, tuples and nested calls.                                 *)
(***************************************************************************)
EXTENDS RewriteGrammar

CONSTANTS ShortLength, ShortTokens, EditTokens

MCPrimitives == {"inc", "add"}
MCOtherNames == {"x"}

\* What tokenize_rewrite can produce: words that touch would be one word, and
\* spaces that touch are one token.
Words == NameTokens \cup Scalars \cup Types \cup {"malformed_literal", "literal_range"}
Tokenized(s) ==
  \A i \in 1 .. Len(s) - 1 :
    /\ ~(s[i] = "space" /\ s[i + 1] = "space")
    /\ ~(s[i] \in Words /\ s[i + 1] \in Words \cup {"_"})

Short == UNION {[1 .. n -> ShortTokens] : n \in 0 .. ShortLength}

HeaderSeed ==
  <<"newline", "parameters", "[", "x", "space", "Int", "]", "newline",
    "add", "[", "x", "space", "int", "]">>
RootSeed == <<"parameters", "[", "x", "space", "Int", "]", "newline", "x", "newline", "inc", "space", "x">>
FanoutSeed ==
  <<"fanout", "[", "int", "space", "{", "inc", "[", "_", "]", "}", "space",
    "{", "inc", "space", "_", "}", "]">>
TwoFanoutsSeed ==
  <<"[", "fanout", "[", "bool", "space", "{", "inc", "[", "_", "]", "}", "]", "space",
    "fanout", "[", "int", "newline", "{", "add", "[", "int", "space", "_", "]", "}", "]", "]">>
VectorSeed ==
  <<"[", "(", "int", "newline", "int", ")", "space", "Int", "(", ")", "space", "(", "bool", ")", "]">>
CallSeed ==
  <<"add", "[", "[", "int", "]", "space", "inc", "space", "inc", "space", "bool", "]", "newline", "inc",
    "space", "int">>
Seeds == {HeaderSeed, RootSeed, FanoutSeed, TwoFanoutsSeed, VectorSeed, CallSeed}

EditsOf(s) ==
  {RemoveAt(s, i) : i \in DOMAIN s}
    \cup {[s EXCEPT ![i] = t] : i \in DOMAIN s, t \in EditTokens}
    \cup {InsertAt(s, i, t) : i \in 1 .. Len(s) + 1, t \in EditTokens}
    \cup {SubSeq(s, 1, i) : i \in 0 .. Len(s)}

MCInputs == {s \in Short \cup UNION {EditsOf(seed) : seed \in Seeds} : Tokenized(s)}
=============================================================================
