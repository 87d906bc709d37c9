--------------------------- MODULE RewriteGrammar ---------------------------
(***************************************************************************)
(* The source grammar as the specification documents write it              *)
(* (src/spec/bennu-spec-0002, sections 5 to 9, bennu-spec-0005, section 3, *)
(* bennu-spec-0007, section 3): which token sequences are programs.  It is *)
(* the reference RewriteParser is checked against, and takes nothing from  *)
(* the parser but the kinds of tokens.                                     *)
(*                                                                         *)
(* A derivation of a production from a position is where it ends, how many *)
(* placeholders it has, whether a tuple owns one, and whether it is an     *)
(* application.                                                            *)
(***************************************************************************)
EXTENDS RewriteParser

At(s, i) == IF i \in DOMAIN s THEN s[i] ELSE End
After(s, i) == CHOOSE j \in i .. Len(s) + 1 :
                 At(s, j) \notin Blanks /\ \A k \in i .. j - 1 : At(s, k) \in Blanks
Derived(end, places, owned, call) == [end |-> end, places |-> places, owned |-> owned, call |-> call]

RECURSIVE Expression(_, _, _, _), Items(_, _, _, _), Branches(_, _, _, _)

\* One or more expressions with separators between them, and the bracket.
Items(s, i, names, branch) ==
  UNION {LET k == After(s, e.end)
         IN  IF At(s, k) = "]" THEN {[e EXCEPT !.end = k + 1]}
             ELSE IF k = e.end THEN {}
             ELSE {Derived(r.end, e.places + r.places, e.owned \/ r.owned, FALSE) :
                     r \in Items(s, k, names, branch)} :
         e \in Expression(s, i, names, branch)}

Interior(s, i, names, branch) ==
  LET j == After(s, i)
  IN  IF At(s, j) = "]" THEN {Derived(j + 1, 0, FALSE, FALSE)} ELSE Items(s, j, names, branch)

\* Branches up to the bracket of the fan-out, after one was read or not.
Branches(s, i, names, some) ==
  LET k == After(s, i)
  IN  IF At(s, k) = "]" THEN IF some THEN {k + 1} ELSE {}
      ELSE IF k = i \/ At(s, k) # "{" THEN {}
      ELSE UNION {Branches(s, After(s, e.end) + 1, names, TRUE) :
                    e \in {d \in Expression(s, After(s, k + 1), names, TRUE) :
                             d.call /\ d.places = 1 /\ ~d.owned /\ At(s, After(s, d.end)) = "}"}}

VectorEnds(s, i) ==
  {j \in i + 2 .. Len(s) :
     /\ s[j] = ")"
     /\ \E k \in i + 1 .. j - 1 : s[k] \notin Blanks
     /\ \A k \in i + 1 .. j - 1 : s[k] \in Blanks \cup Scalars
     /\ \A k, l \in i + 1 .. j - 1 : s[k] \in Scalars /\ s[l] \in Scalars => s[k] = s[l]
     /\ \A k \in i + 1 .. j - 2 : s[k] \in Blanks \/ s[k + 1] \in Blanks}

Expression(s, i, names, branch) ==
  LET t == At(s, i)
      plain(ends) == {Derived(e, 0, FALSE, FALSE) : e \in ends}
  IN  CASE t \in Scalars -> plain({i + 1})
        [] t = "_" -> IF branch THEN {Derived(i + 1, 1, FALSE, FALSE)} ELSE {}
        [] t \in Types -> IF At(s, i + 1) = "(" /\ At(s, i + 2) = ")" THEN plain({i + 3}) ELSE {}
        [] t = "(" -> plain({j + 1 : j \in VectorEnds(s, i)})
        [] t = "[" -> {Derived(d.end, d.places, d.places > 0, FALSE) :
                         d \in Interior(s, i + 1, names, branch)}
        [] t = "fanout" ->
             IF branch \/ At(s, i + 1) # "[" THEN {}
             ELSE UNION {plain(Branches(s, e.end, names, FALSE)) :
                           e \in {d \in Expression(s, After(s, i + 2), names, FALSE) :
                                    \A k \in i + 1 .. d.end - 1 : At(s, k) # "fanout"}}
        [] t \in Primitives ->
             {[d EXCEPT !.call = TRUE] : d \in
                IF At(s, i + 1) = "[" THEN Interior(s, i + 2, names, branch)
                ELSE IF At(s, i + 1) = "space" THEN Expression(s, i + 2, names, branch)
                ELSE {}}
        [] t \in names -> plain({i + 1})
        [] OTHER -> {}

\* A root, spaces, and the end of its line.
RECURSIVE Roots(_, _, _)
Roots(s, i, names) ==
  LET j == After(s, i)
  IN  \/ At(s, j) = End
      \/ \E e \in Expression(s, j, names, FALSE) :
           \E k \in e.end .. Len(s) + 1 :
             /\ \A l \in e.end .. k - 1 : s[l] = "space"
             /\ At(s, k) = End \/ (At(s, k) = "newline" /\ Roots(s, k + 1, names))

\* Declarations up to the bracket: where they end and the names, in order.
RECURSIVE Declarations(_, _, _)
Declarations(s, i, names) ==
  LET j == After(s, i)
      k == After(s, j + 1)
  IN  IF At(s, j) = "]" THEN {[end |-> j + 1, names |-> names]}
      ELSE IF /\ At(s, j) \in OtherNames /\ k # j + 1 /\ At(s, k) \in Types
              /\ names # <<>> => j # i
           THEN Declarations(s, k + 1, Append(names, s[j]))
           ELSE {}

\* Every accepted source is one of these.
Grammatical(s) ==
  LET first == After(s, 1)
  IN  IF At(s, first) # "parameters" THEN Roots(s, 1, {})
      ELSE /\ At(s, first + 1) = "["
           /\ \E d \in Declarations(s, first + 2, <<>>) :
                /\ IsInjective(d.names)
                /\ \E k \in d.end .. Len(s) + 1 :
                     /\ \A l \in d.end .. k - 1 : s[l] = "space"
                     /\ At(s, k) = End \/ (At(s, k) = "newline" /\ Roots(s, k + 1, ToSet(d.names)))

-----------------------------------------------------------------------------
\* A root that is a parameter and has a space after it.
SpacedParameterRoot(s) ==
  \E i \in 1 .. Len(s) - 1 :
    /\ s[i] \in OtherNames /\ s[i + 1] = "space"
    /\ At(s, SelectLastInSubSeq(s, 1, i - 1, LAMBDA t : t # "space")) \in {End, "newline"}

\* What parse_rewrite and resolve_rewrite_primitives accept is what the
\* specification's grammar derives, apart from a root that is a parameter name
\* with a space after it: bennu-spec-0002, section 1, demands that a parser "must
\* accept and reject the same source" without an exception.
AcceptsTheGrammar ==
  phase = "done" =>
    /\ Accepted => Grammatical(tokens)
    /\ Grammatical(tokens) /\ ~Accepted => SpacedParameterRoot(tokens)

=============================================================================
