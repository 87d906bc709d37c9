---------------------------- MODULE RewriteParser ----------------------------
(***************************************************************************)
(* parse_rewrite and resolve_rewrite_primitives (src/src/rewrite.cpp): the *)
(* parser that turns tokens into the flat arenas both back ends read.      *)
(*                                                                         *)
(* There is no recursion in the code: open calls, tuples and fan-outs are  *)
(* on a stack of contexts, and the arguments they have collected so far    *)
(* are linked lists inside one shared vector, pending_arguments.  A step   *)
(* is one turn of the parser's loop.                                       *)
(*                                                                         *)
(* A token stands for its kind, and a name for its spelling.  A position   *)
(* is the index of a token; a span is its first and last token.            *)
(***************************************************************************)
EXTENDS Integers, Sequences, SequencesExt

CONSTANTS
  Inputs,       \* the token sequences to parse
  Primitives,   \* names find_primitive knows
  OtherNames    \* names it does not know

Keywords == {"parameters", "fanout"}
NameTokens == Keywords \cup Primitives \cup OtherNames
Scalars == {"bool", "int", "double"}
Types == {"Bool", "Int", "Double"}
Blanks == {"space", "newline"}
Brackets == {"[", "]", "(", ")", "{", "}"}
\* A malformed number, a number out of range, and a byte of no token.
BadTokens == {"malformed_literal", "literal_range", "invalid_byte"}
End == "end"
TokenKinds == NameTokens \cup Scalars \cup Types \cup Blanks \cup Brackets
                \cup BadTokens \cup {"_"}

ASSUME InputsAssumption == Inputs \subseteq Seq(TokenKinds)
ASSUME NamesAssumption ==
  /\ Primitives \cap OtherNames = {}
  /\ (Primitives \cup OtherNames) \cap (Keywords \cup Scalars \cup Types \cup Blanks
       \cup Brackets \cup BadTokens \cup {"_", End}) = {}

VARIABLES
  tokens,        \* the input
  token_index,
  phase,         \* "header", "declarations", "body", "vector", "resolve", "done"
  header,        \* parameter_header: where its keyword and its end are, its declarations
  contexts,      \* the stack of open contexts
  pending,       \* pending_arguments
  completed,     \* completed_node, or 0 when have_expression is false
  vector,        \* what parse_vector_literal has read so far
  nodes, arguments, tuple_elements, fanout_branches, payload, roots,
  result         \* the diagnostic; its error is "none" until one is set

arenas == <<nodes, arguments, tuple_elements, fanout_branches, payload, roots>>
parser == <<token_index, header, contexts, pending, completed, vector>>
vars == <<tokens, phase, parser, arenas, result>>

-----------------------------------------------------------------------------
(***************************************************************************)
(* Tokens, nodes and contexts.                                             *)
(***************************************************************************)
TokenAt(i) == IF i \in DOMAIN tokens THEN tokens[i] ELSE End

\* The first position from i on whose token is not one of these.
SkipAll(kinds, i) ==
  CHOOSE j \in i .. Len(tokens) + 1 :
    TokenAt(j) \notin kinds /\ \A k \in i .. j - 1 : TokenAt(k) \in kinds

\* begin and end are the first and last token of the node; first and count its
\* range in the arena of its kind; of is the bracket of a call, the operand of
\* a fan-out or of a placeholder, the declaration of a parameter reference.
Node(kind, begin, end, first, count, of) ==
  [kind |-> kind, begin |-> begin, end |-> end, first |-> first, count |-> count, of |-> of]
Leaf(kind, at, of) == Node(kind, at, at, 0, 0, of)

\* 0 is no_index.
Context(kind, name, opening) ==
  [kind |-> kind, name |-> name, opening |-> opening,
   first_pending |-> 0, last_pending |-> 0, argument_count |-> 0, after_argument |-> FALSE]

NoVector == [opening |-> 0, type |-> "none", first |-> 0, count |-> 0]
NoHeader == [present |-> FALSE, keyword |-> 0, closing |-> 0, names |-> <<>>]
NoError == [error |-> "none", at |-> 0]

Top == contexts[Len(contexts)]
Popped == SubSeq(contexts, 1, Len(contexts) - 1)
TopKind == IF contexts = <<>> THEN "none" ELSE Top.kind
Delimited == {"bracket_call", "tuple_literal"}

\* set_diagnostic, set_parameter_diagnostic
Diagnose(error, at) ==
  /\ result' = [error |-> error, at |-> at]
  /\ phase' = "done"
  /\ UNCHANGED <<tokens, parser, arenas>>

-----------------------------------------------------------------------------
(***************************************************************************)
(* Pending arguments and finished nodes.                                   *)
(***************************************************************************)

\* append_pending_argument: what becomes of the context, and of the vector.
Appended(context) ==
  [context EXCEPT !.first_pending = IF @ = 0 THEN Len(pending) + 1 ELSE @,
                  !.last_pending = Len(pending) + 1,
                  !.argument_count = @ + 1]

PendingWith(context, node) ==
  LET linked == IF context.first_pending = 0 THEN pending
                ELSE [pending EXCEPT ![context.last_pending].next = Len(pending) + 1]
  IN  Append(linked, [node |-> node, next |-> 0])

\* The nodes of a context's list, followed from first_pending.
Collected(list, context) ==
  LET walk[i \in 0 .. Len(list)] ==
        IF i = 0 THEN <<>> ELSE <<list[i].node>> \o walk[list[i].next]
  IN  walk[context.first_pending]

\* finish_call: the argument list of the context moves into the arena.
FinishCall(list, context, end) ==
  /\ arguments' = arguments \o Collected(list, context)
  /\ nodes' = Append(nodes, Node("primitive_call", context.name, end, Len(arguments) + 1,
                                 context.argument_count, context.opening))
  /\ UNCHANGED <<tuple_elements, fanout_branches, payload, roots>>

\* finish_tuple
FinishTuple(context, end) ==
  /\ tuple_elements' = tuple_elements \o Collected(pending, context)
  /\ nodes' = Append(nodes, Node("tuple_literal", context.opening, end,
                                 Len(tuple_elements) + 1, context.argument_count, 0))
  /\ UNCHANGED <<arguments, fanout_branches, payload, roots>>

\* Mutant: the range starts at the first branch of the program.
FinishFanout_FirstBranch(context, end) ==
  /\ nodes' = Append(nodes, Node("fanout", context.name, end, 1, context.argument_count - 1,
                                 pending[context.first_pending].node))
  /\ UNCHANGED <<arguments, tuple_elements, fanout_branches, payload, roots>>

\* finish_fanout: its branches are the last ones of the arena.
FinishFanout(context, end) ==
  /\ nodes' = Append(nodes, Node("fanout", context.name, end,
                                 Len(fanout_branches) - (context.argument_count - 1) + 1,
                                 context.argument_count - 1,
                                 pending[context.first_pending].node))
  /\ UNCHANGED <<arguments, tuple_elements, fanout_branches, payload, roots>>

AddNode(node) ==
  /\ nodes' = Append(nodes, node)
  /\ UNCHANGED <<arguments, tuple_elements, fanout_branches, payload, roots>>

\* inspect_branch_placeholder: the placeholders below a node in source order,
\* each with whether a tuple literal owns it.  It does not enter a fan-out.
Children(n) ==
  CASE nodes[n].kind = "primitive_call" ->
         SubSeq(arguments, nodes[n].first, nodes[n].first + nodes[n].count - 1)
    [] nodes[n].kind = "tuple_literal" ->
         SubSeq(tuple_elements, nodes[n].first, nodes[n].first + nodes[n].count - 1)
    [] OTHER -> <<>>
Placeholders(n) ==
  LET inspect[<<m, owned>> \in (1 .. n) \X BOOLEAN] ==
        IF nodes[m].kind = "placeholder" THEN <<[node |-> m, owned |-> owned]>>
        ELSE LET below == owned \/ nodes[m].kind = "tuple_literal"
             IN  FlattenSeq([p \in 1 .. Len(Children(m)) |-> inspect[<<Children(m)[p], below>>]])
  IN  inspect[<<n, FALSE>>]

-----------------------------------------------------------------------------
(***************************************************************************)
(* parse_parameter_header.                                                 *)
(***************************************************************************)

Init ==
  /\ tokens \in Inputs
  /\ token_index = 1 /\ phase = "header" /\ header = NoHeader
  /\ contexts = <<>> /\ pending = <<>> /\ completed = 0 /\ vector = NoVector
  /\ nodes = <<>> /\ arguments = <<>> /\ tuple_elements = <<>> /\ fanout_branches = <<>>
  /\ payload = [type \in Scalars |-> <<>>] /\ roots = <<>>
  /\ result = NoError

MoveTo(i, next) ==
  /\ token_index' = i
  /\ phase' = next
  /\ UNCHANGED <<tokens, contexts, pending, completed, vector, arenas, result>>

\* The header is optional; its keyword is recognised after any blanks.
BeginHeader ==
  LET first == SkipAll(Blanks, token_index)
  IN  /\ phase = "header"
      /\ \/ /\ TokenAt(first) # "parameters"
            /\ MoveTo(token_index, "body") /\ UNCHANGED header
         \/ /\ TokenAt(first) = "parameters" /\ TokenAt(first + 1) # "["
            /\ Diagnose("expected_header_open", first + 1)
         \/ /\ TokenAt(first) = "parameters" /\ TokenAt(first + 1) = "["
            /\ header' = [NoHeader EXCEPT !.present = TRUE, !.keyword = first]
            /\ MoveTo(SkipAll(Blanks, first + 2), "declarations")

\* parameter_name_spelling looks at the bytes: the literals true and false
\* are spelled like names.
SpelledLikeName == NameTokens \cup {"bool"}

\* One declaration: a name, blanks and a type.
Declaration ==
  LET i == token_index
      j == SkipAll(Blanks, i + 1)
  IN  /\ phase = "declarations"
      /\ TokenAt(i) \notin {"]", End}
      /\ \/ /\ TokenAt(i) \notin SpelledLikeName
            /\ Diagnose(IF TokenAt(i) \in Types THEN "expected_parameter_name"
                        ELSE "unexpected_header_token", i)
         \/ /\ TokenAt(i) \in SpelledLikeName
            /\ TokenAt(i + 1) \notin Blanks \/ TokenAt(j) \notin Types
            /\ Diagnose(IF TokenAt(j) \in {End, "]"} THEN "expected_parameter_type"
                        ELSE "unexpected_header_token", j)
         \/ /\ TokenAt(i) \in SpelledLikeName
            /\ TokenAt(i + 1) \in Blanks /\ TokenAt(j) \in Types
            /\ TokenAt(j + 1) \notin Blanks \cup {"]", End}
            /\ Diagnose("unexpected_header_token", j + 1)
         \/ /\ TokenAt(i) \in SpelledLikeName
            /\ TokenAt(i + 1) \in Blanks /\ TokenAt(j) \in Types
            /\ TokenAt(j + 1) \in Blanks \cup {"]", End}
            /\ header' = [header EXCEPT !.names = Append(@, i)]
            /\ MoveTo(SkipAll(Blanks, j + 1), "declarations")

\* The closing bracket, and nothing but spaces after it on its line.
EndHeader ==
  LET i == token_index
      j == SkipAll({"space"}, i + 1)
  IN  /\ phase = "declarations"
      /\ \/ /\ TokenAt(i) = End
            /\ Diagnose("missing_header_close", i)
         \/ /\ TokenAt(i) = "]" /\ TokenAt(j) \notin {"newline", End}
            /\ Diagnose("trailing_header_bytes", j)
         \/ /\ TokenAt(i) = "]" /\ TokenAt(j) \in {"newline", End}
            /\ header' = [header EXCEPT !.closing = i]
            /\ MoveTo(IF TokenAt(j) = End THEN j ELSE j + 1, "body")

-----------------------------------------------------------------------------
(***************************************************************************)
(* A complete expression goes to the innermost open context.               *)
(***************************************************************************)

\* Prefix calls take exactly this argument and are complete themselves.
CompletePrefix ==
  LET context == Appended(Top)
      list == PendingWith(Top, completed)
  IN  /\ phase = "body" /\ completed # 0 /\ TopKind = "prefix_call"
      /\ pending' = list
      /\ contexts' = Popped
      /\ FinishCall(list, context, nodes[completed].end)
      /\ completed' = Len(nodes')
      /\ UNCHANGED <<tokens, token_index, phase, header, vector, result>>

CompleteArgument ==
  /\ phase = "body" /\ completed # 0 /\ TopKind \notin {"none", "prefix_call"}
  /\ pending' = PendingWith(Top, completed)
  /\ contexts' = [contexts EXCEPT ![Len(contexts)] = [Appended(Top) EXCEPT !.after_argument = TRUE]]
  /\ completed' = 0
  /\ UNCHANGED <<tokens, token_index, phase, header, vector, arenas, result>>

\* A root ends its line.
CompleteRoot ==
  LET i == SkipAll({"space"}, token_index)
      t == TokenAt(i)
  IN  /\ phase = "body" /\ completed # 0 /\ contexts = <<>>
      /\ \/ /\ t \in {End, "newline"}
            /\ roots' = Append(roots, completed)
            /\ completed' = 0
            /\ phase' = IF t = End THEN "resolve" ELSE "body"
            /\ token_index' = IF t = End THEN i ELSE i + 1
            /\ UNCHANGED <<tokens, header, contexts, pending, vector, nodes, arguments,
                           tuple_elements, fanout_branches, payload, result>>
         \/ /\ t \notin {End, "newline"}
            /\ Diagnose(IF t \in BadTokens THEN t
                        ELSE IF t \in {"]", ")"} THEN "mismatched_delimiter"
                        ELSE "trailing_input", i)

-----------------------------------------------------------------------------
(***************************************************************************)
(* What the innermost open context expects next.                           *)
(***************************************************************************)
Waiting == phase = "body" /\ completed = 0
AfterArgument == contexts # <<>> /\ Top.after_argument

\* Blanks are skipped here except right after an opening bracket or a prefix
\* name, where they are skipped already.
Here ==
  IF TopKind \in {"none", "fanout", "fanout_branch"} \/ AfterArgument
  THEN SkipAll(Blanks, token_index) ELSE token_index
Token == TokenAt(Here)
Separated == TokenAt(token_index) \in Blanks

\* finish_fanout_branch, on a "}" after the body
FinishBranch ==
  LET root == pending[Top.first_pending].node
      found == Placeholders(root)
      fanout == contexts[Len(contexts) - 1]
  IN  /\ Waiting /\ TopKind = "fanout_branch" /\ AfterArgument /\ Token = "}"
      /\ \/ /\ nodes[root].kind # "primitive_call"
            /\ Diagnose("branch_root_not_primitive_call", nodes[root].begin)
         \/ /\ nodes[root].kind = "primitive_call" /\ Len(found) # 1
            /\ Diagnose("placeholder_count",
                        nodes[IF found = <<>> THEN root ELSE found[1].node].begin)
         \/ /\ nodes[root].kind = "primitive_call" /\ Len(found) = 1 /\ found[1].owned
            /\ Diagnose("placeholder_owned_position", nodes[found[1].node].begin)
         \/ /\ nodes[root].kind = "primitive_call" /\ Len(found) = 1 /\ ~found[1].owned
            /\ fanout_branches' = Append(fanout_branches,
                 [root |-> root, placeholder |-> found[1].node, opening |-> Top.opening,
                  closing |-> Here])
            /\ pending' = PendingWith(fanout, root)
            /\ contexts' = Append(SubSeq(contexts, 1, Len(contexts) - 2),
                                  [Appended(fanout) EXCEPT !.after_argument = TRUE])
            /\ token_index' = Here + 1
            /\ UNCHANGED <<tokens, phase, header, completed, vector, nodes, arguments,
                           tuple_elements, payload, roots, result>>

\* A branch is followed by its brace, a brace by a body.
BranchError ==
  /\ Waiting /\ TopKind = "fanout_branch"
  /\ \/ AfterArgument /\ Token # "}" /\ Diagnose("expected_branch_close", Here)
     \/ ~AfterArgument /\ Token \in {"}", End} /\ Diagnose("expected_branch_body", Here)

\* Mutant: a branch may touch what is before it.
OpenBranch_Adjacent ==
  /\ Waiting /\ TopKind = "fanout" /\ AfterArgument /\ Token = "{"
  /\ contexts' = Append(contexts, Context("fanout_branch", Here, Here))
  /\ token_index' = Here + 1
  /\ UNCHANGED <<tokens, phase, header, pending, completed, vector, arenas, result>>

\* A fan-out that has its operand takes a separated branch or its bracket.
OpenBranch ==
  /\ Waiting /\ TopKind = "fanout" /\ AfterArgument /\ Token = "{" /\ Separated
  /\ contexts' = Append(contexts, Context("fanout_branch", Here, Here))
  /\ token_index' = Here + 1
  /\ UNCHANGED <<tokens, phase, header, pending, completed, vector, arenas, result>>

CloseFanout ==
  /\ Waiting /\ TopKind = "fanout" /\ AfterArgument /\ Token = "]" /\ Top.argument_count # 1
  /\ contexts' = Popped
  /\ FinishFanout(Top, Here)
  /\ completed' = Len(nodes')
  /\ token_index' = Here + 1
  /\ UNCHANGED <<tokens, phase, header, pending, vector, result>>

FanoutError ==
  /\ Waiting /\ TopKind = "fanout"
  /\ \/ ~AfterArgument /\ Token \in {"]", End} /\ Diagnose("expected_fanout_operand", Here)
     \/ AfterArgument /\ Token = End /\ Diagnose("missing_fanout_close", Here)
     \/ /\ AfterArgument /\ Token = "]" /\ Top.argument_count = 1
        /\ Diagnose("expected_fanout_branch", Here)
     \/ AfterArgument /\ Token \notin {End, "]", "{"} /\ Diagnose("expected_branch_open", Here)
     \/ AfterArgument /\ Token = "{" /\ ~Separated /\ Diagnose("missing_separator", Here)

\* finish_delimited, on a "]" where an argument or the end may come
CloseDelimited ==
  /\ Waiting /\ TopKind \in Delimited /\ Token = "]"
  /\ contexts' = Popped
  /\ IF TopKind = "tuple_literal" THEN FinishTuple(Top, Here) ELSE FinishCall(pending, Top, Here)
  /\ completed' = Len(nodes')
  /\ token_index' = Here + 1
  /\ UNCHANGED <<tokens, phase, header, pending, vector, result>>

DelimitedError ==
  /\ Waiting /\ TopKind \in Delimited
  /\ \/ Token = End /\ Diagnose("missing_delimiter", Here)
     \/ Token = ")" /\ Diagnose("mismatched_delimiter", Here)
     \/ /\ AfterArgument /\ ~Separated /\ Token \notin {"]", ")", End}
        /\ Diagnose(IF Token = "invalid_byte" THEN "invalid_byte" ELSE "missing_separator", Here)

\* End of input between roots.
EndOfProgram ==
  /\ Waiting /\ contexts = <<>> /\ Token = End
  /\ MoveTo(Here, "resolve") /\ UNCHANGED header

-----------------------------------------------------------------------------
(***************************************************************************)
(* An expression begins.                                                   *)
(***************************************************************************)
AtOperand ==
  /\ Waiting
  /\ \/ TopKind = "none" /\ Token # End
     \/ TopKind = "prefix_call"
     \/ TopKind = "fanout_branch" /\ ~AfterArgument /\ Token \notin {"}", End}
     \/ TopKind = "fanout" /\ ~AfterArgument /\ Token \notin {"]", End}
     \/ /\ TopKind \in Delimited /\ (AfterArgument => Separated)
        /\ Token \notin {"]", ")", End}

\* The separator before this argument has been seen.
Begun ==
  IF contexts = <<>> THEN contexts
  ELSE [contexts EXCEPT ![Len(contexts)].after_argument = FALSE]

\* An expression of n tokens that is complete at once.
Take(node, n) ==
  /\ AddNode(node)
  /\ completed' = Len(nodes')
  /\ contexts' = Begun
  /\ token_index' = Here + n
  /\ UNCHANGED <<tokens, phase, header, pending, vector, result>>

Open(context, i) ==
  /\ contexts' = Append(Begun, context)
  /\ token_index' = i
  /\ UNCHANGED <<tokens, phase, header, pending, completed, vector, arenas, result>>

\* A second header, or one after a root: the diagnostic points back at the
\* header or at roots.front().
ParametersKeyword ==
  /\ AtOperand /\ contexts = <<>> /\ Token = "parameters"
  /\ Diagnose(IF header.present THEN "second_parameter_header"
              ELSE "parameter_header_after_root", Here)

ScalarLiteral ==
  /\ AtOperand /\ Token \in Scalars
  /\ Take(Leaf("scalar_literal", Here, 0), 1)

TupleLiteral ==
  /\ AtOperand /\ Token = "["
  /\ Open(Context("tuple_literal", Here, Here), SkipAll(Blanks, Here + 1))

TypedEmptyVector ==
  /\ AtOperand /\ Token \in Types
  /\ \/ /\ TokenAt(Here + 1) = "(" /\ TokenAt(Here + 2) = ")"
        /\ Take(Node("vector_literal", Here, Here + 2, 0, 0, Token), 3)
     \/ /\ TokenAt(Here + 1) # "(" \/ TokenAt(Here + 2) # ")"
        /\ Diagnose("invalid_vector_element", Here)

FanoutExpression ==
  /\ AtOperand /\ Token = "fanout"
  /\ \/ /\ \E c \in DOMAIN contexts : contexts[c].kind \in {"fanout", "fanout_branch"}
        /\ Diagnose("nested_fanout", Here)
     \/ /\ \A c \in DOMAIN contexts : contexts[c].kind \notin {"fanout", "fanout_branch"}
        /\ TokenAt(Here + 1) # "["
        /\ Diagnose("expected_fanout_open", Here + 1)
     \/ /\ \A c \in DOMAIN contexts : contexts[c].kind \notin {"fanout", "fanout_branch"}
        /\ TokenAt(Here + 1) = "["
        /\ Open(Context("fanout", Here, Here + 1), Here + 2)

\* A name.  A declared parameter is a reference unless a bracket touches it
\* or it stands before a space at the start of a root; any other name is a
\* call when a bracket or a space touches it.
Declared(i) == \E d \in DOMAIN header.names : TokenAt(header.names[d]) = TokenAt(i)
DeclarationOf(i) ==
  CHOOSE d \in DOMAIN header.names :
    /\ TokenAt(header.names[d]) = TokenAt(i)
    /\ \A e \in 1 .. d - 1 : TokenAt(header.names[e]) # TokenAt(i)
IsReference ==
  /\ Declared(Here)
  /\ TokenAt(Here + 1) # "["
  /\ ~(contexts = <<>> /\ TokenAt(Here + 1) = "space")
AtName == AtOperand /\ Token \in NameTokens \ {"fanout"} /\ ~(contexts = <<>> /\ Token = "parameters")

ParameterReference ==
  /\ AtName /\ IsReference
  /\ Take(Leaf("parameter_reference", Here, DeclarationOf(Here)), 1)

BracketCall ==
  /\ AtName /\ ~IsReference /\ TokenAt(Here + 1) = "["
  /\ Open(Context("bracket_call", Here, Here + 1), SkipAll(Blanks, Here + 2))

\* Mutant: the operand is not checked to be there.
PrefixCall_NoOperand ==
  /\ AtName /\ ~IsReference /\ TokenAt(Here + 1) = "space"
  /\ Open(Context("prefix_call", Here, 0), Here + 2)

PrefixCall ==
  /\ AtName /\ ~IsReference /\ TokenAt(Here + 1) = "space"
  /\ IF TokenAt(Here + 2) \in {End, "newline"}
     THEN Diagnose("expected_expression", Here + 2)
     ELSE Open(Context("prefix_call", Here, 0), Here + 2)

UnresolvedName ==
  /\ AtName /\ ~IsReference /\ TokenAt(Here + 1) \notin {"[", "space"}
  /\ Take(Leaf("unresolved_name", Here, 0), 1)

\* A placeholder stands for the operand of the innermost open fan-out.
OpenFanout ==
  CHOOSE c \in 0 .. Len(contexts) :
    /\ c # 0 => contexts[c].kind = "fanout"
    /\ \A d \in c + 1 .. Len(contexts) : contexts[d].kind # "fanout"
HasOperand == OpenFanout # 0 /\ contexts[OpenFanout].first_pending # 0

Placeholder ==
  /\ AtOperand /\ Token = "_"
  /\ IF HasOperand
     THEN Take(Leaf("placeholder", Here, pending[contexts[OpenFanout].first_pending].node), 1)
     ELSE Diagnose("unexpected_fanout_token", Here)

\* No expression begins with this token.
NoExpression ==
  /\ AtOperand /\ Token \in BadTokens \cup Blanks \cup {"]", ")", "{", "}"}
  /\ Diagnose(IF Token \in BadTokens THEN Token
              ELSE IF Token \in {"]", ")"} THEN "mismatched_delimiter"
              ELSE "invalid_byte", Here)

-----------------------------------------------------------------------------
(***************************************************************************)
(* parse_vector_literal.                                                   *)
(***************************************************************************)
ElementError(t) == IF t \in BadTokens THEN t ELSE "invalid_vector_element"

VectorLiteral ==
  LET i == SkipAll(Blanks, Here + 1)
      t == TokenAt(i)
  IN  /\ AtOperand /\ Token = "("
      /\ \/ t = End /\ Diagnose("missing_delimiter", i)
         \/ t = ")" /\ Diagnose("bare_empty_vector", Here)
         \/ t = "]" /\ Diagnose("mismatched_delimiter", i)
         \/ t \notin Scalars \cup {End, ")", "]"} /\ Diagnose(ElementError(t), i)
         \/ /\ t \in Scalars
            /\ vector' = [opening |-> Here, type |-> t, first |-> Len(payload[t]) + 1, count |-> 0]
            /\ phase' = "vector"
            /\ token_index' = i
            /\ contexts' = Begun
            /\ UNCHANGED <<tokens, header, pending, completed, arenas, result>>

StoreElement(t) == [payload EXCEPT ![t] = Append(@, token_index)]

\* One element and what follows it: the end, or a separator and another.
VectorElement ==
  LET t == TokenAt(token_index)
      i == SkipAll(Blanks, token_index + 1)
      grown == [vector EXCEPT !.count = @ + 1]
  IN  /\ phase = "vector"
      /\ \/ t \notin Scalars /\ Diagnose(ElementError(t), token_index)
         \/ t \in Scalars \ {vector.type} /\ Diagnose("heterogeneous_vector", token_index)
         \/ t = vector.type /\ TokenAt(i) = End /\ Diagnose("missing_delimiter", i)
         \/ t = vector.type /\ TokenAt(i) = "]" /\ Diagnose("mismatched_delimiter", i)
         \/ /\ t = vector.type /\ i = token_index + 1 /\ TokenAt(i) \notin {End, ")", "]"}
            /\ Diagnose(IF TokenAt(i) = "invalid_byte" THEN "invalid_byte"
                        ELSE "missing_separator", i)
         \/ /\ t = vector.type /\ i # token_index + 1 /\ TokenAt(i) \notin {End, ")", "]"}
            /\ payload' = StoreElement(t)
            /\ vector' = grown
            /\ token_index' = i
            /\ UNCHANGED <<tokens, phase, header, contexts, pending, completed, nodes, arguments,
                           tuple_elements, fanout_branches, roots, result>>
         \/ /\ t = vector.type /\ TokenAt(i) = ")"
            /\ payload' = StoreElement(t)
            /\ vector' = NoVector
            /\ nodes' = Append(nodes, Node("vector_literal", vector.opening, i, vector.first,
                                           grown.count, vector.type))
            /\ completed' = Len(nodes')
            /\ phase' = "body"
            /\ token_index' = i + 1
            /\ UNCHANGED <<tokens, header, contexts, pending, arguments, tuple_elements,
                           fanout_branches, roots, result>>

-----------------------------------------------------------------------------
(***************************************************************************)
(* resolve_rewrite_primitives.                                             *)
(***************************************************************************)
\* The first declaration that repeats a name, or that reserves one.
Repeats(d) == \E e \in 1 .. d - 1 : TokenAt(header.names[e]) = TokenAt(header.names[d])
Reserved(d) == TokenAt(header.names[d]) \in Keywords \cup Primitives \cup {"bool"}
BadDeclarations == {d \in DOMAIN header.names : Repeats(d) \/ Reserved(d)}

\* Calls of a name that is no primitive, and bare names.
Unknown ==
  {n \in DOMAIN nodes :
     \/ nodes[n].kind = "unresolved_name"
     \/ nodes[n].kind = "primitive_call" /\ TokenAt(nodes[n].begin) \notin Primitives}

Least(S) == CHOOSE x \in S : \A y \in S : x <= y

Resolve ==
  /\ phase = "resolve"
  /\ \/ /\ BadDeclarations # {}
        /\ LET d == Least(BadDeclarations)
           IN  Diagnose(IF Repeats(d) THEN "duplicate_parameter_name"
                        ELSE "reserved_parameter_name", header.names[d])
     \/ /\ BadDeclarations = {} /\ Unknown # {}
        /\ Diagnose("unknown_primitive", Least({nodes[n].begin : n \in Unknown}))
     \/ /\ BadDeclarations = {} /\ Unknown = {}
        /\ phase' = "done"
        /\ UNCHANGED <<tokens, parser, arenas, result>>

Next ==
  \/ BeginHeader \/ Declaration \/ EndHeader
  \/ CompletePrefix \/ CompleteArgument \/ CompleteRoot
  \/ FinishBranch \/ BranchError \/ OpenBranch \/ CloseFanout \/ FanoutError
  \/ CloseDelimited \/ DelimitedError \/ EndOfProgram
  \/ ParametersKeyword \/ ScalarLiteral \/ TupleLiteral \/ TypedEmptyVector
  \/ FanoutExpression \/ ParameterReference \/ BracketCall \/ PrefixCall
  \/ UnresolvedName \/ Placeholder \/ NoExpression
  \/ VectorLiteral \/ VectorElement \/ Resolve

\* Fairness: the parser is a loop of the calling thread that nothing interrupts.
Spec == Init /\ [][Next]_vars /\ WF_vars(Next)

-----------------------------------------------------------------------------
(***************************************************************************)
(* Properties.                                                             *)
(***************************************************************************)
Accepted == phase = "done" /\ result.error = "none"

\* The nodes each node is built from.
Operands(n) ==
  IF nodes[n].kind = "fanout"
  THEN <<nodes[n].of>> \o [b \in 1 .. nodes[n].count |-> fanout_branches[nodes[n].first + b - 1].root]
  ELSE Children(n)

\* At every step of parse_rewrite, each node made so far is in exactly one
\* place: in one arena range, among the roots, in the pending list of one open
\* context, or it is the expression just completed.  Nothing is dropped and
\* nothing is used twice, whatever is open and wherever the source breaks off.
NodesHeldOnce ==
  LET waiting == [c \in DOMAIN contexts |->
                    IF contexts[c].kind = "fanout" /\ contexts[c].argument_count > 0
                    THEN <<Collected(pending, contexts[c])[1]>>
                    ELSE Collected(pending, contexts[c])]
      operands == [n \in DOMAIN nodes |-> IF nodes[n].kind = "fanout" THEN <<nodes[n].of>> ELSE <<>>]
      held == arguments \o tuple_elements \o roots
                \o [b \in DOMAIN fanout_branches |-> fanout_branches[b].root]
                \o FlattenSeq(waiting) \o FlattenSeq(operands)
                \o (IF completed = 0 THEN <<>> ELSE <<completed>>)
  IN  Len(held) = Len(nodes) /\ ToSet(held) = DOMAIN nodes

\* The arena is in postorder: what a node is built from is exactly the run of
\* nodes just before it.  The evaluator and the emitter both run the arena from
\* front to back and rely on it.
ArenaIsPostorder ==
  LET size[n \in DOMAIN nodes] ==
        1 + FoldLeft(LAMBDA sum, m : sum + size[m], 0, Operands(n))
  IN  \A n \in DOMAIN nodes :
        LET below == Operands(n)
        IN  \A p \in DOMAIN below :
              below[p] = IF p = Len(below) THEN n - 1 ELSE below[p + 1] - size[below[p + 1]]

\* finish_fanout counts its branches back from the end of one shared arena: the
\* range it records is its own branches, inside its brackets, and the
\* placeholder of each stands for its operand and no other fan-out's.
FanoutsOwnTheirBranches ==
  \A n \in DOMAIN nodes :
    nodes[n].kind = "fanout" =>
      /\ nodes[n].count > 0
      /\ \A b \in nodes[n].first .. nodes[n].first + nodes[n].count - 1 :
           /\ nodes[n].begin < fanout_branches[b].opening /\ fanout_branches[b].closing < nodes[n].end
           /\ nodes[fanout_branches[b].placeholder].of = nodes[n].of

\* The tokens a node was made from, read back from the arenas.
TokensOf(n) ==
  LET read[m \in 1 .. n] ==
        LET parts == [p \in 1 .. Len(Operands(m)) |-> read[Operands(m)[p]]]
            branches == [b \in 1 .. nodes[m].count |->
                           LET branch == fanout_branches[nodes[m].first + b - 1]
                           IN  <<branch.opening>> \o parts[b + 1] \o <<branch.closing>>]
        IN  CASE nodes[m].kind = "primitive_call" /\ nodes[m].of = 0 ->
                   <<nodes[m].begin>> \o FlattenSeq(parts)
              [] nodes[m].kind = "primitive_call" /\ nodes[m].of # 0 ->
                   <<nodes[m].begin, nodes[m].of>> \o FlattenSeq(parts) \o <<nodes[m].end>>
              [] nodes[m].kind = "tuple_literal" ->
                   <<nodes[m].begin>> \o FlattenSeq(parts) \o <<nodes[m].end>>
              [] nodes[m].kind = "fanout" ->
                   <<nodes[m].begin, nodes[m].begin + 1>> \o parts[1] \o FlattenSeq(branches)
                     \o <<nodes[m].end>>
              [] nodes[m].kind = "vector_literal" /\ nodes[m].count = 0 ->
                   <<nodes[m].begin, nodes[m].begin + 1, nodes[m].end>>
              [] nodes[m].kind = "vector_literal" /\ nodes[m].count # 0 ->
                   <<nodes[m].begin>>
                     \o SubSeq(payload[nodes[m].of], nodes[m].first, nodes[m].first + nodes[m].count - 1)
                     \o <<nodes[m].end>>
              [] OTHER -> <<nodes[m].begin>>
  IN  read[n]

\* An accepted program is its source: reading the roots back from the arenas
\* gives every token of the source that is not blank, in order and once.
ReadsBack ==
  Accepted =>
    LET significant == SelectSeq([i \in DOMAIN tokens |-> i],
                                 LAMBDA i : tokens[i] \notin Blanks /\ i > header.closing)
    IN  FlattenSeq([r \in DOMAIN roots |-> TokensOf(roots[r])]) = significant

\* The arenas are the program: no node is lost or held twice at any step, they
\* are in the order the back ends run them in, every fan-out has its own
\* branches, and the whole reads back as the source.
RoundTrip == NodesHeldOnce /\ ArenaIsPostorder /\ FanoutsOwnTheirBranches /\ ReadsBack

\* parse_rewrite returns on every input.
Terminates == <>(phase = "done")

=============================================================================
