--------------------------- MODULE MakeConditions ----------------------------
(***************************************************************************)
(* Under which configuration a file is built: the conditions a Makefile    *)
(* puts on its members (parsers/makefiles.py), the guarded_by_macro        *)
(* relations made of them (indexing/code_indexer.py), and the state of     *)
(* each file in a profile (indexing/relation_extractor.py), which profile  *)
(* queries report (query/profile_query.py).                                *)
(*                                                                         *)
(* A Makefile is a sequence of lines: <<"if", test>>, <<"else if", test>>, *)
(* <<"else">>, <<"endif">> and <<"add", file, macro>>, an assignment to    *)
(* obj-y, or to obj-$(macro).  A test is <<"ifdef", m>>, <<"ifndef", m>>,  *)
(* or <<"ifeq", m>> and <<"ifneq", m>>, which compare $(m) with y.         *)
(* A condition is a set of literals, joined by && in the code.  A          *)
(* configuration is a sequence of lines, too: <<"set", macro, value>>,     *)
(* <<"unset", macro>>, which is written as a comment, and <<"other">>.     *)
(***************************************************************************)
EXTENDS Integers, Sequences, FiniteSets, SequencesExt, FiniteSetsExt

CONSTANTS
  Lines,        \* the lines a Makefile may hold
  MaxLines,     \* bound: lines of the Makefile
  Macros, Files,
  Always,       \* an assignment to obj-y
  ConfigPairs   \* pairs of a defconfig and a .config

ASSUME MakeAssumption == MaxLines \in Nat /\ Always \notin Macros

VARIABLES
  makefile,
  conditioned  \* profile-conditioned relations: records of entity (of), macro and type

makeVars == <<makefile, conditioned>>

RECURSIVE EvalExpr(_, _)

-----------------------------------------------------------------------------
\* parse_makefile.  _build_condition_expression and _classify_source_binding:
Literal(test) ==
  CASE test[1] = "ifdef" -> <<"macro", test[2]>>
    [] test[1] = "ifndef" -> <<"not", {<<"macro", test[2]>>}>>
    [] OTHER -> test

Binding(macro) == IF macro = Always THEN {} ELSE {<<"macro", macro>>}

\* The directives; an endif or else without an if is only warned of.
PushIf(stack, test) == Append(stack, [expr |-> {Literal(test)}, macros |-> {test[2]}])

ElseFrame(stack, extra) ==
  IF stack = <<>> THEN stack
  ELSE Append(Front(stack),
              [expr |-> {<<"not", Last(stack).expr>>} \cup {Literal(t) : t \in extra},
               macros |-> Last(stack).macros \cup {t[2] : t \in extra}])

PopIf(stack) == IF stack = <<>> THEN stack ELSE Front(stack)

\* _merge_conditions and add_file
Member(stack, file, macro) ==
  [file |-> file,
   expr |-> (UNION {stack[n].expr : n \in DOMAIN stack}) \cup Binding(macro),
   macros |-> (UNION {stack[n].macros : n \in DOMAIN stack}) \cup ({macro} \ {Always})]

ParseLine(parsed, line) ==
  CASE line[1] = "if" -> [parsed EXCEPT !.stack = PushIf(@, line[2])]
    [] line[1] = "else if" -> [parsed EXCEPT !.stack = ElseFrame(@, {line[2]})]
    [] line[1] = "else" -> [parsed EXCEPT !.stack = ElseFrame(@, {})]
    [] line[1] = "endif" -> [parsed EXCEPT !.stack = PopIf(@)]
    [] line[1] = "add" -> [parsed EXCEPT !.members = @ \cup {Member(parsed.stack, line[2], line[3])}]

Members(lines) == FoldLeft(ParseLine, [stack |-> <<>>, members |-> {}], lines).members

-----------------------------------------------------------------------------
\* The entities: a file, a symbol it defines, the module of the Makefile.
Entities == ({"file", "symbol"} \X Files) \cup {<<"module", "">>}
Parents(entity) == IF entity[1] = "symbol" THEN {<<"file", entity[2]>>} ELSE {}

\* The fragments of the guarded_by_macro relations of a file; relations without
\* macros have none.
DirectConditions(lines, file) ==
  {[expr |-> m.expr, macros |-> m.macros] : m \in {x \in Members(lines) : x.file = file /\ x.macros # {}}}

Combine(fragments) ==
  [expr |-> UNION {c.expr : c \in fragments}, macros |-> UNION {c.macros : c \in fragments}]

\* A module is guarded by the macros of all its members.
ModuleCondition(lines) ==
  LET macros == UNION {m.macros : m \in Members(lines)}
  IN [expr |-> {<<"macro", m>> : m \in macros}, macros |-> macros]

OwnCondition(lines, entity) ==
  CASE entity[1] = "file" -> Combine(DirectConditions(lines, entity[2]))
    [] entity[1] = "module" -> ModuleCondition(lines)
    [] OTHER -> Combine({})

\* _resolve_effective_conditions: what a file defines inherits its condition.
Condition(lines, entity) ==
  Combine({OwnCondition(lines, e) : e \in {entity} \cup Parents(entity)})

\* _parse_config: "is not set" says n, what is neither that nor an assignment is
\* skipped, and of two lines about a macro the later one stands.
ConfigLine(assigned, line) ==
  CASE line[1] = "set" -> [assigned EXCEPT ![line[2]] = line[3]]
    [] line[1] = "unset" -> [assigned EXCEPT ![line[2]] = "n"]
    [] OTHER -> assigned

ParseConfig(lines) == FoldLeft(ConfigLine, [m \in Macros |-> "none"], lines)

\* merge_macro_assignments: .config decides.
Merged(defconfig, dotconfig) == [m \in Macros |-> IF dotconfig[m] # "none" THEN dotconfig[m] ELSE defconfig[m]]

\* parse_profile_config and profile_macro_assignments
Assignments(config) == Merged(ParseConfig(config[1]), ParseConfig(config[2]))

\* _normalize_config_value, and _macro_truth of what it returns.
MacroTruth(value) ==
  CASE value = "none" -> "none" [] value \in {"n", "0", ""} -> "false" [] OTHER -> "true"

\* _eval_equality_call
IsYes(value) == CASE value = "none" -> "none" [] value = "y" -> "true" [] OTHER -> "false"
Not(truth) == CASE truth = "true" -> "false" [] truth = "false" -> "true" [] OTHER -> "none"

\* Mutant: what is unknown does not hinder.
AllOfKnown(truths) == IF "false" \in truths THEN "false" ELSE "true"

AllOf(truths) ==
  IF "false" \in truths THEN "false" ELSE IF "none" \in truths THEN "none" ELSE "true"

\* _eval_expr
EvalLiteral(literal, assigned) ==
  CASE literal[1] = "macro" -> MacroTruth(assigned[literal[2]])
    [] literal[1] = "ifeq" -> IsYes(assigned[literal[2]])
    [] literal[1] = "ifneq" -> Not(IsYes(assigned[literal[2]]))
    [] literal[1] = "not" -> Not(EvalExpr(literal[2], assigned))

EvalExpr(expr, assigned) == AllOf({EvalLiteral(l, assigned) : l \in expr})

RelationType == [true |-> "enabled_by", false |-> "disabled_by", none |-> "unknown_by"]

\* ProfileConditionedRelationExtractor.collect
Conditioned(lines, assigned) ==
  UNION {LET c == Condition(lines, e)
         IN {[of |-> e, macro |-> m, type |-> RelationType[EvalExpr(c.expr, assigned)]] : m \in c.macros} : e \in Entities}

\* summarize_entity_profile_states
ProfileState(relations, entity) ==
  LET types == {r.type : r \in {x \in relations : x.of = entity}}
  IN IF types = {} THEN "not_applicable"
     ELSE IF "unknown_by" \in types THEN "unknown"
     ELSE IF "disabled_by" \in types THEN "disabled" ELSE "enabled"

\* _build_profile_matrix_item: the files listed under a macro.
AffectedFiles(relations, macro) ==
  {f \in Files : \E r \in relations : r.macro = macro /\ r.of = <<"file", f>>}

-----------------------------------------------------------------------------
\* A developer writes the Makefile; a run indexes it in a profile.
Uncollected == [by |-> "none"]

WriteLine(line) ==
  /\ Len(makefile) < MaxLines
  /\ makefile' = Append(makefile, line)
  /\ UNCHANGED conditioned

Collect(config) ==
  /\ conditioned' = [by |-> config, relations |-> Conditioned(makefile, Assignments(config))]
  /\ UNCHANGED makefile

MakeInit == makefile = <<>> /\ conditioned = Uncollected

MakeNext ==
  \/ conditioned = Uncollected /\ \E line \in Lines : WriteLine(line)
  \/ conditioned = Uncollected /\ \E config \in ConfigPairs : Collect(config)

-----------------------------------------------------------------------------
\* What make does with the lines, for values of all macros: "y", "m", or "" for
\* what is not set.  A file is built for obj-y and for obj-m.  ok, while it accepts them; chained, the files it meets in the
\* branches after an else if.
Values == {"y", "m", ""}

Met(test, values) ==
  LET value == values[test[2]]
  IN CASE test[1] = "ifdef" -> value # ""
       [] test[1] = "ifndef" -> value = ""
       [] test[1] = "ifeq" -> value = "y"
       [] test[1] = "ifneq" -> value # "y"

MakeLine(state, line, values) ==
  LET n == Len(state.stack)
      top == Last(state.stack)
      reaches == \A i \in 1..n : state.stack[i].on
      branch(test) ==
        [state EXCEPT !.stack[n] = [on |-> ~top.taken /\ test, taken |-> top.taken \/ test, last |-> line[1] = "else",
                                    chained |-> top.chained \/ top.elseif, elseif |-> line[1] = "else if"]]
  IN CASE line[1] = "if" ->
            [state EXCEPT !.stack = Append(@, [on |-> Met(line[2], values), taken |-> Met(line[2], values),
                                               last |-> FALSE, chained |-> FALSE, elseif |-> FALSE])]
       [] line[1] = "add" ->
            [state EXCEPT !.built = IF reaches /\ (line[3] = Always \/ values[line[3]] # "") THEN @ \cup {line[2]} ELSE @,
                          !.chained = IF \E i \in 1..n : state.stack[i].chained THEN @ \cup {line[2]} ELSE @]
       [] n = 0 \/ (line[1] # "endif" /\ top.last) -> [state EXCEPT !.ok = FALSE]
       [] line[1] = "endif" -> [state EXCEPT !.stack = Front(@)]
       [] line[1] = "else" -> branch(TRUE)
       [] line[1] = "else if" -> branch(Met(line[2], values))

Make(lines, values) ==
  FoldLeft(LAMBDA state, line : IF state.ok THEN MakeLine(state, line, values) ELSE state,
           [stack |-> <<>>, built |-> {}, chained |-> {}, ok |-> TRUE], lines)

\* What a profile leaves open may turn out either way.
Completions(assigned) ==
  {v \in [Macros -> Values] : \A m \in Macros : assigned[m] # "none" => v[m] = IF assigned[m] = "n" THEN "" ELSE assigned[m]}

NamedOnce(file) == Cardinality({n \in DOMAIN makefile : makefile[n][1] = "add" /\ makefile[n][2] = file}) = 1

\* Conditions are taken apart into macros and expressions, combined over lines
\* and evaluated with three values.  A file that is named once, and not in a
\* branch that follows an else if, and what it defines, is called enabled only if every
\* configuration the profile allows builds it, disabled only if none does, and
\* unknown only if the profile leaves a macro open; and a file that one macro can
\* add to the build or remove from it is listed under that macro
\* (indexing/relation_extractor.py collect, query/profile_query.py).
StatesTellTheBuild ==
  conditioned # Uncollected =>
    LET assigned == Assignments(conditioned.by)
        every == [Macros -> Values]
    IN Make(makefile, [m \in Macros |-> "y"]).ok =>
         \A built \in {[v \in every |-> Make(makefile, v).built]} : \A f \in Files :
           /\ NamedOnce(f) /\ f \notin Make(makefile, [m \in Macros |-> "y"]).chained => \A e \in {<<"file", f>>, <<"symbol", f>>} :
                LET state == ProfileState(conditioned.relations, e)
                IN /\ state \in {"enabled", "not_applicable"} => \A v \in Completions(assigned) : f \in built[v]
                   /\ state = "disabled" => \A v \in Completions(assigned) : f \notin built[v]
                   /\ state = "unknown" => \E m \in Macros : assigned[m] = "none"
           /\ \A m \in Macros : \A v \in every : \A value \in Values :
                (f \in built[v]) # (f \in built[[v EXCEPT ![m] = value]])
                => f \in AffectedFiles(conditioned.relations, m)
=============================================================================
