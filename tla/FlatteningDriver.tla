-------------------------- MODULE FlatteningDriver --------------------------
(***************************************************************************)
(* The instantiation loop of -llzk-flatten: definitions in templates are   *)
(* cloned for the parameter values they are used with, loops are unrolled  *)
(* and affine maps folded, in rounds, until nothing changes.               *)
(***************************************************************************)
EXTENDS Integers, FiniteSets, Sequences, SequencesExt, TLC

CONSTANTS
  Programs,         \* the units to flatten
  Words,            \* the words of its names
  IterationLimit,   \* option max-iter
  Modulus           \* constants are elements of a field of this size

VARIABLES
  program,          \* the unit as it was given
  templates,        \* the templates of the unit: name -> parameters, expressions
  defs,             \* structs and functions: path -> what they use
  main,             \* the type named by llzk.main
  instantiations,   \* structInstantiations
  instantiated,     \* funcInstantiations
  modified, loopCount,
  step,             \* the step of the round that is next
  visits,           \* the operations this step still has to visit
  replaced          \* replaced operations, which the conversion erases at its end

vars == <<program, templates, defs, main, instantiations, instantiated,
          modified, loopCount, step, visits, replaced>>

-----------------------------------------------------------------------------
(* Attributes, names and uses *)

Const(v) == [kind |-> "const", name |-> "", value |-> v]
Symbol(p) == [kind |-> "symbol", name |-> p, value |-> 0]
Induction == [kind |-> "map", name |-> "iv", value |-> 0]    \* affine_map of a loop's variable
Applied(i) == [kind |-> "map", name |-> "", value |-> i]     \* the same, on a constant
NoLoop == [kind |-> "none", name |-> "", value |-> 0]

(* A function with one more entry, or a new one. *)
Put(f, key, value) == [x \in DOMAIN f \cup {key} |-> IF x = key THEN value ELSE f[x]]

(* isConcreteAttr *)
Concrete(a) == a.kind = "const"

(* A name is the sequence of its parts, which "_" separates: words and numbers. *)
Word(w) == [text |-> w, number |-> 0]
Number(n) == [text |-> "", number |-> n]
Placeholder == Word("?")
ModuleLevel == <<>>
Path(template, name) == [template |-> template, name |-> name]
Places(name) == {i \in DOMAIN name : name[i] = Placeholder}
Text(a) == IF Concrete(a) THEN Number(a.value) ELSE Placeholder

(* The number of places up to one of them, and what a sequence has at them. *)
Rank(places, i) == Cardinality({j \in places : j <= i})
Subsequence(seq, places) ==
  [k \in 1..Cardinality(places) |-> seq[CHOOSE i \in places : Rank(places, i) = k]]

(* Mutant: only the values are named, not the places that stay open. *)
ShortTypeStringOfValues(base, args) ==
  base \o [i \in DOMAIN SelectSeq(args, LAMBDA a : Concrete(a)) |->
             Text(SelectSeq(args, LAMBDA a : Concrete(a))[i])]

(* The first values go where the base has placeholders, the rest to its end. *)
ShortTypeString(base, args) ==
  LET text == [i \in DOMAIN args |-> Text(args[i])]
      places == Places(base)
  IN [i \in DOMAIN base |-> IF i \in places THEN text[Rank(places, i)] ELSE base[i]]
       \o SubSeq(text, Cardinality(places) + 1, Len(text))

(* The symbol table of the module: templates, and definitions outside of them. *)
ModuleSymbols == DOMAIN templates \cup {d.name : d \in {e \in DOMAIN defs : e.template = ModuleLevel}}

(* Mutant: a name that is taken is taken again. *)
UniqueNameOrNot(name) == name

UniqueName(name) ==
  IF name \notin ModuleSymbols THEN name
  ELSE LET free == {k \in 0..Cardinality(ModuleSymbols) : Append(name, Number(k)) \notin ModuleSymbols}
       IN Append(name, Number(CHOOSE k \in free : \A j \in free : k <= j))

(* A use is a call of a struct's compute, whose result type has "args", or  *)
(* a call of a function with "args" for the template's parameters as the    *)
(* unification of types finds them; possibly in a loop with the bound "loop". *)
Use(kind, callee, args, loop) == [kind |-> kind, callee |-> callee, args |-> args, loop |-> loop]

ParamsIn(ts, d) == IF d.template = ModuleLevel THEN <<>> ELSE ts[d.template].params
Params(d) == ParamsIn(templates, d)

(* What a template declares, and the symbols that a use names. *)
DeclaredIn(ts, d) ==
  IF d.template = ModuleLevel THEN {} ELSE ToSet(ts[d.template].params) \cup DOMAIN ts[d.template].exprs
NamesIn(u) == {a.name : a \in {b \in ToSet(u.args) \cup {u.loop} : b.kind = "symbol"}}

(* The units the pass is given: every use has a target and the arguments    *)
(* it takes, and names what is declared.  A template's name is of words,    *)
(* unlike those the pass makes.                                             *)
Attributes == [kind : {"const", "symbol", "map", "none"}, name : Words \cup {"", "iv"}, value : Int]
Parts == [text : Words \cup {"", "?"}, number : Int]
Names == Seq(Parts)
Paths == [template : Names, name : Names]
Uses == [kind : {"struct", "func"}, callee : Paths, args : Seq(Attributes), loop : Attributes]

IsTemplate(name, template) ==
  LET params == template.params
      exprs == template.exprs
  IN /\ name \in Names \ {ModuleLevel} /\ \A i \in DOMAIN name : name[i].text \in Words
     /\ params \in Seq(Words) /\ \A i, j \in DOMAIN params : params[i] = params[j] => i = j
     /\ DOMAIN exprs \cap ToSet(params) = {}
     /\ \A e \in DOMAIN exprs : exprs[e].of \in ToSet(params) /\ exprs[e].plus \in Int

TargetOf(u, p) ==
  /\ u \in Uses /\ u.callee \in DOMAIN p.defs
  /\ Len(u.args) = Len(ParamsIn(p.templates, u.callee))

IsUnit(p) ==
  /\ IsFiniteSet(DOMAIN p.templates) /\ \A t \in DOMAIN p.templates : IsTemplate(t, p.templates[t])
  /\ IsFiniteSet(DOMAIN p.defs)
  /\ \A d \in DOMAIN p.defs :
       /\ d \in Paths /\ Places(d.name) = {} /\ d.template \in DOMAIN p.templates \cup {ModuleLevel}
       /\ \A u \in p.defs[d].body : TargetOf(u, p) /\ NamesIn(u) \subseteq DeclaredIn(p.templates, d)
  /\ TargetOf(p.main, p)

ASSUME FlatteningAssumption ==
  /\ "" \notin Words /\ "?" \notin Words
  /\ IterationLimit \in Nat /\ Modulus \in Nat \ {0}
  /\ \A p \in Programs : IsUnit(p)

-----------------------------------------------------------------------------
(* Instantiation *)

(* Values for the parameters that are concrete at the use, and for the      *)
(* expressions over them.                                                   *)
ParamNameToConcrete(template, args) ==
  LET params == template.params
      given == {i \in DOMAIN params : Concrete(args[i])}
      known == {params[i] : i \in given}
      value(p) == args[CHOOSE i \in given : params[i] = p]
      exprs == template.exprs
  IN [p \in known \cup {e \in DOMAIN exprs : exprs[e].of \in known} |->
        IF p \in known THEN value(p) ELSE Const((value(exprs[p].of).value + exprs[p].plus) % Modulus)]

Converted(a, value) == IF a.kind = "symbol" /\ a.name \in DOMAIN value THEN value[a.name] ELSE a

ConvertedBody(body, value) ==
  {[u EXCEPT !.args = [i \in DOMAIN u.args |-> Converted(u.args[i], value)],
             !.loop = Converted(u.loop, value)] : u \in body}

(* The clone remembers what it is a clone of, and for which values. *)
Clone(d, value) ==
  [kind |-> d.kind, body |-> ConvertedBody(d.body, value),
   origin |-> d.origin, values |-> [p \in DOMAIN d.values |-> Converted(d.values[p], value)]]

(* Mutant: the new type keeps all arguments. *)
NonConcreteOrNot(args) == args

NonConcrete(args) == Subsequence(args, {i \in DOMAIN args : ~Concrete(args[i])})
Remaining(params, value) == Subsequence(params, {i \in DOMAIN params : params[i] \notin DOMAIN value})

CanInstantiate(u) ==
  /\ u.callee \in DOMAIN defs
  /\ u.callee.template # ModuleLevel
  /\ \E i \in DOMAIN u.args : Concrete(u.args[i])

(* A clone in a template of its own that keeps the other parameters.        *)
(* Inserted one by one at the front, they end up in reverse order; there    *)
(* are no expressions among them.                                           *)
StructTemplate(remaining) == [params |-> Reverse(remaining), exprs |-> <<>>]

(* StructCloner::genClone: the new type, and the unit with its definition. *)
StructInstance(u) ==
  LET template == templates[u.callee.template]
      value == ParamNameToConcrete(template, u.args)
      label == ShortTypeString(u.callee.template, u.args)
      rest == Remaining(template.params, value)
      newTemplate == UniqueName(label)
      path == IF rest = <<>> THEN Path(ModuleLevel, UniqueName(label \o u.callee.name))
              ELSE Path(newTemplate, u.callee.name)
  IN [use |-> [u EXCEPT !.callee = path, !.args = NonConcrete(u.args)],
      defs |-> Put(defs, path, Clone(defs[u.callee], value)),
      templates |-> IF rest = <<>> THEN templates
                    ELSE Put(templates, newTemplate, StructTemplate(rest))]

StructType(u) == [callee |-> u.callee, args |-> u.args]

(* ParameterizedStructUseTypeConverter *)
ConvertedType(u) ==
  IF StructType(u) \in DOMAIN instantiations
  THEN [use |-> [u EXCEPT !.callee = instantiations[StructType(u)].callee,
                          !.args = instantiations[StructType(u)].args],
        defs |-> defs, templates |-> templates]
  ELSE StructInstance(u)

(* Mutant: instantiations that were seen before are not noted as a change. *)
RecordStructUnmodified(old, new) ==
  /\ instantiations' = Put(instantiations, StructType(old), StructType(new))
  /\ UNCHANGED modified

(* ConversionTracker::recordInstantiation of a struct type *)
RecordStruct(old, new) ==
  /\ instantiations' = Put(instantiations, StructType(old), StructType(new))
  /\ modified' = (modified \/ StructType(old) \notin DOMAIN instantiations)

FunctionTemplate(remaining) == [params |-> remaining, exprs |-> <<>>]

(* instantiateFully, instantiatePartially: what has the wanted name in the  *)
(* module is taken for the clone.                                           *)
FunctionInstance(u) ==
  LET template == templates[u.callee.template]
      value == ParamNameToConcrete(template, u.args)
      label == ShortTypeString(u.callee.template, u.args)
      rest == Remaining(template.params, value)
      full == label \o u.callee.name
      reused == IF rest = <<>> THEN full \in ModuleSymbols ELSE label \in DOMAIN templates
      newTemplate == IF reused THEN label ELSE UniqueName(label)
      path == IF rest = <<>> THEN Path(ModuleLevel, full) ELSE Path(newTemplate, u.callee.name)
  IN [use |-> [u EXCEPT !.callee = path, !.args = NonConcrete(u.args)],
      defs |-> IF reused THEN defs ELSE Put(defs, path, Clone(defs[u.callee], value)),
      templates |-> IF reused \/ rest = <<>> THEN templates
                    ELSE Put(templates, newTemplate, FunctionTemplate(rest))]

-----------------------------------------------------------------------------
(* The pass *)

Original(d, p) ==
  [kind |-> p.defs[d].kind, body |-> p.defs[d].body, origin |-> d,
   values |-> LET params == IF d.template = ModuleLevel THEN <<>> ELSE p.templates[d.template].params
              IN [q \in ToSet(params) |-> Symbol(q)]]

Init ==
  /\ program \in Programs
  /\ templates = program.templates
  /\ defs = [d \in DOMAIN program.defs |-> Original(d, program)]
  /\ main = program.main
  /\ instantiations = <<>> /\ instantiated = {}
  /\ modified = FALSE /\ loopCount = 0
  /\ step = "main" /\ visits = {} /\ replaced = {}

Running == step \notin {"done", "failed"}

(* instantiateMainStruct *)
InstantiateMain ==
  /\ step = "main" /\ main.args # <<>> /\ CanInstantiate(main)
  /\ LET clone == StructInstance(main)
     IN /\ main' = clone.use /\ defs' = clone.defs /\ templates' = clone.templates
        /\ RecordStruct(main, clone.use)
  /\ step' = "round"
  /\ UNCHANGED <<program, instantiated, loopCount, visits, replaced>>

KeepMain ==
  /\ step = "main" /\ (main.args = <<>> \/ ~CanInstantiate(main))
  /\ step' = IF main.args = <<>> THEN "round" ELSE "failed"
  /\ UNCHANGED <<program, templates, defs, main, instantiations, instantiated,
                 modified, loopCount, visits, replaced>>

UsesOf(kind) == UNION {{<<d, u>> : u \in {v \in defs[d].body : v.kind = kind}} : d \in DOMAIN defs}

(* Mutant: the last round that is allowed is not taken. *)
BeginRoundOneLess ==
  /\ step = "round"
  /\ loopCount' = loopCount + 1
  /\ modified' = IF loopCount' >= IterationLimit THEN modified ELSE FALSE
  /\ step' = IF loopCount' >= IterationLimit THEN "failed" ELSE "structs"
  /\ visits' = IF loopCount' >= IterationLimit THEN {} ELSE UsesOf("struct")
  /\ UNCHANGED <<program, templates, defs, main, instantiations, instantiated, replaced>>

BeginRound ==
  /\ step = "round"
  /\ loopCount' = loopCount + 1
  /\ modified' = IF loopCount' > IterationLimit THEN modified ELSE FALSE
  /\ step' = IF loopCount' > IterationLimit THEN "failed" ELSE "structs"
  /\ visits' = IF loopCount' > IterationLimit THEN {} ELSE UsesOf("struct")
  /\ UNCHANGED <<program, templates, defs, main, instantiations, instantiated, replaced>>

(* The operations are those of the start of the conversion: a clone made on *)
(* the way is for the next round.  A replaced operation stays until the end, *)
(* so a clone that is made meanwhile has it next to its replacement.        *)
ConvertStructUse(d, u) ==
  /\ step = "structs" /\ <<d, u>> \in visits
  /\ visits' = visits \ {<<d, u>>}
  /\ IF StructType(u) \in DOMAIN instantiations \/ CanInstantiate(u)
     THEN LET new == ConvertedType(u)
          IN /\ defs' = [new.defs EXCEPT ![d].body = @ \cup {new.use}]
             /\ templates' = new.templates
             /\ replaced' = replaced \cup {<<d, u>>}
             /\ RecordStruct(u, new.use)
     ELSE UNCHANGED <<defs, templates, replaced, instantiations, modified>>
  /\ UNCHANGED <<program, main, instantiated, loopCount, step>>

EndStructs ==
  /\ step = "structs" /\ visits = {}
  /\ defs' = [d \in DOMAIN defs |->
                [defs[d] EXCEPT !.body = {u \in @ : <<d, u>> \notin replaced}]]
  /\ replaced' = {}
  /\ step' = "functions"
  /\ visits' = UsesOf("func")
  /\ UNCHANGED <<program, templates, main, instantiations, instantiated, modified, loopCount>>

(* The walk may or may not come to what it inserts. *)
InstantiateCall(d, u) ==
  /\ step = "functions" /\ <<d, u>> \in visits /\ CanInstantiate(u)
  /\ LET new == FunctionInstance(u)
         clones == DOMAIN new.defs \ DOMAIN defs
         inserted == UNION {{<<c, v>> : v \in {w \in new.defs[c].body : w.kind = "func"}} : c \in clones}
         unresolved == \E c \in clones : \E v \in new.defs[c].body :
                         v.kind = "func" /\ v.callee \notin DOMAIN new.defs
     IN IF unresolved
        THEN /\ step' = "failed" /\ visits' = {}
             /\ UNCHANGED <<defs, templates, instantiated, modified>>
        ELSE /\ defs' = [new.defs EXCEPT ![d].body = (@ \ {u}) \cup {new.use}]
             /\ templates' = new.templates
             /\ instantiated' = instantiated \cup {u.callee}
             /\ modified' = TRUE
             /\ \E more \in {{}, inserted} : visits' = (visits \ {<<d, u>>}) \cup more
             /\ step' = step
  /\ UNCHANGED <<program, main, instantiations, loopCount, replaced>>

KeepCall(d, u) ==
  /\ step = "functions" /\ <<d, u>> \in visits
  /\ u.callee \in DOMAIN defs /\ ~CanInstantiate(u)
  /\ visits' = visits \ {<<d, u>>}
  /\ UNCHANGED <<program, templates, defs, main, instantiations, instantiated,
                 modified, loopCount, step, replaced>>

CalleeMissing(d, u) ==
  /\ step = "functions" /\ <<d, u>> \in visits /\ u.callee \notin DOMAIN defs
  /\ step' = "failed" /\ visits' = {}
  /\ UNCHANGED <<program, templates, defs, main, instantiations, instantiated,
                 modified, loopCount, replaced>>

EndFunctions ==
  /\ step = "functions" /\ visits = {}
  /\ step' = "unroll"
  /\ UNCHANGED <<program, templates, defs, main, instantiations, instantiated,
                 modified, loopCount, visits, replaced>>

(* Applied to the operations of all bodies. *)
Rewritten(New(_)) == [d \in DOMAIN defs |-> [defs[d] EXCEPT !.body = UNION {New(u) : u \in @}]]

(* A loop with a constant trip count: none, one, or a copy per iteration. *)
Iterations(u) ==
  IF u.loop.kind # "const" THEN {u}
  ELSE {[u EXCEPT !.loop = NoLoop,
                  !.args = [i \in DOMAIN u.args |-> IF u.args[i] = Induction THEN Applied(n) ELSE u.args[i]]]
          : n \in 0..(u.loop.value - 1)}

Unroll ==
  /\ step = "unroll"
  /\ defs' = Rewritten(Iterations)
  /\ modified' = (modified \/ defs' # defs)
  /\ step' = "affine maps"
  /\ UNCHANGED <<program, templates, main, instantiations, instantiated, loopCount, visits, replaced>>

Folded(u) ==
  {[u EXCEPT !.args = [i \in DOMAIN u.args |->
      IF u.args[i].kind = "map" /\ u.args[i] # Induction THEN Const(u.args[i].value) ELSE u.args[i]]]}

FoldAffineMaps ==
  /\ step = "affine maps"
  /\ defs' = Rewritten(Folded)
  /\ modified' = (modified \/ defs' # defs)
  /\ step' = "end of round"
  /\ UNCHANGED <<program, templates, main, instantiations, instantiated, loopCount, visits, replaced>>

EndRound ==
  /\ step = "end of round"
  /\ step' = IF modified THEN "round" ELSE "done"
  /\ UNCHANGED <<program, templates, defs, main, instantiations, instantiated,
                 modified, loopCount, visits, replaced>>

Next ==
  \/ InstantiateMain \/ KeepMain \/ BeginRound \/ EndStructs \/ EndFunctions
  \/ Unroll \/ FoldAffineMaps \/ EndRound
  \/ \E v \in visits : \/ ConvertStructUse(v[1], v[2])
                      \/ InstantiateCall(v[1], v[2])
                      \/ KeepCall(v[1], v[2])
                      \/ CalleeMissing(v[1], v[2])

Spec == Init /\ [][Next]_vars /\ WF_vars(Next)

-----------------------------------------------------------------------------
(* What a use means: the original definition, and values for the parameters *)
(* of its template in terms of those of the definition the use is in.       *)

Plus(a, k) == IF a.kind \in {"const", "symbol"} THEN [a EXCEPT !.value = (@ + k) % Modulus] ELSE a

OriginalExprs(d) ==
  IF d.origin.template = ModuleLevel THEN <<>> ELSE program.templates[d.origin.template].exprs

Normal(a, d) ==
  LET exprs == OriginalExprs(d)
  IN CASE a.kind = "map" /\ a # Induction -> Const(a.value)
       [] a.kind = "symbol" /\ a.name \in DOMAIN exprs ->
            Plus(d.values[exprs[a.name].of], exprs[a.name].plus)
       [] a.kind = "symbol" /\ a.name \in DOMAIN d.values -> d.values[a.name]
       [] OTHER -> a

(* Symbols among the values are replaced by what the use gives for them. *)
Given(v, params, args) ==
  IF v.kind # "symbol" \/ v.name \notin ToSet(params) THEN v
  ELSE Plus(args[CHOOSE i \in DOMAIN params : params[i] = v.name], v.value)

Meaning(origin, values, params, args, loop) ==
  LET at(n) == [p \in DOMAIN values |->
                  Given(values[p], params,
                        [i \in DOMAIN args |-> IF args[i] = Induction /\ n >= 0 THEN Const(n) ELSE args[i]])]
  IN IF loop.kind = "const"
     THEN {[origin |-> origin, values |-> at(n), loop |-> NoLoop] : n \in 0..(loop.value - 1)}
     ELSE {[origin |-> origin, values |-> at(-1), loop |-> loop]}

NormalArgs(u, d) == [i \in DOMAIN u.args |-> Normal(u.args[i], d)]

(* A use in a definition as it is now. *)
Means(u, d) ==
  Meaning(defs[u.callee].origin, defs[u.callee].values, Params(u.callee), NormalArgs(u, d), Normal(u.loop, d))

(* A use of the original definition, for the values of a clone of it. *)
ShouldMean(u, d) ==
  LET callee == Original(u.callee, program)
      params == IF u.callee.template = ModuleLevel THEN <<>> ELSE program.templates[u.callee.template].params
  IN Meaning(u.callee, callee.values, params, NormalArgs(u, d), Normal(u.loop, d))

Resolved(u) == u.callee \in DOMAIN defs /\ Len(Params(u.callee)) = Len(u.args)

(* A function's partial clone looks for its template by name alone: one that *)
(* was made for another function of the template does not have it.          *)
InReusedTemplate(callee) ==
  /\ callee \notin DOMAIN defs
  /\ callee.template \in DOMAIN templates \ DOMAIN program.templates
  /\ \E d \in DOMAIN defs : d.template = callee.template

Declared(d) == DeclaredIn(templates, d)

(* No template has an expression over a parameter that may be left open:    *)
(* the template of a partial clone has no expressions.                      *)
NoExpressionLeft(p) ==
  \A t \in DOMAIN p.templates : DOMAIN p.templates[t].exprs # {} => Len(p.templates[t].params) = 1

(* A definition is flat when it has no parameters, and nothing it uses has. *)
Flat(d) ==
  /\ d.template = ModuleLevel
  /\ \A u \in defs[d].body : u.callee.template = ModuleLevel /\ u.loop = NoLoop /\ u.args = <<>>

MainReaches ==
  LET within[n \in 0..Cardinality(DOMAIN defs)] ==
        IF n = 0 THEN {main.callee}
        ELSE within[n - 1] \cup UNION {{u.callee : u \in defs[d].body} : d \in within[n - 1] \cap DOMAIN defs}
  IN within[Cardinality(DOMAIN defs)]

MainIsFlat == \A d \in MainReaches : d \in DOMAIN defs /\ Flat(d)

(* The definitions, with values for their parameters, that n uses lead to   *)
(* from a definition of the program, or from main.                          *)
InstancesWithin ==
  LET given == {[origin |-> d, values |-> Original(d, program).values] : d \in DOMAIN program.defs}
                 \cup {[origin |-> m.origin, values |-> m.values] : m \in ShouldMean(program.main, Original(program.main.callee, program))}
      uses(i) == {[origin |-> m.origin, values |-> m.values] :
                    m \in {v \in UNION {ShouldMean(u, i) : u \in program.defs[i.origin].body} : v.loop = NoLoop}}
      within[n \in Nat] == IF n = 0 THEN given
                           ELSE within[n - 1] \cup UNION {uses(i) : i \in within[n - 1]}
  IN within

Levels == CHOOSE n \in 0..(Modulus * Cardinality(DOMAIN program.defs)) :
  /\ InstancesWithin[n + 1] = InstancesWithin[n]
  /\ \A k \in 0..(n - 1) : InstancesWithin[k + 1] # InstancesWithin[k]

-----------------------------------------------------------------------------
(* Properties *)

(* The unit is well formed, and structInstantiations has an inverse:        *)
(* recordInstantiation asserts that no struct is the clone of two types.    *)
TypeOK ==
  /\ program \in Programs
  /\ \A d \in DOMAIN defs :
       /\ d.template \in DOMAIN templates \cup {ModuleLevel}
       /\ defs[d].origin \in DOMAIN program.defs
       /\ \A u \in defs[d].body : u.kind \in {"struct", "func"}
  /\ \A d, e \in DOMAIN instantiations : instantiations[d] = instantiations[e] => d = e
  /\ \A t \in DOMAIN instantiations : instantiations[t].callee \in DOMAIN defs
  /\ instantiated \subseteq DOMAIN defs
  /\ modified \in BOOLEAN /\ loopCount \in 0..(IterationLimit + 1)
  /\ step \in {"main", "round", "structs", "functions", "unroll", "affine maps",
               "end of round", "done", "failed"}
  /\ \A v \in visits \cup replaced : v[1] \in DOMAIN defs /\ v[2] \in defs[v[1]].body

(* Through renaming, partial clones, reuse of clones, unrolling and folding, *)
(* in whatever order: a definition uses exactly what its original uses for  *)
(* the same values of the parameters.                                       *)
UsesUnchanged ==
  \A d \in DOMAIN defs : (\A u \in defs[d].body : Resolved(u)) =>
    UNION {Means(u, defs[d]) : u \in defs[d].body}
      = UNION {ShouldMean(u, defs[d]) : u \in program.defs[defs[d].origin].body}

(* Every use finds its definition, with as many parameters as it gives, and *)
(* names only parameters that are declared where it is.                     *)
UsesResolve ==
  \A d \in DOMAIN defs : \A u \in defs[d].body :
    /\ Resolved(u) \/ InReusedTemplate(u.callee)
    /\ NamesIn(u) \subseteq Declared(d)

(* The loop ends, and unless it gives up nothing that main reaches has a    *)
(* parameter or a loop around a use left.                                   *)
EndsFlat == <>(step = "failed" \/ (step = "done" /\ MainIsFlat))

(* It gives up only on a unit that needs more rounds than it may take: two  *)
(* more than there are levels of uses; or for a call of a function that a   *)
(* reused template does not have.                                           *)
FailsOnlyForCause ==
  step = "failed" =>
    \/ loopCount > IterationLimit /\ IterationLimit < Levels + 2
    \/ \E d \in DOMAIN defs : \E u \in defs[d].body : InReusedTemplate(u.callee)
=============================================================================
