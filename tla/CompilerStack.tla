--------------------------- MODULE CompilerStack ---------------------------
(***************************************************************************)
(* CompilerStack (libsolidity/interface) and the ErrorReporter it owns:    *)
(* the object that takes sources and settings and drives parser, analysis  *)
(* phases and code generation.  One object lives through many calls, and   *)
(* each call leaves behind what it did not reset.                          *)
(*                                                                         *)
(* A source text is known by what the stages find in it: the imports       *)
(* (after remapping), the contracts, and at most one fault.  A contract is *)
(* known by its full name <<source, contract>>.  Warnings are left out:    *)
(* no stage decides by them, except the one the reporter adds when there   *)
(* are too many errors (excess).                                           *)
(***************************************************************************)
EXTENDS Integers, Sequences, FiniteSets, SequencesExt

CONSTANTS
    NameOrder,     \* all source names, in the order of the map of sources
    Texts,         \* all source texts
    Imports,       \* text -> sequence of the source names it imports
    Declares,      \* text -> sequence of its contracts
    Needs,         \* contract -> contracts it creates with new
    Fault,         \* text -> [phase, fatal]: the phase that reports an error in it
    Abstract,      \* contracts without code: function missing or constructor internal
    Unsupported,   \* contracts the code generator throws for
    Files,         \* source name -> text the read callback returns for it
    Given,         \* the source names users add sources for
    Selections,    \* the sets of contract names users ask for; the empty set is all
    ErrorLimit,    \* c_maxErrorsAllowed
    MaxCompiles,   \* bound: calls of compile
    MaxCount,      \* bound: errors counted when parse or analyze is called
    MaxChanges     \* bound: calls that change sources or settings

SourceNames == ToSet(NameOrder)
Contracts == DOMAIN Needs

ASSUME SourcesAssumption ==
    /\ NameOrder \in Seq(SourceNames) /\ IsInjective(NameOrder)
    /\ Imports \in [Texts -> Seq(SourceNames)]
    /\ Declares \in [Texts -> Seq(Contracts)]
    /\ Needs \in [Contracts -> SUBSET Contracts]
    /\ DOMAIN Files \subseteq SourceNames
    /\ \A n \in DOMAIN Files : Files[n] \in Texts
    /\ \E depth \in [Contracts -> 0..Cardinality(Contracts)] :   \* no contract creates itself
           \A c \in Contracts : \A d \in Needs[c] : depth[d] < depth[c]
    /\ \A t \in Texts : Fault[t].phase \in      \* smt and standard only warn
           {"none", "parse", "syntax", "docs", "register", "imports", "resolve", "types",
            "postTypes", "flow", "flowCheck", "static", "viewPure"}
    /\ Given \subseteq SourceNames /\ Selections \subseteq SUBSET ((SourceNames \cup {""}) \X Contracts)
    /\ Abstract \subseteq Contracts /\ Unsupported \subseteq Contracts

ASSUME BoundsAssumption ==
    ErrorLimit \in Nat \ {0} /\ MaxCompiles \in Nat /\ MaxCount \in Nat /\ MaxChanges \in Nat

(* No syntax tree, no code. *)
None == "none"
NoCode == [gen |-> 0]

VARIABLES
    stack,     \* the object
    result,    \* what the last call did: "none", "true", "false" or "thrown"
    changes    \* sources and settings changed so far, for the bound

vars == <<stack, result, changes>>

(***************************************************************************)
(* States, settings, reporter                                              *)
(***************************************************************************)

(* CompilerStack::State, in its order. *)
States == <<"Empty", "SourcesSet", "ParsingSuccessful", "AnalysisSuccessful",
            "CompilationSuccessful">>
Rank(state) == CHOOSE i \in 1..5 : States[i] = state
AtLeast(s, state) == Rank(s.state) >= Rank(state)

(* The settings reset gives their defaults, and the others. *)
DefaultOptimize == FALSE
DefaultEVM == FALSE
DefaultLibraries == FALSE
NoStandard == "none"

NewStack ==
    [state |-> "Empty", sources |-> <<>>, order |-> <<>>, contracts |-> <<>>,
     scopes |-> <<>>, optimize |-> DefaultOptimize, evm |-> DefaultEVM,
     libraries |-> DefaultLibraries,
     requested |-> {}, standard |-> NoStandard, compiles |-> 0,
     errors |-> 0, excess |-> FALSE, count |-> 0]

(* ErrorReporter::error with checkForExcessiveErrors.  The count is of the *)
(* reporter's life; the list may have been cleared since.                  *)
TooMany(s) == s.count + 1 > ErrorLimit
Report(s) ==
    IF TooMany(s) THEN [s EXCEPT !.count = @ + 1, !.excess = TRUE]
    ELSE [s EXCEPT !.count = @ + 1, !.errors = @ + 1]

(* ErrorReporter::clear: the list only. *)
ClearErrors(s) == [s EXCEPT !.errors = 0, !.excess = FALSE]

(* Error::containsOnlyWarnings *)
OnlyWarnings(s) == s.errors = 0

(* Whether the phase reports an error in the text, and whether it throws.  *)
Faulty(phase, t) == Fault[t].phase = phase
Throws(s, phase, t) == Faulty(phase, t) /\ (Fault[t].fatal \/ TooMany(s))
After(s, phase, t) == IF Faulty(phase, t) THEN Report(s) ELSE s

(***************************************************************************)
(* reset and addSource.  The loop of reset over the sources resets copies, *)
(* so that scanner and syntax tree of a kept source stay.                  *)
(***************************************************************************)

(* The optimiser settings are forgotten. *)
MutResetSettings(s, keepSources) ==
    [ClearErrors(s) EXCEPT
        !.state = IF keepSources THEN "SourcesSet" ELSE "Empty",
        !.sources = IF keepSources THEN @ ELSE <<>>,
        !.scopes = <<>>, !.order = <<>>, !.contracts = <<>>]

Reset(s, keepSources) ==
    [ClearErrors(s) EXCEPT
        !.state = IF keepSources THEN "SourcesSet" ELSE "Empty",
        !.sources = IF keepSources THEN @ ELSE <<>>,
        !.libraries = DefaultLibraries,
        !.optimize = DefaultOptimize,
        !.evm = DefaultEVM,
        !.scopes = <<>>, !.order = <<>>, !.contracts = <<>>]

Known(s) == DOMAIN s.sources
TreeOf(s, n) == IF n \in Known(s) THEN s.sources[n].ast ELSE None

Put(f, x, v) == [y \in DOMAIN f \cup {x} |-> IF y = x THEN v ELSE f[y]]

(* Without the reset. *)
MutAddSource(s, n, t, isLibrary) ==
    [s EXCEPT !.state = IF @ = "Empty" THEN "SourcesSet" ELSE @,
              !.sources = Put(@, n, [text |-> t, ast |-> TreeOf(s, n), lib |-> isLibrary])]

AddSource(s, n, t, isLibrary) ==
    LET r == Reset(s, TRUE) IN
    [r EXCEPT !.state = "SourcesSet",
              !.sources = Put(@, n, [text |-> t, ast |-> TreeOf(r, n), lib |-> isLibrary])]

(***************************************************************************)
(* parse, with loadMissingSources                                          *)
(***************************************************************************)

(* One import directive: known already, loaded through the callback, or an *)
(* error.  m is [s, new, thrown].                                          *)
LoadImport(m, path) ==
    IF m.thrown \/ path \in Known(m.s) \cup DOMAIN m.new THEN m
    ELSE IF path \in DOMAIN Files THEN [m EXCEPT !.new = Put(@, path, Files[path])]
    ELSE [m EXCEPT !.s = Report(@), !.thrown = TooMany(m.s)]

LoadMissingSources(s, t) ==
    LET after[i \in 0..Len(Imports[t])] ==
            IF i = 0 THEN [s |-> s, new |-> <<>>, thrown |-> FALSE]
            ELSE LoadImport(after[i - 1], Imports[t][i])
    IN  after[Len(Imports[t])]

(* A loop over a list that takes some of its elements. *)
Only(list, good) ==
    LET taken[i \in 0..Len(list)] ==
            IF i = 0 THEN <<>>
            ELSE IF list[i] \in good THEN Append(taken[i - 1], list[i])
            ELSE taken[i - 1]
    IN  taken[Len(list)]

InNameOrder(names) == Only(NameOrder, names)

(* The loop body of parse for the next source; p is [s, todo, thrown].  A  *)
(* parser that gave up without an error in the list is an assertion.       *)
ParseNext(p) ==
    IF p.thrown \/ p.todo = <<>> THEN p
    ELSE LET n == Head(p.todo)
             t == p.s.sources[n].text
             failed == Throws(p.s, "parse", t)
             s1 == [After(p.s, "parse", t) EXCEPT
                        !.sources[n].ast = IF failed THEN None ELSE t]
             m == LoadMissingSources(s1, t)
         IN  IF failed
             THEN [s |-> s1, todo |-> Tail(p.todo), thrown |-> OnlyWarnings(s1)]
             ELSE IF m.thrown
             THEN [s |-> m.s, todo |-> <<>>, thrown |-> TRUE]
             ELSE [s |-> [m.s EXCEPT !.sources =
                              [x \in Known(m.s) \cup DOMAIN m.new |->
                                  IF x \in DOMAIN m.new
                                  THEN [text |-> m.new[x], ast |-> None, lib |-> FALSE]
                                  ELSE m.s.sources[x]]],
                   todo |-> Tail(p.todo) \o InNameOrder(DOMAIN m.new),
                   thrown |-> FALSE]

Done(s, res) == [s |-> s, res |-> res]

Parse(s) ==
    IF s.state # "SourcesSet" THEN Done(s, "false")
    ELSE LET after[i \in 0..Len(NameOrder)] ==
                 IF i = 0
                 THEN [s |-> ClearErrors(s), todo |-> InNameOrder(Known(s)), thrown |-> FALSE]
                 ELSE ParseNext(after[i - 1])
             p == after[Len(NameOrder)]
         IN  IF p.thrown THEN Done(p.s, "thrown")
             ELSE IF OnlyWarnings(p.s)
             THEN Done([p.s EXCEPT !.state = "ParsingSuccessful"], "true")
             ELSE Done(p.s, "false")

(***************************************************************************)
(* Depth first post order, as in resolveImports and compileContract: a     *)
(* node is entered once, its successors are finished before it.            *)
(***************************************************************************)
Enter(n) == [node |-> n, leave |-> FALSE]

Visit(v, succ) ==
    IF v.todo = <<>> THEN v
    ELSE LET h == Head(v.todo)
             rest == Tail(v.todo)
         IN  IF h.leave THEN [v EXCEPT !.todo = rest, !.out = Append(@, h.node)]
             ELSE IF h.node \in v.seen THEN [v EXCEPT !.todo = rest]
             ELSE [v EXCEPT !.seen = @ \cup {h.node},
                            !.todo = [i \in DOMAIN succ[h.node] |-> Enter(succ[h.node][i])]
                                     \o <<[h EXCEPT !.leave = TRUE]>> \o rest]

(* Visits that are enough: every node is entered once, and every place of  *)
(* a list of roots or successors is looked at once.                        *)
Visits(roots, succ) ==
    LET width == Max({Len(succ[n]) : n \in DOMAIN succ} \cup {0})
    IN  Cardinality(DOMAIN succ) * (width + 1) + Len(roots)

PostOrder(roots, succ) ==
    LET start == [todo |-> [i \in DOMAIN roots |-> Enter(roots[i])], seen |-> {}, out |-> <<>>]
        after[i \in 0..Visits(roots, succ)] ==
            IF i = 0 THEN start ELSE Visit(after[i - 1], succ)
    IN  after[Visits(roots, succ)].out

(* resolveImports: from every source that is no library. *)
ResolveImports(s) ==
    PostOrder(InNameOrder({n \in Known(s) : ~s.sources[n].lib}),
              [n \in Known(s) |-> Imports[s.sources[n].ast]])

(***************************************************************************)
(* analyze.  a is [s, ok, ended]: ok is noErrors, ended a return before    *)
(* the last phase.                                                         *)
(***************************************************************************)
AnalysisPhases ==
    <<"syntax", "docs", "register", "imports", "resolve", "types", "postTypes",
      "flow", "flowCheck", "static", "viewPure", "smt", "standard">>

(* if (noErrors) around the phase; return false in the phase; the phases   *)
(* whose answer is whether the list has errors of any phase; those whose   *)
(* answer is whether they found an error themselves.                       *)
Gated == {"postTypes", "flow", "flowCheck", "static", "viewPure", "smt", "standard"}
Stopping == {"register", "imports", "resolve"}
ByList == {"syntax", "types", "postTypes", "flow", "flowCheck", "static"}
ByItself == {"docs", "imports", "resolve", "viewPure"}

Ast(s, n) == s.sources[n].ast
ContractsOf(s, n) == [i \in DOMAIN Declares[Ast(s, n)] |-> <<n, Declares[Ast(s, n)][i]>>]
Visible(s, n) ==
    s.scopes[n] \cup UNION {s.scopes[m] : m \in ToSet(Imports[Ast(s, n)]) \cap DOMAIN s.scopes}

(* performImports: one name for two contracts; resolveNamesAndTypes: a     *)
(* contract that is named and not in scope; TypeChecker: one that cannot   *)
(* be created.                                                             *)
NameClash(s, n) ==
    \E c, d \in Visible(s, n) : c # d /\ c[2] = d[2]
Unresolved(s, n) ==
    \E c \in ToSet(Declares[Ast(s, n)]) : Needs[c] \ {d[2] : d \in s.scopes[n]} # {}

FindsError(s, p, n) ==
    \/ Faulty(p, Ast(s, n))
    \/ p = "imports" /\ NameClash(s, n)
    \/ p = "resolve" /\ Unresolved(s, n)
    \/ p = "types" /\ \E c \in ToSet(Declares[Ast(s, n)]) : Needs[c] \cap Abstract # {}

(* What a phase leaves behind: scopes and the entries of m_contracts (a    *)
(* text whose names do not resolve is taken to declare one contract).      *)
Record(s, p, n) ==
    CASE p = "register" -> [s EXCEPT !.scopes = Put(@, n, ToSet(ContractsOf(s, n)))]
      [] p = "imports"  -> [s EXCEPT !.scopes[n] = Visible(s, n)]
      [] p = "resolve"  -> [s EXCEPT !.contracts =
             [c \in DOMAIN @ \cup ToSet(ContractsOf(s, n)) |->
                 IF c \in DOMAIN @ THEN @[c]
                 ELSE [compiler |-> 0, code |-> NoCode, linked |-> FALSE, map |-> 0]]]
      [] OTHER -> s

(* Every phase answers for itself only. *)
MutPhaseOk(p, s, n, found) == p \in ByList \cup ByItself => ~found

PhaseOk(p, s, n, found) ==
    /\ p \in ByList => OnlyWarnings(s) \/ (p = "types" /\ ContractsOf(s, n) = <<>>)
    /\ p \in ByItself => ~found

(* One phase on one source.  A phase that throws ends the analysis without *)
(* success, wherever the exception is caught.  Scopes of an earlier        *)
(* analysis are an assertion: "Unable to add new scope."                   *)
Check(a, p, n) ==
    LET found == FindsError(a.s, p, n)
        thrown == found /\ (TooMany(a.s) \/ (Faulty(p, Ast(a.s, n)) /\ Fault[Ast(a.s, n)].fatal))
        s1 == IF found THEN Report(a.s) ELSE a.s
        good == PhaseOk(p, s1, n, found)
    IN  IF a.ended # "no" THEN a
        ELSE IF p = "register" /\ n \in DOMAIN a.s.scopes /\ ContractsOf(a.s, n) # <<>>
        THEN [a EXCEPT !.ended = "thrown"]
        ELSE [s |-> IF thrown \/ (p \in Stopping /\ ~good) THEN s1 ELSE Record(s1, p, n),
              ok |-> a.ok /\ good,
              ended |-> IF thrown \/ (p \in Stopping /\ ~good) THEN "false" ELSE "no"]

RunPhase(a, p) ==
    IF a.ended # "no" \/ (p \in Gated /\ ~a.ok) THEN a
    ELSE IF p = "standard" /\ a.s.standard = "unknown" THEN [a EXCEPT !.ended = "thrown"]
    ELSE LET after[i \in 0..Len(a.s.order)] ==
                 IF i = 0 THEN a ELSE Check(after[i - 1], p, a.s.order[i])
         IN  after[Len(a.s.order)]

Analyze(s) ==
    IF s.state # "ParsingSuccessful" THEN Done(s, "false")
    ELSE LET after[i \in 0..Len(AnalysisPhases)] ==
                 IF i = 0
                 THEN [s |-> [s EXCEPT !.order = ResolveImports(s)], ok |-> TRUE, ended |-> "no"]
                 ELSE RunPhase(after[i - 1], AnalysisPhases[i])
             a == after[Len(AnalysisPhases)]
         IN  IF a.ended = "thrown" THEN Done(a.s, "thrown")
             ELSE IF a.ok /\ a.ended = "no"
             THEN Done([a.s EXCEPT !.state = "AnalysisSuccessful"], "true")
             ELSE Done(a.s, "false")

ParseAndAnalyze(s) ==
    LET p == Parse(s) IN IF p.res = "true" THEN Analyze(p.s) ELSE p

(***************************************************************************)
(* compile, compileContract and link.  k is [s, thrown]; code is what      *)
(* object and metadata were made from, with the compilation every contract *)
(* embedded in it comes from.                                              *)
(***************************************************************************)
(* A requested name is a full name, or a contract's name alone. *)
Alone(c) == <<"", c[2]>>
IsRequested(s, c) == s.requested = {} \/ {c, Alone(c)} \cap s.requested # {}
Deployable(c) == c[2] \notin Abstract

Dependencies(s, c) == {d \in s.scopes[c[1]] : d[2] \in Needs[c[2]]}
ContractList(s) ==
    LET upTo[i \in 0..Len(s.order)] ==
            IF i = 0 THEN <<>> ELSE upTo[i - 1] \o ContractsOf(s, s.order[i])
    IN  upTo[Len(s.order)]
DependencyOrder(s, c) ==
    Only(ContractList(s), {d \in Dependencies(s, c) : Deployable(d)})

CompileContract(k, c) ==
    LET gen == k.s.compiles
        embedded == ToSet(DependencyOrder(k.s, c))
        code == [text |-> Ast(k.s, c[1]), optimize |-> k.s.optimize, evm |-> k.s.evm, gen |-> gen,
                 embeds |-> {<<d, k.s.contracts[d].compiler>> : d \in embedded}]
    IN  IF k.thrown THEN k
        ELSE IF c[2] \in Unsupported
        THEN [s |-> [k.s EXCEPT !.contracts[c].compiler = gen], thrown |-> TRUE]
        ELSE [k EXCEPT !.s.contracts[c] =
                  [@ EXCEPT !.compiler = gen, !.code = code, !.linked = FALSE]]

Link(s) ==
    [s EXCEPT !.contracts = [c \in DOMAIN s.contracts |->
        [s.contracts[c] EXCEPT !.linked = @ \/ (s.libraries /\ s.contracts[c].code # NoCode)]]]

Generate(s) ==
    LET roots == Only(ContractList(s),
                      {c \in DOMAIN s.contracts : IsRequested(s, c) /\ Deployable(c)})
        todo == PostOrder(roots, [c \in DOMAIN s.contracts |-> DependencyOrder(s, c)])
        new == [s EXCEPT !.compiles = @ + 1]
        after[i \in 0..Len(todo)] ==
            IF i = 0 THEN [s |-> new, thrown |-> FALSE]
            ELSE CompileContract(after[i - 1], todo[i])
        k == after[Len(todo)]
        made == [new EXCEPT !.contracts = k.s.contracts]
    IN  IF k.thrown THEN Done(made, "thrown")
        ELSE Done([Link(made) EXCEPT !.state = "CompilationSuccessful"], "true")

Compile(s) ==
    LET p == IF AtLeast(s, "AnalysisSuccessful") THEN Done(s, "true") ELSE ParseAndAnalyze(s)
    IN  IF p.res = "true" THEN Generate(p.s) ELSE p

(* sourceMapping and runtimeSourceMapping: computed once per entry. *)
SourceMapping(s, c) ==
    IF c \notin DOMAIN s.contracts THEN Done(s, "thrown")
    ELSE LET e == s.contracts[c] IN
         IF e.map = 0 /\ e.compiler # 0
         THEN Done([s EXCEPT !.contracts[c].map = e.compiler], "true")
         ELSE Done(s, IF e.map = 0 THEN "false" ELSE "true")

(***************************************************************************)
(* The calls of a program that uses the object.                            *)
(***************************************************************************)
Call(r) == stack' = r.s /\ result' = r.res /\ UNCHANGED changes
Change(r) ==
    changes < MaxChanges /\ changes' = changes + 1 /\ stack' = r.s /\ result' = r.res
Set(s) == Change(Done(s, "none"))

CanParse == stack.count <= MaxCount
CanCompile == stack.compiles < MaxCompiles

CallReset == \E keep \in BOOLEAN : Set(Reset(stack, keep))
CallAddSource ==
    \E n \in Given, t \in Texts, lib \in BOOLEAN :
        Change(Done(AddSource(stack, n, t, lib), IF n \in Known(stack) THEN "true" ELSE "false"))
SetOptimiserSettings == \E b \in BOOLEAN : Set([stack EXCEPT !.optimize = b])
SetLibraries == \E b \in BOOLEAN : Set([stack EXCEPT !.libraries = b])
SetRequestedContractNames == \E q \in Selections : Set([stack EXCEPT !.requested = q])
SetContractStandard == \E x \in {"known", "unknown"} : Set([stack EXCEPT !.standard = x])
SetEVMVersion ==
    \E b \in BOOLEAN :
        IF AtLeast(stack, "ParsingSuccessful") THEN Call(Done(stack, "thrown"))
        ELSE Set([stack EXCEPT !.evm = b])
CallParse == CanParse /\ \E r \in {Parse(stack)} : Call(r)
CallAnalyze == CanParse /\ \E r \in {Analyze(stack)} : Call(r)
CallParseAndAnalyze == CanParse /\ \E r \in {ParseAndAnalyze(stack)} : Call(r)
CallCompile == CanParse /\ CanCompile /\ \E r \in {Compile(stack)} : Call(r)
CallSourceMapping == \E c \in Given \X Contracts : Call(SourceMapping(stack, c))

Init == stack = NewStack /\ result = "none" /\ changes = 0

Next ==
    \/ CallReset \/ CallAddSource \/ SetOptimiserSettings \/ SetLibraries
    \/ SetRequestedContractNames \/ SetContractStandard \/ SetEVMVersion
    \/ CallParse \/ CallAnalyze \/ CallParseAndAnalyze \/ CallCompile \/ CallSourceMapping

Spec == Init /\ [][Next]_vars

(***************************************************************************)
(* Properties                                                              *)
(***************************************************************************)
AllContracts(s) == UNION {ToSet(ContractsOf(s, s.order[i])) : i \in DOMAIN s.order}

(* The sources an import path from n leads to. *)
Leads(s, n) ==
    {m \in Known(s) : \A S \in SUBSET Known(s) :
        (n \in S /\ \A x \in S : ToSet(Imports[Ast(s, x)]) \cap Known(s) \subseteq S) => m \in S}

(* resolveImports: the analysed sources are those reached from sources     *)
(* that are no libraries, each once, and an imported source comes first    *)
(* unless the imports form a circle.                                       *)
ImportsFirst ==
    AtLeast(stack, "AnalysisSuccessful") =>
        /\ IsInjective(stack.order)
        /\ ToSet(stack.order) =
               UNION {Leads(stack, n) : n \in {m \in Known(stack) : ~stack.sources[m].lib}}
        /\ \A i, j \in DOMAIN stack.order :
               (/\ stack.order[j] \in ToSet(Imports[Ast(stack, stack.order[i])])
                /\ stack.order[i] \notin Leads(stack, stack.order[j])) => j < i

(* compileContract: the code of a contract embeds code the same call of    *)
(* compile made, whatever was requested and however often compile was      *)
(* called or failed before.                                                *)
EmbeddedTogether ==
    stack.state = "CompilationSuccessful" =>
        \A c \in DOMAIN stack.contracts :
            LET code == stack.contracts[c].code IN
            code.gen = stack.compiles =>
                \A e \in code.embeds :
                    e[2] = code.gen /\ stack.contracts[e[1]].code.gen = code.gen

(* The state of the object tells what its data are good for: from          *)
(* ParsingSuccessful on every tree is that of the present text and all     *)
(* imports are there, from AnalysisSuccessful on the contracts are those   *)
(* of the ordered sources, and no contract outlives a change of sources.   *)
(* addSource keeps the old trees and reset works on copies, so that only   *)
(* the state protects the getters (CompilerStack::ast, contract).  The     *)
(* order of the sources and the code embedded in other code fit the data   *)
(* as well.                                                                *)
StateMatchesData ==
    /\ AtLeast(stack, "ParsingSuccessful") =>
           \A n \in Known(stack) :
               /\ Ast(stack, n) = stack.sources[n].text
               /\ ToSet(Imports[Ast(stack, n)]) \subseteq Known(stack)
    /\ AtLeast(stack, "AnalysisSuccessful") =>
           DOMAIN stack.contracts = AllContracts(stack)
    /\ DOMAIN stack.contracts # {} => AtLeast(stack, "ParsingSuccessful")
    /\ ImportsFirst
    /\ EmbeddedTogether

(* A program with an error is never compiled: after a successful analysis  *)
(* the list has no error and none of the analysed sources has a fault of   *)
(* any phase, although some phases go on after an error, some report one   *)
(* and return true, and the reporter drops errors above its limit.         *)
SuccessClean ==
    AtLeast(stack, "AnalysisSuccessful") =>
        /\ stack.errors = 0
        /\ \A i \in DOMAIN stack.order :
               LET n == stack.order[i] IN
               /\ Fault[Ast(stack, n)].phase = "none"
               /\ ~NameClash(stack, n) /\ ~Unresolved(stack, n)
=============================================================================
