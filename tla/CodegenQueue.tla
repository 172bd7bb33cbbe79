---------------------------- MODULE CodegenQueue ----------------------------
(***************************************************************************)
(* How Compiler::compileContract gets the code of every function that is   *)
(* needed, and of nothing else, into the two assemblies of a contract: the *)
(* runtime code ("run") and the creation code ("create").  A function that *)
(* is referenced gets an entry label and a place in the queue of the       *)
(* context (CompilerContext::FunctionCompilationQueue); compiling it may   *)
(* reference more functions.  Creation code that makes a pointer to an     *)
(* internal function references it in both contexts, since the pointer may *)
(* be stored.  The routine behind fireAllRules has a label of its own per  *)
(* contract (CompilerContext::entryAllRules).                              *)
(***************************************************************************)
EXTENDS Naturals, Sequences, SequencesExt

CONSTANTS
    Funcs,      \* internal and public functions of the contract and its bases
    Contracts,  \* the contract and its bases
    This,       \* the contract that is compiled
    Programs    \* what the functions refer to

Contexts == {"run", "create"}

VARIABLES
    prog,       \* the program
    phase,      \* the step of compileContract
    labels,     \* m_entryLabels: functions with an entry label
    queue,      \* m_functionsToCompile
    compiled,   \* m_alreadyCompiledFunctions
    placed,     \* whether its entry label was placed: 0, 1, or 2 for more than once
    rulesUsed,  \* contracts whose rules label was pushed
    rulesPlaced \* contracts whose rules label was placed

vars == <<prog, phase, labels, queue, compiled, placed, rulesUsed, rulesPlaced>>

Init ==
    /\ prog \in Programs
    /\ phase = "selector"
    /\ labels = [c \in Contexts |-> {}]
    /\ queue = [c \in Contexts |-> <<>>]
    /\ compiled = [c \in Contexts |-> {}]
    /\ placed = [c \in Contexts |-> [x \in Funcs |-> 0]]
    /\ rulesUsed = [c \in Contexts |-> {}]
    /\ rulesPlaced = [c \in Contexts |-> {}]

-----------------------------------------------------------------------------
(* Functions that entryLabel meets for the first time.                     *)
Wanted(c, S) == S \ labels[c]

(* entryLabel for every function of S, in some order.                      *)
Request(c, S) ==
    /\ labels' = [labels EXCEPT ![c] = @ \cup S]
    /\ queue' = [queue EXCEPT ![c] = @ \o SetToSeq(Wanted(c, S))]

(* The same from code that also makes pointers to the functions of P: in   *)
(* the creation context these are labelled in both contexts.               *)
RequestBoth(S, P) ==
    /\ labels' = [run |-> labels["run"] \cup P,
                  create |-> labels["create"] \cup S \cup P]
    /\ queue' = [run |-> queue["run"] \o SetToSeq(Wanted("run", P)),
                 create |-> queue["create"] \o SetToSeq(Wanted("create", S \cup P))]

(* A body that fires rules pushes the label of the contract it is in, see  *)
(* ControlFlowAnalyzer::endVisit(FireAllRulesStatement).                   *)
Fires(c, where) == rulesUsed' = [rulesUsed EXCEPT ![c] = @ \cup where]

FiredBy(fun) ==
    IF fun \in prog.fires THEN {prog.home[fun]} ELSE {}

(* appendFunctionSelector: the entry points from outside.                  *)
AppendSelector ==
    /\ phase = "selector"
    /\ phase' = "rules"
    /\ Request("run", prog.public)
    /\ UNCHANGED <<prog, compiled, placed, rulesUsed, rulesPlaced>>

(* appendRules, with what the then blocks refer to.                        *)
AppendRules ==
    /\ phase = "rules"
    /\ phase' = "runtime"
    /\ Request("run", prog.then)
    /\ rulesPlaced' = [rulesPlaced EXCEPT !["run"] = @ \cup {This}]
    /\ UNCHANGED <<prog, compiled, placed, rulesUsed>>

(* The constructor and the initial values of state variables.              *)
AppendConstructor ==
    /\ phase = "constructor"
    /\ phase' = "creation"
    /\ RequestBoth(prog.constructor, prog.pointers)
    /\ Fires("create", prog.constructorFires)
    /\ UNCHANGED <<prog, compiled, placed, rulesPlaced>>

Context == IF phase = "creation" THEN "create" ELSE "run"
Appending == phase \in {"runtime", "creation", "runtime again"}

(* nextFunctionToCompile takes functions compiled before from the front of *)
(* the queue.                                                              *)
Open(c) == {n \in DOMAIN queue[c] : queue[c][n] \notin compiled[c]}
Waiting(c) ==
    IF Open(c) = {} THEN <<>> ELSE SubSeq(queue[c], Min(Open(c)), Len(queue[c]))

(* Mutant: the function's compilation does not announce itself.            *)
MutStartFunction(c) == [done |-> compiled[c], rest |-> Waiting(c)]

StartFunction(c) ==
    [done |-> compiled[c] \cup {Head(Waiting(c))}, rest |-> Tail(Waiting(c))]

(* Mutant: a pointer is labelled in the context that makes it only.        *)
MutAsked(c, d, fun) == IF d = c THEN prog.calls[fun] \cup prog.points[fun] ELSE {}

(* The functions whose label the body of fun, compiled in context c, takes *)
(* from context d: those it calls or makes pointers to, and in the runtime *)
(* context those the creation code makes pointers to.                      *)
Asked(c, d, fun) ==
    CASE d = c -> prog.calls[fun] \cup prog.points[fun]
      [] d # c /\ c = "create" -> prog.points[fun]
      [] OTHER -> {}

(* appendMissingFunctions: one turn of its loop.                           *)
CompileFunction ==
    /\ Appending
    /\ Waiting(Context) # <<>>
    /\ LET c == Context
           fun == Head(Waiting(c))
       IN /\ compiled' = [compiled EXCEPT ![c] = StartFunction(c).done]
          /\ placed' = [placed EXCEPT ![c][fun] = IF @ = 0 THEN 1 ELSE 2]
          /\ labels' = [d \in Contexts |-> labels[d] \cup Asked(c, d, fun)]
          /\ queue' = [d \in Contexts |->
                (IF d = c THEN StartFunction(c).rest ELSE queue[d])
                    \o SetToSeq(Wanted(d, Asked(c, d, fun)))]
          /\ Fires(c, FiredBy(fun))
    /\ UNCHANGED <<prog, phase, rulesPlaced>>

After(p) ==
    CASE p = "runtime" -> "constructor"
      [] p = "creation" -> "runtime again"
      [] p = "runtime again" -> "done"

QueueEmpty ==
    /\ Appending
    /\ Waiting(Context) = <<>>
    /\ phase' = After(phase)
    /\ queue' = [queue EXCEPT ![Context] = <<>>]
    /\ UNCHANGED <<prog, labels, compiled, placed, rulesUsed, rulesPlaced>>

Next ==
    \/ AppendSelector \/ AppendRules \/ AppendConstructor
    \/ CompileFunction \/ QueueEmpty

Spec == Init /\ [][Next]_vars

-----------------------------------------------------------------------------
(* Properties.                                                             *)

(* Every entry label of a function that some code refers to has exactly    *)
(* one place in its assembly, whichever context asked for it and when.     *)
LabelsPlacedOnce ==
    phase = "done" =>
        \A c \in Contexts : \A x \in labels[c] : placed[c][x] = 1

(* Code that fires rules elsewhere than in the runtime code of the         *)
(* contract that declares them: the creation code, or what a derived       *)
(* contract has inherited.                                                 *)
FiresAway(c) ==
    \/ \E x \in compiled[c] : x \in prog.fires /\ ~(c = "run" /\ prog.home[x] = This)
    \/ c = "create" /\ prog.constructorFires # {}

(* The label of the rules is placed exactly where no such code refers to   *)
(* it: Assembly::assemble stops at a label without a place.                *)
RulesLabelFound ==
    phase = "done" =>
        \A c \in Contexts : rulesUsed[c] \subseteq rulesPlaced[c] <=> ~FiresAway(c)

(* Code is emitted for a function exactly where something reaches it: in   *)
(* the creation code from the constructor, in the runtime code from the    *)
(* selector, the rules and the pointers that creation code makes.          *)
Closed(S) == \A x \in S : prog.calls[x] \cup prog.points[x] \subseteq S
Reach(S) ==
    {x \in Funcs : \A T \in SUBSET Funcs : S \subseteq T /\ Closed(T) => x \in T}

Created == Reach(prog.constructor \cup prog.pointers)
Pointed == prog.pointers \cup UNION {prog.points[x] : x \in Created}

Reachable(c) == IF c = "run" THEN Reach(prog.public \cup prog.then \cup Pointed) ELSE Created

OnlyReachable ==
    \A c \in Contexts :
        /\ compiled[c] \subseteq Reachable(c)
        /\ phase = "done" => compiled[c] = Reachable(c)

(* The queue is emptied, however the functions call each other.            *)
CompilationEnds == <>(phase = "done")
=============================================================================
