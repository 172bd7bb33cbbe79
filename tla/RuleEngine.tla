------------------------------ MODULE RuleEngine ------------------------------
(***************************************************************************)
(* The code the Lity compiler emits for the rule engine of one contract,   *)
(* as it runs on the EVM: factInsert, factDelete, update and fireAllRules  *)
(* (RuleEngineCompiler), and the routine ContractCompiler::appendRules     *)
(* puts behind fireAllRules.                                               *)
(*                                                                         *)
(* A message call to the contract runs user code, which may call any of    *)
(* the operations, write the fields of a fact, send a message that comes   *)
(* back to the contract, return, or fail.  Everything in contract storage  *)
(* is in the record st; a message that fails gives st back the value it    *)
(* had when the message began (calls).  Memory and the EVM stack belong    *)
(* to the message that runs the engine: frames are the nested activations  *)
(* of the rulesExec routine, lockList the lock_on_active lists.            *)
(*                                                                         *)
(* The hash keccak(facts) XOR keccak(rule name) is modelled as the pair    *)
(* <<rule, facts>>: collisions are left out.  What a rule's network        *)
(* computes is the parameter Matches.  Storage slot 0 is zero, so that the *)
(* list of an id that was never inserted is empty.                         *)
(***************************************************************************)
EXTENDS Naturals, Sequences, SequencesExt

CONSTANTS
    Types,              \* struct types with facts
    Facts,              \* storage addresses of structs, the fact ids
    TypeOf,             \* the type of each of them
    Vals,               \* contents of a struct
    Rules,              \* the contract's rules
    NumRules,           \* their number
    Salience,           \* the priority of each rule
    NoLoopRules,        \* rules with no_loop true
    LockOnActiveRules,  \* rules with lock_on_active true
    Matches(_, _, _),   \* the tuples the network of a rule finds
    Disciplined,        \* then blocks call update when they change a fact
    MaxList,            \* bound: facts in one list
    MaxDepth,           \* bound: nested messages to the contract
    MaxCalls,           \* bound: messages in one transaction (its gas)
    MaxFrames           \* nested rulesExec the 1024-slot EVM stack allows

WorkingMemories == [Types -> BoundedSeq(Facts, MaxList)]
Contents == [Facts -> Vals]
FactTuples == Seq(Facts)
Activations == Rules \X FactTuples

ASSUME ConstantsAssumption ==
    /\ TypeOf \in [Facts -> Types]
    /\ NumRules \in Nat
    /\ Salience \in [Rules -> Nat]
    /\ NoLoopRules \subseteq Rules
    /\ LockOnActiveRules \subseteq Rules
    /\ Disciplined \in BOOLEAN
    /\ MaxList \in Nat
    /\ MaxDepth \in Nat
    /\ MaxCalls \in Nat
    /\ MaxFrames \in Nat \ {0}

ASSUME MatchesAssumption ==
    \A r \in Rules, F \in WorkingMemories, v \in Contents :
        Matches(r, F, v) \in Seq(FactTuples)

VARIABLES
    st,        \* contract storage
    calls,     \* storage at the start of each message in progress
    msgs,      \* messages the transaction has left
    engineAt,  \* the depth of the message that runs the engine, or 0
    frames,    \* activations of rulesExec, the innermost last
    lockList,  \* lock_on_active lists, in memory
    order,     \* ContractDefinition::rules(), fixed at compile time
    fired,     \* history: activations whose then block was entered
    ran        \* history: activations that left the present contents alone

vars == <<st, calls, msgs, engineAt, frames, lockList, order, fired, ran>>

-----------------------------------------------------------------------------
NoMark == <<>>      \* the empty no_loop marker
NoList == <<>>      \* idToList of an id that was never inserted

Storages ==
    [facts   : WorkingMemories,
     listOf  : [Facts -> Types \cup {NoList}],
     val     : Contents,
     lock    : BOOLEAN,
     reeval  : BOOLEAN,
     lockMap : SUBSET Activations,
     noLoop  : Activations \cup {NoMark}]

Frames ==
    [k : Nat \ {0}, list : Seq(FactTuples), i : Nat \ {0},
     pc : {"eval", "loop", "then", "reeval"}, seen : Contents]

(* Mutant: the rules are left in the order of the source.                  *)
MutRuleOrders ==
    {o \in [1..NumRules -> Rules] :
        \A r \in Rules : \E n \in 1..NumRules : o[n] = r}

(* rules() sorts by descending salience; std::sort leaves the order of     *)
(* equal saliences open.                                                   *)
RuleOrders ==
    {o \in [1..NumRules -> Rules] :
        /\ \A r \in Rules : \E n \in 1..NumRules : o[n] = r
        /\ \A m, n \in 1..NumRules : m < n => Salience[o[m]] >= Salience[o[n]]}

EmptyStorage(v) ==
    [facts |-> [t \in Types |-> <<>>], listOf |-> [f \in Facts |-> NoList],
     val |-> v, lock |-> FALSE, reeval |-> FALSE, lockMap |-> {},
     noLoop |-> NoMark]

Init ==
    /\ \E v \in Contents : st = EmptyStorage(v)
    /\ calls = <<>>
    /\ msgs = 0
    /\ engineAt = 0
    /\ frames = <<>>
    /\ lockList = [r \in Rules |-> <<>>]
    /\ order \in RuleOrders
    /\ fired = {}
    /\ ran = {}

-----------------------------------------------------------------------------
(* Messages.                                                               *)

Engine == engineAt # 0 /\ engineAt = Len(calls)   \* the engine's own message
Running == Engine /\ frames # <<>>
Top == Last(frames)
Rule == order[Top.k]                              \* the rule it is working on
Tuple == Top.list[Top.i]                          \* and the list element
Act == <<Rule, Tuple>>

(* Mutant: the hash of the facts alone.                                    *)
MutHash == Tuple

(* appendGetNoLoopHash, appendGetLockOnActiveMapMarker: the hash of the    *)
(* facts combined with that of the rule's name.                            *)
Hash == Act

(* User code has control: of a message that does not run the engine, or of *)
(* a then block.                                                           *)
UserCode == calls # <<>> /\ (Engine => frames # <<>> /\ Top.pc = "then")

(* INVALID, a revert, no gas left or a full EVM stack end the message: its *)
(* writes to storage are undone and its memory is gone.                    *)
Abort ==
    /\ st' = Last(calls)
    /\ calls' = Front(calls)
    /\ IF Engine
         THEN /\ engineAt' = 0
              /\ frames' = <<>>
              /\ lockList' = [r \in Rules |-> <<>>]
              /\ fired' = {}
              /\ ran' = {}
         ELSE UNCHANGED <<engineAt, frames, lockList, fired, ran>>
    /\ UNCHANGED <<msgs, order>>

Fail == calls # <<>> /\ Abort

(* A transaction calls the contract.                                       *)
Begin ==
    /\ calls = <<>>
    /\ calls' = <<st>>
    /\ msgs' = MaxCalls
    /\ UNCHANGED <<st, engineAt, frames, lockList, order, fired, ran>>

(* User code sends a message that ends up in the contract again.           *)
Reenter ==
    /\ UserCode
    /\ msgs > 0
    /\ Len(calls) < MaxDepth
    /\ calls' = Append(calls, st)
    /\ msgs' = msgs - 1
    /\ UNCHANGED <<st, engineAt, frames, lockList, order, fired, ran>>

Return ==
    /\ UserCode
    /\ ~Engine
    /\ calls' = Front(calls)
    /\ UNCHANGED <<st, msgs, engineAt, frames, lockList, order, fired, ran>>

-----------------------------------------------------------------------------
(* Operations of user code.                                                *)

(* Mutant: the guard of factInsert and factDelete is missing.              *)
MutNoRuleEngineLock == TRUE

NoRuleEngineLock == ~st.lock

OnlyStorage ==
    UNCHANGED <<calls, msgs, engineAt, frames, lockList, order, fired, ran>>

WriteFact(f, v) ==
    /\ UserCode
    /\ st' = [st EXCEPT !.val[f] = v]
    /\ OnlyStorage

(* factInsert: not while the engine holds its lock; the same struct may be *)
(* inserted again and is then listed twice.                                *)
FactInsert(f) ==
    /\ UserCode
    /\ \/ /\ ~NoRuleEngineLock
          /\ Abort
       \/ /\ NoRuleEngineLock
          /\ Len(st.facts[TypeOf[f]]) < MaxList
          /\ st' = [st EXCEPT !.listOf[f] = TypeOf[f],
                              !.facts[TypeOf[f]] = Append(@, f)]
          /\ OnlyStorage

(* The first place of f in its list, by linear search.                     *)
FirstAt(s, f) ==
    CHOOSE n \in DOMAIN s : s[n] = f /\ \A m \in DOMAIN s : s[m] = f => n <= m

(* The last item moves into the hole.                                      *)
DeleteItem(s, f) ==
    [n \in 1..Len(s) - 1 |-> IF n = FirstAt(s, f) THEN Last(s) ELSE s[n]]

Listed(f) == st.listOf[f] # NoList /\ f \in Range(st.facts[st.listOf[f]])

FactDelete(f) ==
    /\ UserCode
    /\ \/ /\ ~NoRuleEngineLock \/ ~Listed(f)
          /\ Abort
       \/ /\ NoRuleEngineLock
          /\ Listed(f)
          /\ st' = [st EXCEPT !.facts[st.listOf[f]] = DeleteItem(@, f)]
          /\ OnlyStorage

(* update: only while the engine holds its lock.  A reentrant message may  *)
(* use it as well as the then block itself.                                *)
Update ==
    /\ UserCode
    /\ \/ /\ ~st.lock
          /\ Abort
       \/ /\ st.lock
          /\ st' = [st EXCEPT !.reeval = TRUE]
          /\ OnlyStorage

(* Mutant: a reevaluation starts at the rule that asked for it.            *)
MutNewFrame ==
    [k |-> IF frames = <<>> THEN 1 ELSE Top.k,
     list |-> <<>>, i |-> 1, pc |-> "eval", seen |-> st.val]

NewFrame == [k |-> 1, list |-> <<>>, i |-> 1, pc |-> "eval", seen |-> st.val]

FireAllRules ==
    /\ UserCode
    /\ \/ /\ st.lock
          /\ Abort
       \/ /\ ~st.lock
          /\ st' = [st EXCEPT !.lock = TRUE]
          /\ engineAt' = Len(calls)
          /\ frames' = <<NewFrame>>
          /\ lockList' = [r \in Rules |-> <<>>]
          /\ fired' = {}
          /\ ran' = {}
          /\ UNCHANGED <<calls, msgs, order>>

-----------------------------------------------------------------------------
(* The rulesExec routine.                                                  *)

SetTop(frame) == [frames EXCEPT ![Len(frames)] = frame]

(* Mutant: a skipped or finished element is not passed.                    *)
MutNextElement == SetTop([Top EXCEPT !.pc = "loop"])

NextElement == SetTop([Top EXCEPT !.i = @ + 1, !.pc = "loop"])
NextRule(frame) == [frame EXCEPT !.k = @ + 1, !.pc = "eval", !.list = <<>>]

OnlyFrames ==
    UNCHANGED <<st, calls, msgs, engineAt, lockList, order, fired, ran>>

(* The network of the next rule fills the list of its terminal node.       *)
EvalRule ==
    /\ Running
    /\ Top.pc = "eval"
    /\ Top.k <= NumRules
    /\ frames' = SetTop([Top EXCEPT !.list = Matches(Rule, st.facts, st.val),
                                    !.i = 1, !.pc = "loop", !.seen = st.val])
    /\ OnlyFrames

EndList ==
    /\ Running
    /\ Top.pc = "loop"
    /\ Top.i > Len(Top.list)
    /\ frames' = SetTop(NextRule(Top))
    /\ OnlyFrames

AtElement == Running /\ Top.pc = "loop" /\ Top.i <= Len(Top.list)
Locked == Rule \in LockOnActiveRules /\ Hash \in st.lockMap
Looping == Rule \in NoLoopRules /\ Hash = st.noLoop

SkipLocked ==
    /\ AtElement
    /\ Locked
    /\ st' = [st EXCEPT !.reeval = FALSE]
    /\ frames' = NextElement
    /\ UNCHANGED <<calls, msgs, engineAt, lockList, order, fired, ran>>

(* Mutant: the tuple goes into the list of marks but not into the map.     *)
MutMark ==
    /\ st' = [st EXCEPT !.reeval = FALSE]
    /\ lockList' = IF Rule \in LockOnActiveRules
                     THEN [lockList EXCEPT ![Rule] = Append(@, Tuple)]
                     ELSE lockList

(* A lock_on_active rule marks the tuple, in the map and in the list, even *)
(* when no_loop then skips it.                                             *)
Mark ==
    IF Rule \in LockOnActiveRules
      THEN /\ st' = [st EXCEPT !.reeval = FALSE, !.lockMap = @ \cup {Hash}]
           /\ lockList' = [lockList EXCEPT ![Rule] = Append(@, Tuple)]
      ELSE /\ st' = [st EXCEPT !.reeval = FALSE]
           /\ UNCHANGED lockList

SkipLooping ==
    /\ AtElement
    /\ ~Locked
    /\ Looping
    /\ Mark
    /\ frames' = NextElement
    /\ UNCHANGED <<calls, msgs, engineAt, order, fired, ran>>

EnterThen ==
    /\ AtElement
    /\ ~Locked
    /\ ~Looping
    /\ Mark
    /\ frames' = SetTop([Top EXCEPT !.pc = "then"])
    /\ fired' = fired \cup {Act}
    /\ UNCHANGED <<calls, msgs, engineAt, order, ran>>

(* The documented obligation of then blocks, when Disciplined asks for it. *)
MayEnd == Disciplined => (st.val # Top.seen => st.reeval)

(* Mutant: update is forgotten.                                            *)
MutNeedReevaluation == FALSE

NeedReevaluation == st.reeval

AtThenEnd == Running /\ Top.pc = "then" /\ MayEnd

Executed == ran' = IF st.val = Top.seen THEN ran \cup {Act} ELSE {}

ThenEnd ==
    /\ AtThenEnd
    /\ ~NeedReevaluation
    /\ frames' = NextElement
    /\ Executed
    /\ UNCHANGED <<st, calls, msgs, engineAt, lockList, order, fired>>

(* The lists of the rule's network are emptied before the engine recurses. *)
Cleaned == [Top EXCEPT !.pc = "reeval", !.list = <<>>, !.i = 1]

(* After update all rules start over, in a nested activation of rulesExec. *)
Reevaluate ==
    /\ AtThenEnd
    /\ NeedReevaluation
    /\ \/ /\ Len(frames) = MaxFrames
          /\ Abort
       \/ /\ Len(frames) < MaxFrames
          /\ st' = [st EXCEPT !.noLoop = Hash]
          /\ frames' = Append(SetTop(Cleaned), NewFrame)
          /\ Executed
          /\ UNCHANGED <<calls, msgs, engineAt, lockList, order, fired>>

(* The caller of the routine breaks out of its list and goes on with the   *)
(* rule after it.                                                          *)
ReturnFrame ==
    /\ Running
    /\ Top.pc = "eval"
    /\ Top.k > NumRules
    /\ LET below == Front(frames)
       IN frames' = IF below = <<>> THEN <<>>
                    ELSE [below EXCEPT ![Len(below)] = NextRule(@)]
    /\ OnlyFrames

(* Mutant: the no_loop marker survives the run.                            *)
MutClearMarks(s) ==
    [s EXCEPT !.lockMap = {a \in @ : a[2] \notin Range(lockList[a[1]])}]

ClearMarks(s) ==
    [s EXCEPT !.lockMap = {a \in @ : a[2] \notin Range(lockList[a[1]])},
              !.noLoop = NoMark]

(* Mutant: the lock stays.                                                 *)
MutUnlock(s) == s

Unlock(s) == [s EXCEPT !.lock = FALSE]

(* Every mark in a lock_on_active list is cleared, and the no_loop marker; *)
(* then fireAllRules releases the lock.                                    *)
Finish ==
    /\ Engine
    /\ frames = <<>>
    /\ st' = Unlock(ClearMarks(st))
    /\ engineAt' = 0
    /\ lockList' = [r \in Rules |-> <<>>]
    /\ fired' = {}
    /\ ran' = {}
    /\ UNCHANGED <<calls, msgs, frames, order>>

-----------------------------------------------------------------------------
Step ==
    EvalRule \/ EndList \/ SkipLocked \/ SkipLooping \/ EnterThen
        \/ ThenEnd \/ Reevaluate \/ ReturnFrame \/ Finish

Next ==
    \/ Begin \/ Reenter \/ Return \/ Fail
    \/ \E f \in Facts, v \in Vals : WriteFact(f, v)
    \/ \E f \in Facts : FactInsert(f) \/ FactDelete(f)
    \/ Update \/ FireAllRules
    \/ Step

Spec == Init /\ [][Next]_vars

(* The EVM runs the code it is at; a then block is finite, and so is every *)
(* message, its gas being so.                                              *)
FairSpec == Spec /\ WF_vars(Step) /\ WF_vars(Return)

-----------------------------------------------------------------------------
(* Properties.                                                             *)

TypeOK ==
    /\ st \in Storages
    /\ calls \in Seq(Storages)
    /\ msgs \in Nat
    /\ engineAt \in 0..Len(calls)
    /\ frames \in Seq(Frames)
    /\ lockList \in [Rules -> Seq(FactTuples)]
    /\ order \in [1..NumRules -> Rules]
    /\ fired \subseteq Activations
    /\ ran \subseteq Activations

(* The lock is held exactly while some message runs the engine, also when  *)
(* messages fail at any point: no failure leaves the engine locked, and no *)
(* failed reentrant message unlocks it.                                    *)
LockMatchesEngine == st.lock <=> engineAt # 0

(* Outside fireAllRules storage holds no lock_on_active mark and no        *)
(* no_loop marker that could suppress a rule of the next fireAllRules.     *)
NoMarksLeft == ~st.lock => st.lockMap = {} /\ st.noLoop = NoMark

(* Working memory does not change while the engine runs: not by the then   *)
(* blocks, not by reentrant messages, and not when one of them fails.      *)
FactsFrozen == [][st.lock /\ st'.lock => st'.facts = st.facts]_vars

(* lock_on_active: during one fireAllRules a rule's then block runs at     *)
(* most once for the same set of facts.                                    *)
LockOnActiveOnce ==
    [][EnterThen /\ Rule \in LockOnActiveRules => Act \notin fired]_vars

(* If then blocks call update for what they change, no rule acts on a      *)
(* match computed from contents that have changed since.                   *)
NoStaleMatch ==
    Disciplined /\ Running /\ Top.pc = "loop"
        => Top.list = Matches(Rule, st.facts, st.val)

(* Nothing is left to do for a rule: each of its matches was executed on   *)
(* the present contents or is held back by an attribute of the rule.       *)
Done(r) ==
    \A n \in DOMAIN Matches(r, st.facts, st.val) :
        LET a == <<r, Matches(r, st.facts, st.val)[n]>>
        IN \/ a \in ran
           \/ r \in LockOnActiveRules /\ a \in st.lockMap
           \/ r \in NoLoopRules /\ a = st.noLoop

(* Salience: when a rule is about to act, the rules of higher salience     *)
(* have nothing left to do.                                                *)
HigherSalienceFirst ==
    Disciplined /\ Running /\ Top.pc = "loop"
        => \A r \in Rules : Salience[r] > Salience[Rule] => Done(r)

(* fireAllRules ends in a fixpoint: no rule has anything left to do.       *)
FixpointAtEnd ==
    Disciplined /\ Engine /\ frames = <<>> => \A r \in Rules : Done(r)

(* Rules that are lock_on_active cannot make the engine recurse without    *)
(* end: every nested rulesExec has used up one mark.                       *)
RecursionBounded ==
    Rules = LockOnActiveRules
        => Len(frames) <= 1 + Cardinality(st.lockMap)

(* A fireAllRules that began ends.                                         *)
EngineEnds == st.lock ~> ~st.lock

(* docs/rule-engine-guide.rst on no_loop: "To make it fire only once for   *)
(* each fireAllRules".  Facts inserted twice are left out of account.      *)
NoLoopOnce ==
    [][/\ EnterThen
       /\ Rule \in NoLoopRules
       /\ \A t \in Types : IsInjective(st.facts[t])
       => Act \notin fired]_vars
=============================================================================
