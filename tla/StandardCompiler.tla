-------------------------- MODULE StandardCompiler --------------------------
(***************************************************************************)
(* StandardCompiler::compileInternal: one JSON request after the other is  *)
(* answered with the same CompilerStack.  A behaviour is that of a program *)
(* that calls the stack itself (user = "api") or of one that sends         *)
(* requests (user = "json").                                               *)
(*                                                                         *)
(* A request gives for every source what its URLs lead to, in order: a     *)
(* text, a text whose hash differs, or nothing; literal content is a list  *)
(* of one.  bad is the place of the first malformed member, if there is    *)
(* one.  requested holds the pairs of file and contract of the output      *)
(* selection, file "*" for every file; no pair means all contracts.        *)
(***************************************************************************)
EXTENDS CompilerStack

CONSTANT Requests     \* the requests sent

VARIABLES
    user,      \* who uses the stack
    request,   \* the last request
    answer     \* its answer

allVars == <<stack, result, changes, user, request, answer>>

Mismatch == "mismatch"
Unreadable == "unreadable"

ASSUME RequestsAssumption ==
    \A r \in Requests :
        /\ DOMAIN r.sources \subseteq SourceNames
        /\ \A n \in DOMAIN r.sources : r.sources[n] \in Seq(Texts \cup {Mismatch, Unreadable})

NoAnswer == [kind |-> "none", errors |-> FALSE, listed |-> FALSE, contracts |-> <<>>]
FatalAnswer == [kind |-> "fatal", errors |-> TRUE, listed |-> TRUE, contracts |-> <<>>]
SilentAnswer == [kind |-> "silent", errors |-> TRUE, listed |-> TRUE, contracts |-> <<>>]

(* The first offer with a text is taken; what failed before it is a        *)
(* warning then and an error otherwise, a wrong hash is always an error.   *)
Taken(offers) == SelectInSeq(offers, LAMBDA o : o \in Texts)
Tried(offers) == IF Taken(offers) = 0 THEN offers ELSE SubSeq(offers, 1, Taken(offers))
(* The failures are errors when a text was found. *)
MutIOErrors(offers) ==
    Mismatch \in ToSet(Tried(offers)) \/ (Taken(offers) # 0 /\ Unreadable \in ToSet(Tried(offers)))
IOErrors(offers) ==
    \/ Mismatch \in ToSet(Tried(offers))
    \/ Taken(offers) = 0 /\ Unreadable \in ToSet(offers)
IOListed(offers) == Tried(offers) # <<>> /\ {Mismatch, Unreadable} \cap ToSet(Tried(offers)) # {}

AddOne(s, r, n) ==
    IF n \in DOMAIN r.sources /\ Taken(r.sources[n]) # 0
    THEN AddSource(s, n, r.sources[n][Taken(r.sources[n])], FALSE) ELSE s

AddSources(s, r) ==
    LET after[i \in 0..Len(NameOrder)] ==
            IF i = 0 THEN s ELSE AddOne(after[i - 1], r, NameOrder[i])
    IN  after[Len(NameOrder)]

(* requestedContractNames: the name for file "*" begins with a colon and   *)
(* is neither the full name of a contract nor its name alone.              *)
RequestedContractNames(r) == r.requested

(* The settings, in the order of the code; a malformed member ends the     *)
(* request after what came before it has been set.                         *)
Configure(s, r) ==
    LET s1 == IF r.evm = "absent" THEN s ELSE [s EXCEPT !.evm = (r.evm = "on")]
        s2 == IF r.optimize = "absent" THEN s1 ELSE [s1 EXCEPT !.optimize = (r.optimize = "on")]
        s3 == IF r.standard = "absent" THEN s2 ELSE [s2 EXCEPT !.standard = r.standard]
        s4 == [s3 EXCEPT !.libraries = r.libraries, !.requested = RequestedContractNames(r)]
    IN  CASE r.bad \in {"evm", "sources"} -> s
          [] r.bad \in {"remappings", "optimizer"} -> s1
          [] r.bad = "libraries" -> s3
          [] OTHER -> s4

(* sourceMapping for every contract of the output. *)
MapAll(s) ==
    [s EXCEPT !.contracts = [c \in DOMAIN @ |-> SourceMapping(s, c).s.contracts[c]]]

Answer(r, c) ==
    LET io == \E n \in DOMAIN r.sources : IOErrors(r.sources[n])
        listed == \E n \in DOMAIN r.sources : IOListed(r.sources[n])
        success == c.s.state = "CompilationSuccessful"
        s == MapAll(c.s)
    IN  IF ~success /\ ~(listed \/ c.res = "thrown" \/ c.s.errors > 0 \/ c.s.excess)
        THEN Done(c.s, SilentAnswer)
        ELSE Done(IF success THEN s ELSE c.s,
                  [kind |-> "output",
                   errors |-> io \/ c.res = "thrown" \/ c.s.errors > 0,
                   listed |-> listed \/ c.res = "thrown" \/ c.s.errors > 0 \/ c.s.excess,
                   contracts |-> IF success
                                 THEN [n \in DOMAIN s.contracts |->
                                         [code |-> s.contracts[n].code, map |-> s.contracts[n].map]]
                                 ELSE <<>>])

CompileInternal(s0, r) ==
    LET s == Reset(s0, FALSE) IN
    IF r.bad = "input" \/ DOMAIN r.sources = {} THEN Done(s, FatalAnswer)
    ELSE LET t == Configure(AddSources(s, r), r)
         IN  IF r.bad # "no" THEN Done(t, FatalAnswer) ELSE Answer(r, Compile(t))

StandardCompile(r) ==
    /\ user = "json" /\ CanParse /\ CanCompile
    /\ \E a \in {CompileInternal(stack, r)} : stack' = a.s /\ answer' = a.res
    /\ request' = r
    /\ UNCHANGED <<result, changes, user>>

UserCalls == user = "api" /\ Next /\ UNCHANGED <<user, request, answer>>

NoRequest ==
    [sources |-> <<>>, bad |-> "no", evm |-> "absent", optimize |-> "absent",
     standard |-> "absent", libraries |-> FALSE, requested |-> {}]

AllInit == Init /\ user \in {"api", "json"} /\ request = NoRequest /\ answer = NoAnswer
AllNext == UserCalls \/ \E r \in Requests : StandardCompile(r)
AllSpec == AllInit /\ [][AllNext]_allVars

(***************************************************************************)
(* Properties                                                              *)
(***************************************************************************)

(* What the answer shows was made by this request: code and source map of  *)
(* every requested contract come from its own compilation, its texts and   *)
(* its settings, although stack, caches and settings outlive a request.    *)
(* (A contract selected through file "*" is not promised code.)            *)
AnswerCurrent ==
    \A c \in DOMAIN answer.contracts :
        LET shown == answer.contracts[c] IN
        /\ shown.code # NoCode =>
               /\ shown.code.gen = stack.compiles
               /\ shown.map = stack.compiles
               /\ shown.code.text = stack.sources[c[1]].text
               /\ shown.code.optimize = (request.optimize = "on")
               /\ shown.code.evm = (request.evm = "on")
        /\ (Deployable(c) /\ (request.requested = {} \/ c \in request.requested)) =>
               shown.code # NoCode
        /\ c[1] \in DOMAIN request.sources \cup DOMAIN Files

(* compileInternal calls it an inconsistent state if compilation failed    *)
(* and nothing is reported; it is reached only when the sources have empty *)
(* lists of URLs.  A failed compilation shows an error, not only warnings, *)
(* as long as the reporter has not reached its limit.                      *)
FailureExplained ==
    /\ answer.kind = "silent" => \A n \in DOMAIN request.sources : request.sources[n] = <<>>
    /\ (answer.kind = "output" /\ stack.state # "CompilationSuccessful") =>
           answer.errors \/ stack.count > ErrorLimit
=============================================================================
