------------------------------- MODULE MCYul -------------------------------
(* Programs and units for YulSuite *)
EXTENDS YulSuite

x == Id("x")
y == Id("y")
a == Id("a")
b == Id("b")
cd(n) == Op("calldataload", <<Lit(n)>>)
sload(k) == Op("sload", <<k>>)
add(u, v) == Op("add", <<u, v>>)
sstore(k, v) == Ex(Op("sstore", <<k, v>>))

(* A common subexpression, and an assignment in between *)
Straight == <<Let(<<"x">>, <<sload(cd(0))>>), Let(<<"y">>, <<add(x, Lit(2))>>), Let(<<"z">>, <<add(x, Lit(2))>>),
              Asg(<<"x">>, add(x, sload(Lit(1)))), sstore(Lit(0), add(x, add(y, Id("z"))))>>
(* A value that depends on a branch *)
Branch == <<Let(<<"x">>, <<Lit(1)>>),
            If(Op("lt", <<cd(0), Lit(2)>>), <<Asg(<<"x">>, add(x, Lit(2))), sstore(Lit(1), x)>>), sstore(Lit(0), x)>>
(* A loop *)
Looping == <<For(<<Let(<<"x">>, <<Lit(0)>>)>>, Op("lt", <<x, Lit(2)>>), <<Asg(<<"x">>, add(x, Lit(1)))>>,
                 <<sstore(x, add(x, cd(0)))>>)>>
(* Functions that share names, one with two results, calls inside calls *)
Functions == <<Fn("f", <<"a", "b">>, <<"c">>, <<Asg(<<"c">>, add(a, Op("mul", <<b, Lit(1)>>)))>>),
               Fn("g", <<"a">>, <<"b", "c">>, <<Let(<<"x">>, <<sload(a)>>), Asg(<<"b">>, x),
                                               If(a, <<Asg(<<"c">>, Call("f", <<b, x>>))>>)>>),
               Let(<<"x", "y">>, <<Call("g", <<cd(0)>>)>>), sstore(x, y),
               sstore(Lit(0), Call("f", <<x, sload(Lit(0))>>))>>
(* A switch that assigns in some cases *)
Cases == <<Let(<<"x">>, << >>),
           Switch(cd(1), <<<<Lit(1)>>, <<Lit(2)>>, << >>>>,
                  <<<<Asg(<<"x">>, Lit(3))>>, <<Asg(<<"x">>, sload(Lit(1)))>>, <<sstore(Lit(1), Lit(1))>>>>),
           sstore(Lit(0), Op("and", <<x, x>>))>>
(* The same names in different blocks, a function inside a block, a loop in a branch *)
Nested == <<Blk(<<Let(<<"x">>, <<cd(1)>>), Fn("f", <<"y">>, <<"z">>, <<Asg(<<"z">>, add(y, Lit(1)))>>), sstore(Lit(1), Call("f", <<x>>))>>),
            Blk(<<Let(<<"x">>, <<cd(0)>>), Fn("h", << >>, <<"z">>, <<Asg(<<"z">>, sload(Lit(1)))>>),
                  If(x, <<For(<<Let(<<"y">>, <<Lit(0)>>)>>, Op("lt", <<y, x>>), <<Asg(<<"y">>, add(y, Lit(1)))>>,
                              <<If(sload(y), <<sstore(y, Call("h", << >>))>>)>>)>>)>>)>>
(* A recursive function *)
Recursive == <<Fn("f", <<"a">>, <<"b">>, <<Switch(a, <<<<Lit(0)>>, << >>>>,
                     <<<<Asg(<<"b">>, Lit(1))>>, <<Asg(<<"b">>, Op("mul", <<a, Call("f", <<Op("sub", <<a, Lit(1)>>)>>)>>))>>>>)>>),
               sstore(Lit(0), Call("f", <<cd(0)>>))>>
MCPrograms == {Straight, Branch, Looping, Functions, Cases, Nested, Recursive}

(* Solidity declarations: two locals, a storage pointer, a state variable, a constant, a function, a library *)
Decl(d, s, st, sz, k, base) ==
    [count |-> 1, decl |-> d, suffix |-> s, storage |-> st, size |-> sz, constant |-> k, base |-> base, slot |-> 3, offset |-> 1]
MCExt == ("l" :> Decl("local", "", FALSE, 1, FALSE, 0)) @@ ("m" :> Decl("local", "", FALSE, 1, FALSE, 1))
         @@ ("p_slot" :> Decl("local", "slot", TRUE, 1, FALSE, 0)) @@ ("p_offset" :> Decl("local", "offset", TRUE, 1, FALSE, 0))
         @@ ("q" :> Decl("local", "", FALSE, 2, FALSE, 0)) @@ ("v" :> Decl("state", "", FALSE, 1, FALSE, 0))
         @@ ("v_slot" :> Decl("state", "slot", FALSE, 1, FALSE, 0)) @@ ("v_offset" :> Decl("state", "offset", FALSE, 1, FALSE, 0))
         @@ ("k" :> Decl("state", "", FALSE, 1, TRUE, 0)) @@ ("h" :> Decl("function", "", FALSE, 1, FALSE, 0))
         @@ ("lib" :> Decl("library", "", FALSE, 1, FALSE, 0))
Uses(n) == <<Let(<<"x">>, <<Id(n)>>), sstore(x, add(x, Id(n)))>>
Sets(n) == <<Let(<<"x">>, <<Lit(1)>>), Asg(<<n>>, add(x, Lit(1))), sstore(Lit(0), x)>>
Inside(n) == <<Fn("f", << >>, <<"r">>, <<Asg(<<"r">>, Id(n))>>), sstore(Lit(0), Call("f", << >>))>>
LooseCode == <<Let(<<"x">>, <<Lit(1)>>), Ex(Lit(2)), Ex(x), Instr("add"), StackAsg("x"), Label("here"), Ex(Id("here")), Instr("pop")>>
MCUnits == {Unit(u, MCExt, 3, FALSE) : u \in UNION {{Uses(n), Sets(n), Inside(n)} : n \in DOMAIN MCExt}}
           \cup {Unit(LooseCode, << >>, 1, l) : l \in BOOLEAN}
=============================================================================
