------------------------------ MODULE MCFirstShell -----------------------------
(***************************************************************************)
(* Lines for the shell of the first assignment: variables that compete for *)
(* two entries, one of them named like a free entry; scripts that run      *)
(* themselves, each other, nothing or quit; chains of conditionals.        *)
(***************************************************************************)
EXTENDS FirstShell, TLC

MCDollar == "$x" :> "x" @@ "$y" :> "y"

IfX == [left |-> "$x", op |-> "==", right |-> "a", command |-> <<"print", "x">>]
IfY == [left |-> "$y", op |-> "!=", right |-> "$x", command |-> <<"run", "r">>]

MCChains == {[arms |-> arms, last |-> last] :
                arms \in {<<IfX>>, <<IfY>>, <<IfX, IfY>>, <<IfY, IfX>>},
                last \in {<<>>, <<"my_ls">>, <<"print", "y">>}}

MCScript == [r |-> << <<"run", "r">>, <<"set", "x", "b">> >>,
             s |-> << <<"if", "$x", "==", "b", "then", "run", "r", "fi">>,
                      <<"set", "y", "a", "b">>,
                      <<"if", "$x", "!=", "a", "then", "quit", "else", "run", "t", "fi">> >>,
             t |-> << <<"set", "z", "b">> >>]

MCTyped == {Flat(chain) : chain \in MCChains}
           \cup { <<"set", v, x>> : v \in {"x", "y", "none"}, x \in {"a", "b"} }
           \cup { <<"run", f>> : f \in {"r", "s", "missing"} }
           \cup { <<>>, <<"quit">>, <<"set", "x">>, <<"print", "x", "y">>, <<"nonsense">>,
                  <<"if", "$x", "==", "a", "then", "print", "x">>,
                  <<"if", "$x", "is", "a", "then", "print", "x", "fi">>,
                  <<"if", "$x", "==", "a", "then", "fi">> }
================================================================================
