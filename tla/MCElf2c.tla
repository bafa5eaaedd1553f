------------------------------ MODULE MCElf2c --------------------------------
(* Instances of Elf2c for TLC.                                                 *)
EXTENDS Elf2c

CONSTANTS w1, w2

I(op, to) == [op |-> op, to |-> to]
Ret == I("ret", 0)

\* Texts of five instructions.
MCText ==
    {<<a, b, c, d, e>> :
        a \in {I("branch", 3), I("jump", 4), I("call", 4), I("switch", 0), I("takes", 3)},
        b \in {I("call", 4), I("jump", 3), Ret},
        c \in {I("call", 5), I("jump", 2), I("plain", 0), I("branch", 5)},
        d \in {I("jump", 5), I("jump", 3), Ret},
        e \in {I("jump", 3), Ret, I("switch", 0)}}

\* The block lists a CFG recovery makes from the function starts S when it misses
\* the blocks of `lost`.  It knows the function a block it lists calls.
Graph(code, S, lost) ==
    LET e(a) == Min({x \in a..5 : code[x].op \notin {"plain", "takes"}})
        Step(a) == {d \in (IF code[e(a)].op = "call" THEN {} ELSE {code[e(a)].to}) \cup
                          (IF code[e(a)].op \in {"branch", "call"} THEN {e(a) + 1} ELSE {}) :
                       d # 0 /\ d \notin S \cup lost}
        blocks(f) ==
            LET reached[n \in 0..5] ==
                    IF n = 0 THEN {f}
                    ELSE LET prev == reached[n - 1] IN prev \cup UNION {Step(a) : a \in prev}
            IN  reached[5]
    IN  [f \in S |-> blocks(f)]

KnowsItsCallees(code, cfg) ==
    \A f \in DOMAIN cfg : \A b \in cfg[f] :
        LET e == Min({x \in b..5 : code[x].op \notin {"plain", "takes"}})
        IN  code[e].op = "call" => code[e].to \in DOMAIN cfg

Build(Texts, Starts, Losses, Arms) ==
    LET Recovered == {<<t, Graph(t, S, lost)>> : t \in Texts, S \in Starts, lost \in Losses}
    IN  {p \in {[code |-> r[1], cfg |-> r[2], exports |-> {1}, false |-> false,
                 arms |-> arms, relocs |-> relocs] :
                    r \in {q \in Recovered : KnowsItsCallees(q[1], q[2])}, arms \in Arms,
                    false \in {{}, {4}}, relocs \in {{}, {3}}} :
            p.false \subseteq DOMAIN p.cfg}

\* A few texts that show what the whole family holds instances of.
MCFew ==
    Build({<<a, b, c, d, e>> :
             a \in {I("takes", 3), I("switch", 0)}, b \in {I("call", 4), Ret},
             c \in {I("plain", 0), I("jump", 2)}, d \in {I("jump", 5)},
             e \in {I("jump", 3), I("switch", 0)}},
          {{1, 4}}, {{}, {2}, {3}}, {{}, {2, 3}})

\* Every text from every set of starts, and some whose first function is a false
\* start.
MCPrograms ==
    Build(MCText, {{1}, {1, 4}, {1, 2, 4}}, {{}, {3}}, {{}, {2, 3}}) \cup
    {[p EXCEPT !.exports = {4}, !.false = {1}, !.arms = {1, 2}] :
        p \in {q \in MCFew : q.false = {}}}

Symmetry == Permutations({w1, w2})
=============================================================================
