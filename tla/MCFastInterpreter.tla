-------------------------- MODULE MCFastInterpreter --------------------------
(***************************************************************************)
(* Loops with every body of up to three short pieces, between two cells    *)
(* read from the input and an output; nests that count down; the           *)
(* comparison and remote transfer idioms; moves off the tape; unbalanced   *)
(* brackets.  Every source as plain text and compressed.                   *)
(***************************************************************************)
EXTENDS FastInterpreter

Run(op, n) == [op |-> op, count |-> n]
One(op) == <<Run(op, 1)>>
Right(n) == <<Run(">", n)>>
Left(n)  == <<Run("<", n)>>
Plus1 == One("+")
Minus == One("-")
Loop(body) == One("[") \o body \o One("]")
Clear == Loop(Minus)

(* Two cells of input, with room on both sides. *)
Setup == Right(1) \o One(",") \o Right(1) \o One(",") \o Left(1)

Pieces == {Right(1), Right(2), Left(1), Left(2), Plus1, Minus, <<Run("-", 3)>>, Clear, Loop(Right(1)), Loop(Left(2))}
Bodies == {<<>>} \cup Pieces \cup {p \o q : p, q \in Pieces} \cup {p \o q \o r : p \in {Minus, Plus1}, q, r \in Pieces}

LoopSources == {Setup \o Loop(b) \o One(".") : b \in Bodies}

Countdowns ==
    LET tails == {<<>>, Right(1), One(","), Left(1) \o Plus1 \o Right(1), Clear}
        leaves == {Clear, Loop(Right(1) \o Minus \o Left(1)), Loop(<<>>)}
        Level(inner, tail) == Loop(Minus \o inner \o tail)
    IN  {Setup \o Level(Level(leaf, t1), t2) \o One(".") : leaf \in leaves, t1, t2 \in tails}
        \cup {Setup \o Level(Level(Level(leaf, <<>>), t1), t2) : leaf \in leaves, t1, t2 \in tails}

CompareBody ==
    Right(2) \o Plus1 \o Left(1) \o Loop(Minus \o Left(1) \o Minus \o Right(2) \o Minus)
    \o Right(1) \o Loop(Minus \o Left(2) \o Clear \o Right(3)) \o Left(3)
SlideBody == Right(3) \o Loop(Minus \o Left(1)) \o Left(2) \o Minus

Idioms ==
    {Setup \o scratch \o Loop(b) \o One(".") :
        scratch \in {<<>>, Right(2) \o Plus1 \o Left(2)}, b \in {CompareBody}}
    \cup
    {One(",") \o Right(1) \o flag \o Right(2) \o One(",") \o Left(3) \o Loop(SlideBody) \o One(".") :
        flag \in {<<>>, Plus1, <<Run("+", 2)>>}}

(* A transfer to a cell that two scans find. *)
Remotes ==
    {One(",") \o Right(2) \o guards \o Left(2) \o
     Loop(first \o Right(1) \o Right(1) \o Loop(Right(1)) \o add \o Loop(Left(1)) \o back) \o One(".") :
        first \in {Minus, Plus1}, guards \in {<<>>, Plus1, Plus1 \o Right(1) \o Plus1 \o Left(1)},
        add \in {Plus1, Right(1) \o Plus1 \o Left(1), Left(1) \o Plus1}, back \in {Left(1), Left(2), Left(1) \o Plus1 \o Minus}}

Moves ==
    {before \o Right(n) \o comment \o Right(k) \o Left(j) :
        before \in {<<>>, Plus1}, comment \in {<<>>, <<Run("#", 2)>>}, n, k \in {1, 2, 3}, j \in {3, 4, 6}}
    \cup {Plus1 \o Right(1) \o Plus1 \o Loop(Right(n) \o <<Run("#", 1)>> \o Right(1) \o comment) \o One(".") :
             n \in {1, 2}, comment \in {<<>>, Plus1}}
    \cup {Right(3) \o <<Run("+", 3)>> \o Loop(Minus \o Right(2) \o Plus1 \o Left(2)),
          Right(1) \o <<Run("+", 2)>> \o Loop(Minus \o Left(2) \o Plus1 \o Right(2))}

Brackets ==
    LET b == {One("["), One("]"), Plus1} IN
    {p \o q \o r \o s : p, q, r, s \in b}

MCSources == [compressed : BOOLEAN, runs : LoopSources \cup Countdowns \cup Idioms \cup Remotes \cup Moves \cup Brackets]

MCInputs == {<<3, 2>>, <<1, 5>>}

(* Everything enabled, nothing but runs, nothing; and each one disabled. *)
MCDisabled ==
    {{}, {"rle"}, {"clear", "scan", "transfer", "countdown", "compare"}}
    \cup {{o} : o \in {"clear", "scan", "transfer", "countdown", "remote", "compare"}}
=============================================================================
