------------------------------ MODULE MCShell ------------------------------
EXTENDS Shell

\* The characters of a string, % standing for a line break.
Chars(string) ==
    [i \in 1..Len(string) |->
        LET ch == SubSeq(string, i, i) IN IF ch = "'" THEN "sq" ELSE IF ch = "%" THEN "\n" ELSE ch]

MCLines ==
    {Chars(string) : string \in {
        "e a | e b > o | e", "g ^b < w", "e b | g -F a | e c >> o", "e < o", "g a < o | h",
        "e ac | g [ | e", "e a > y/y", "e b >> d/x", "e a > d", "e c >> v/o",
        "g c < v/o", "e x < q", "z c", "h $H '$?'${X}$", "f | e", "g",
        "f && e a", "f || e a ; t", "e a && f & e b || e c", "f ; t", "r X=a h", "r f",
        "s I a ; e", "s X c", "u X", "l m e b", "l m=m", "m a", "n m", "l", "l a",
        ". j | e", "e c | . j | e", ". q", "x ; e a"}}

MCFiles ==
    (Chars("/w") :> Chars("a%b%") @@ Chars("/i") :> Chars("# c%%s H a% l m e%g%e z%")
     @@ Chars("/j") :> Chars("e a | e%f && e b%"))

MCDirs == {Chars(string) : string \in {"/", "/d", "/v", "/y"}}
MCVolume == Chars("/v")
MCOnDisk == Chars("/v/o") :> Chars("c%")
MCVirtual == Chars("/y/y") :> Chars("a%")

Upto(S, n) == UNION {[1..k -> S] : k \in 0..n}

\* A byte, an escaped one, any byte, and classes: of members, negated, and a
\* range written backwards.
Item(string, bytes, quantifier) == [written |-> Chars(string), bytes |-> bytes, quantifier |-> quantifier]
QuantifierTexts == {<<>>, <<"*">>, <<"+">>, <<"?">>}
PlainItems == {Item("a", {"a"}, q) : q \in QuantifierTexts} \cup {Item(".", {"a", "b"}, q) : q \in QuantifierTexts}
ClassItems == {Item(w[1], w[2], q) :
                  w \in {<<"\\b", {"b"}>>, <<"[ab]", {"a", "b"}>>, <<"[^b]", {"a"}>>, <<"[b-a]", {"a", "b"}>>,
                         <<"[^\\]-b]", {}>>},
                  q \in QuantifierTexts}

MCSubjects ==
    {[kind |-> "line", text |-> line] :
        line \in Upto({"a", " ", "sq", "dq", ";", "|", ">"}, 5) \cup Upto({"a", " ", "sq", "|", "&", ">", "<"}, 4)}
    \cup {[kind |-> "pattern", begin |-> b, items |-> items, end |-> e] :
            b \in BOOLEAN, e \in BOOLEAN,
            items \in Upto(PlainItems, 3) \cup Upto(PlainItems \cup ClassItems, 2)}
=============================================================================
