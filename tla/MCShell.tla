------------------------------ MODULE MCShell ------------------------------
(* Instances of Shell for TLC: the lines of up to MaxSymbols symbols over     *)
(* Words, and the commands they amount to.                                    *)
EXTENDS Shell

CONSTANTS Words, MaxSymbols

WordsApart(s) ==
    \A i \in 1..(Len(s) - 1) : ~({s[i], s[i + 1]} \subseteq Words)

ShortLines ==
    {Append(s, "\n") : s \in
        {t \in UNION {[1..n -> Words \cup Delimiters \cup {" "}] :
                        n \in 0..MaxSymbols} : WordsApart(t)}}

TypedCommands == Typed(ShortLines)

CatRm == {<<"cat">>, <<"rm", "f">>}
=============================================================================
