------------------------------ MODULE MCScene ------------------------------
(* A row of four panels and a tree of five; scenes that between them use   *)
(* every kind of step, waiting, async, disabled and endless layers.        *)
EXTENDS Scene

Link(a, ea, b, eb) == [a |-> a, ea |-> ea, b |-> b, eb |-> eb]

MCTrees == << \* 2 - 1 - 3 - 4, left to right
             [idx |-> <<1, 2, 3, 4>>, links |-> <<Link(1, 0, 2, 2), Link(1, 2, 3, 0), Link(3, 2, 4, 0)>>,
              x |-> <<2, 0, 4, 6>>],
             \* 2 is the hub; its connector toward 1 is its last, 5 hangs on 4
             [idx |-> <<1, 2, 3, 4, 5>>,
              links |-> <<Link(1, 0, 2, 2), Link(2, 0, 3, 1), Link(2, 1, 4, 1), Link(4, 0, 5, 2)>>,
              x |-> <<>>] >>

MCRoots == {0, 2, 9}
MCSpeeds == {10, 20}
MCPicks == [place : 0..1, off : 0..1]

C(n) == <<"color", [kind |-> "rgb", v |-> n]>>
Type(t) == <<"type", t>>
Run(t) == <<"runner", t>>
For(n) == <<"duration", n>>
All == [sel |-> ""]
Sel(w) == [sel |-> w]
Name(n) == [name |-> n]

L(group, panels, steps) == [group |-> group, async |-> "", blend |-> "default", disabled |-> FALSE,
                            startAfter |-> <<>>, panels |-> panels, sequence |-> steps]
S(loop, layers) == [loop |-> loop, speed |-> 10, background |-> 7, layers |-> layers]
After(l, what) == [l EXCEPT !.startAfter = what]
Async(l, how) == [l EXCEPT !.async = how]

Chase == <<Run("CHASE"), C(1), For(2)>>

MCDocuments ==
  << \* a sweep followed by a held frame, a layer below, one that waits for the first
     S(TRUE, <<Async(L(Name("low"), Sel("leaves"), <<<<Type("FADE"), C(2), For(2)>>, <<For(1)>>>>), "loop"),
               L(Name("top"), All, <<Chase, <<Type("SOLID"), C(3), For(1)>>>>),
               After(L(Name("late"), Sel("root"), <<<<Type("BREATHE"), C(4), For(1)>>>>), <<"top">>)>>),
     \* sweeps that overlap; a layer that waits for a step of another
     S(TRUE, <<L(Name("w"), All, <<<<Run("WAVE"), C(1), For(4), <<"count", 2>>, <<"width", 1>>>>>>),
               L(Name("y"), Sel("odd"), <<<<<<"id", "s">>, Type("PULSE"), C(2), For(1)>>, <<Type("BLINK"), C(3), For(1)>>>>),
               After(L(Name("x"), Sel("even"), <<<<Type("STROBE"), C(4), For(1)>>>>), <<"y", "s">>)>>),
     \* played once, under a free layer of drops
     S(FALSE, <<Async(L(Name("rain"), All, <<<<Run("RAIN"), C(1), For(3), <<"speed", 2>>>>>>), "free"),
                L(Name("b"), All, <<<<Run("BOUNCE"), C(2), For(4)>>, <<Run("WHEEL"), C(3), For(3), <<"lines", 2>>, <<"source", [kind |-> "panel", n |-> 1]>>>>>>)>>),
     \* geometric runners, a disabled layer somebody waits for
     S(TRUE, <<L(Name("r"), All, <<<<Run("RIPPLE"), C(1), For(3), <<"reverse", TRUE>>, <<"directionality", "geometric">>, <<"source", [kind |-> "all"]>>>>>>),
               Async(L(Name("m"), All, <<<<Run("MATRIX"), C(2), For(4), <<"directionality", "geometric">>>>>>), "loop"),
               [L(Name("off"), All, <<<<Type("SOLID"), C(3), For(1)>>>>) EXCEPT !.disabled = TRUE],
               After(L(Name("z"), Sel("root"), <<<<Type("HUE_CYCLE"), C(4), For(1)>>>>), <<"off">>)>>),
     \* endless sync layers: sparkles under a modifier
     S(TRUE, <<L(Name("s"), Sel("leaves"), <<<<Type("TRANSITION"), C(1), For(1)>>, <<Run("SPARKLE"), C(2), For(0), <<"waves", 4>>, <<"width", 1>>>>>>),
               L(Name("d"), All, <<<<Type("FADE"), <<"animates", "dim">>, <<"from", 255>>, <<"to", 9>>, <<"loop", TRUE>>, For(2)>>>>)>>),
     \* two layers of sweeps that share four groups; the second is one short
     S(TRUE, <<L(Name("u"), Sel("leaves"), <<<<Run("CHASE"), C(1), For(4)>>>>),
               L([number |-> 8], All, <<<<Run("WAVE"), C(2), For(4), <<"count", 2>>, <<"width", 1>>>>>>)>>),
     \* one-shots
     [group |-> 5, panels |-> Sel("all"), fields |-> <<Type("REACTIVE"), C(1), For(2)>>],
     [group |-> 9, panels |-> All, fields |-> <<Run("RAIN"), C(1), For(3), <<"directionality", "geometric">>, <<"reverse", TRUE>>>>],
     [group |-> 2, panels |-> All, fields |-> <<Run("MATRIX"), C(1), For(3), <<"reverse", TRUE>>>>],
     \* refused: an endless step before the last, one group twice, a cycle, a wait for an endless layer
     S(TRUE, <<L(Name("e"), All, <<<<Type("SOLID"), For(65536)>>, Chase>>)>>),
     S(TRUE, <<L(Name("e"), All, <<Chase>>), L([number |-> 1], All, <<Chase>>)>>),
     S(TRUE, <<After(L(Name("e"), All, <<Chase>>), <<"f">>), After(L(Name("f"), All, <<Chase>>), <<"e">>)>>),
     S(TRUE, <<L(Name("e"), All, <<<<Type("SOLID")>>>>), After(L(Name("f"), All, <<Chase>>), <<"e">>)>>)
  >>

ASSUME RefusedAreRefused == \A d \in DOMAIN MCDocuments : Parsed[d].ok <=> d <= 9

Leafs == {Sel(w) : w \in Words} \cup
         {[sel |-> "depth", lo |-> 1, hi |-> 2], [sel |-> "subtree", n |-> 2], [sel |-> "subtree", n |-> 7],
          [sel |-> "neighbors", n |-> 2], [sel |-> "first", n |-> 2], [sel |-> "last", n |-> 1], [sel |-> "last", n |-> 9],
          [sel |-> "fraction", lo |-> 0, hi |-> 50], [sel |-> "fraction", lo |-> 50, hi |-> 100],
          [sel |-> "indices", list |-> <<4, 2>>], [sel |-> "exclude", list |-> <<2, 8>>]}

MCSelectors ==
    LET not(a)    == [sel |-> "not", of |-> <<a>>]
        any(s)    == [sel |-> "any", of |-> s]
        every(s)  == [sel |-> "every", of |-> s]
    IN  Leafs \cup {not(a) : a \in Leafs}
        \cup {any(<<a, Sel("root")>>) : a \in Leafs} \cup {every(<<Sel("odd"), not(a), a>>) : a \in Leafs}
        \cup {every(<<Sel("even"), any(<<Sel("root"), a>>)>>) : a \in Leafs}
=============================================================================
