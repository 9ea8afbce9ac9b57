------------------------------ MODULE MCRefresh ------------------------------
(***************************************************************************)
(* Two source files that share a header, which includes a file outside of  *)
(* the project.  Source file a has three texts: v defines a macro, includes *)
(* the header and declares and connects n, w only includes the header, and *)
(* u only declares n.  Text v of the header connects n, and declares n too *)
(* under the macro; text w is empty.  So what is cleared for the sake of a  *)
(* starts in two files, and a may stop defining what the header depends on *)
(* while b still includes it.  What a is parsed with is an error in a, what *)
(* b is parsed with is one in the header.                                  *)
(***************************************************************************)
EXTENDS Refresh

\* A text that includes i, declares d and connects u.
C(i, d, u) == [inc |-> i, decl |-> d, uses |-> u]

MCContent ==
  [a |-> [v |-> {C({"h"}, {"n"}, {<<"n", "k">>})}, w |-> {C({"h"}, {}, {})},
         u |-> {C({}, {"n"}, {})}],
   b |-> [v |-> {C({"h"}, {}, {})}],
   h |-> [v |-> {C({"x"}, {"n"}, {<<"n", "m">>}), C({"x"}, {}, {<<"n", "m">>})},
          w |-> {C({}, {}, {})}],
   x |-> [v |-> {C({}, {}, {})}]]

\* What s sees of f: what declares more is under the macro, which text v of a has.
MCSees(s, d, f) ==
  CHOOSE c \in Content[f][d[f]] : \A o \in Content[f][d[f]] :
    IF s = "a" /\ d["a"] = "v" THEN o.decl \subseteq c.decl ELSE c.decl \subseteq o.decl

MCBreaks == {<<"a", "a">>, <<"b", "h">>}

MCFirst == [f \in {"a", "b", "h", "x"} |-> "v"]

\* The file outside is missing at first, or a is the text that includes nothing.
MCInitial == {[MCFirst EXCEPT !.x = Gone], [MCFirst EXCEPT !.a = "u"]}
==============================================================================
