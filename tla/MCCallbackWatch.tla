--------------------------- MODULE MCCallbackWatch ---------------------------
(* CallbackWatch on small instances. *)
EXTENDS CallbackWatch, TLC

\* Three notices show a gap in the one sequence of version 4.
NoticeBounds == [v \in Versions |-> IF v = 2 THEN 2 ELSE 3]

\* Two images of one executable, as two scripts of one shell are: a fork
\* notice cannot tell them apart, an exec notice says what is read of them.
PathsAtForks ==
    [fork |-> [image \in Images |-> CHOOSE path \in Images : TRUE],
     exec |-> [image \in Images |-> image]]
=============================================================================
