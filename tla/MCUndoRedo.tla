----------------------------- MODULE MCUndoRedo -----------------------------
(* Instances of UndoRedo: the commands the user gives.                     *)
EXTENDS UndoRedo

C(k, v) == [kind |-> k, value |-> v, option |-> "none"]

\* Two nodes to activate, the errors, a bundle of edges, two adaptions, one of
\* which is not recorded twice in a row, and views: one overwrites itself, of the
\* other only the last is replayed.
SomeCommands == {C("tokens", "a"), C("errors", "a"), C("bundle", "s"),
                 C("hide", "a"), C("edge", "e"),
                 C("scrollCode", "a"), C("scrollCode", "b"), C("focus", "a"),
                 C("tokens", "b")}

\* A symbol that the database does not know.
UnknownSymbol == {C("tokens", "b")}

\* The handlers tell these commands apart, as the theorem on what is shown needs.
ASSUME ToldApartHere == ToldApart
=============================================================================
