----------------------------- MODULE MCAverages -----------------------------
(* Two users of the Python server, 1 and 2, and one of the Go server, 3,   *)
(* for TLC.                                                                *)
EXTENDS Averages

\* Two of the four-bit numbers wrap a sum, a third takes it back into range.
UsersInputs == [k \in Call |-> CASE k[1] \in GoClient -> {1}
                                 [] k[2] = 1 -> {7}
                                 [] OTHER -> {7, -8}]
UsersCalls == <<1, 1, 2>>
UsersNumbers == <<1, 0, 3>>
=============================================================================
