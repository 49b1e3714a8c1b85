------------------------------- MODULE MCRelay -------------------------------
(***************************************************************************)
(* Relay on small instances. A first high-risk command, narrow, is covered *)
(* by its own approval only; the text of wide begins with that of narrow,  *)
(* so an approval of narrow covers wide too (Executor._exempt compares by  *)
(* prefix).                                                                *)
(***************************************************************************)
EXTENDS Relay, TLC

CONSTANTS narrow, wide

TwoCmds == {narrow, wide}
PrefixCovers == (narrow :> {narrow, wide}) @@ (wide :> {wide})
OneCmd == {narrow}
OneCovers == narrow :> {narrow}
=============================================================================
