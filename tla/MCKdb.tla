------------------------------- MODULE MCKdb -------------------------------
(***************************************************************************)
(* A small session: core 0 gives the flag core 1 waits for, both end in an *)
(* ebreak, and both have an invalid instruction a wrong pc leads to.       *)
(***************************************************************************)
EXTENDS Kdb, TLC

GuestCode ==
  (0 :> (0 :> "plain" @@ 1 :> "give" @@ 2 :> "good" @@ 3 :> "bad")) @@
  (1 :> (0 :> "take" @@ 1 :> "plain" @@ 2 :> "bad" @@ 3 :> "invalid"))

CommandLines ==
  {[name |-> n, arg |-> 0] : n \in {"run", "gdb", "source", "quit", ""}}
  \cup {[name |-> "reset", arg |-> 9], [name |-> "reset", arg |-> 1],
        [name |-> "step", arg |-> 2], [name |-> "break", arg |-> 1],
        [name |-> "break", arg |-> 2], [name |-> "load", arg |-> 3],
        [name |-> "set", arg |-> 3]}
=============================================================================
