---------------------------- MODULE MCDiscovery ----------------------------
(***************************************************************************)
(* Addresses of four bits; readers at 5 and 8, something else at 7, and    *)
(* what EdgeX may know of them.                                            *)
(***************************************************************************)
EXTENDS Discovery, TLC

CONSTANTS n1, n2

SomeConfigs == { << <<6, 2>>, <<9, 4>> >>, << <<9, 3>>, <<2, 1>> >> }
SomeListening == {5, 7, 8}
SomeReaderAt == [a \in SomeListening |-> CASE a = 5 -> {n1} [] a = 8 -> {n2} [] OTHER -> {}]
NobodyListens == [a \in {} |-> {}]
SomeRegistered ==
  { n1 :> [tcp |-> 5, up |-> TRUE], n2 :> [tcp |-> 5, up |-> FALSE] }

\* Two readers that have swapped their addresses while their devices were down.
Swapped ==
  { (n2 :> [tcp |-> 5, up |-> FALSE]) @@ (n1 :> [tcp |-> 8, up |-> FALSE]) }
SwappedConfigs == { << <<9, 3>>, <<5, 3>>, <<5, 4>> >> }
=============================================================================
