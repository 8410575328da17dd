------------------------------ MODULE MCPools ------------------------------
(***************************************************************************)
(* The two families of pools on the same tokens of the same chain.  They   *)
(* share no state, so a behaviour uses one of them.                        *)
(***************************************************************************)
EXTENDS Pool, V3Pool

LowTick == -2

\* Powers of the square root of two around 1, in sixteenths.
RootTwo == [t \in -2..2 |-> CASE t = -2 -> 8 [] t = -1 -> 11 [] t = 0 -> 16
                              [] t = 1 -> 23 [] t = 2 -> 32]

\* Two ranges that meet at tick 0, and one around it that crosses a word.
SomeRanges == {<<-1, 0>>, <<0, 1>>, <<-2, 1>>}

PoolsInit == Init /\ V3Init

PoolsNext ==
  \/ v3calls = 0 /\ Next /\ UNCHANGED v3vars
  \/ calls = 0 /\ V3Next /\ UNCHANGED vars

PoolsSpec == PoolsInit /\ [][PoolsNext]_<<vars, v3vars>>
=============================================================================
